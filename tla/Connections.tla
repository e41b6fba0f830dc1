---------------------------- MODULE Connections ----------------------------
(***************************************************************************)
(* The connections of a workspace (connections/service.py, router.py):     *)
(* environments, catalogs, object stores, compute backends and secrets,    *)
(* with the part of the table index that refers to them.                   *)
(*                                                                         *)
(* A handler checks what it needs against the rows it reads (Begin), holds *)
(* what its transaction will write, and commits it later (Commit), unless  *)
(* something fails (Abort). The database accepts a commit only if the      *)
(* constraints of the schema hold afterwards.                              *)
(***************************************************************************)
EXTENDS Naturals, FiniteSets, ConnectionTests

CONSTANTS
  Environment, Catalog, Store, Backend, Secret, \* identifiers of rows (UUIDs)
  Name, Type,     \* names of connections and types of catalogs
  Table, Thread,
  Start,          \* contents of the database the system may start with
  MaxRequests,    \* bound on the requests of a behaviour
  None

VARIABLES
  row,      \* the connection rows, None where there is none
  index,    \* per catalog and table name the environment of the table row
  spaces,   \* the catalogs that have a namespace row
  runs,     \* the catalogs that sync runs refer to
  used,     \* identifiers given out
  req,      \* what the request of a thread has decided to write
  alone,    \* history: has no other request been under way since it began?
  started   \* requests so far

vars == <<row, index, spaces, runs, used, req, alone, started>>

Id == Environment \cup Catalog \cup Store \cup Backend \cup Secret

Kind(i) ==
  CASE i \in Environment -> "environment"
    [] i \in Catalog     -> "catalog"
    [] i \in Store       -> "store"
    [] i \in Backend     -> "backend"
    [] i \in Secret      -> "secret"

Ids(k) ==
  CASE k = "environment" -> Environment
    [] k = "catalog"     -> Catalog
    [] k = "store"       -> Store
    [] k = "backend"     -> Backend
    [] k = "secret"      -> Secret

InEnvironment == {"catalog", "store", "backend"}
Kinds == InEnvironment \cup {"environment", "secret"}

(* Only these three tables have a unique constraint on the name.           *)
Constrained == {"environment", "catalog", "secret"}

(* An inline secret is named after its connection, with a number.          *)
SecretName == Name \X Kinds \X (1..(Cardinality(Secret) + 1))

(* Capabilities name the type they belong to, so that those of two types   *)
(* always differ.                                                          *)
CapabilitiesFor(type) ==
  [protocol |-> type,
   credential_vending |-> type \in {"rest", "s3_tables"},
   remote_signing |-> type = "rest",
   multi_table_commit |-> type = "rest",
   server_side_scan_planning |-> type = "rest",
   catalog_level_branching |-> type = "nessie",
   max_namespace_depth |-> IF type = "glue" THEN 1 ELSE 8,
   can_create_v3 |-> type # "glue",
   can_update_table_via_protocol |-> type # "glue",
   manages_own_maintenance |-> type = "s3_tables"]

Row == [name : Name \cup SecretName, env : Environment \cup {None},
        link : Store \cup {None}, type : Type \cup {None},
        caps : {CapabilitiesFor(y) : y \in Type} \cup {None}]

Column == {"name", "env", "link", "type", "caps"}

Database == [row : [Id -> Row \cup {None}],
             index : [Catalog -> [Table -> Environment \cup {None}]],
             spaces : SUBSET Catalog, runs : SUBSET Catalog]

db == [row |-> row, index |-> index, spaces |-> spaces, runs |-> runs]

Exists(d, i) == i # None /\ d.row[i] # None
-----------------------------------------------------------------------------
(* The constraints of the schema.                                          *)
Named(d, k, n) == {i \in Ids(k) : Exists(d, i) /\ d.row[i].name = n}

UniqueNames(d, ks) ==
  \A k \in ks : \A i, j \in {i \in Ids(k) : Exists(d, i)} :
    d.row[i].name = d.row[j].name => i = j

Unique(d) == UniqueNames(d, Constrained)

ReferencesOfConnections(d) ==
  \A i \in Catalog \cup Store \cup Backend :
    Exists(d, i) => Exists(d, d.row[i].env)

References(d) ==
  /\ ReferencesOfConnections(d)
  /\ \A c \in d.spaces \cup d.runs : Exists(d, c)
  /\ \A c \in Catalog, tb \in Table : d.index[c][tb] # None =>
       c \in d.spaces /\ Exists(d, d.index[c][tb])

CapabilitiesMatch(d) ==
  \A c \in Catalog :
    d.row[c] # None => d.row[c].caps = CapabilitiesFor(d.row[c].type)

(* Identifiers are unique over all tables; the system starts with a        *)
(* database it left behind.                                                *)
ASSUME ConnectionsAssumption ==
  /\ IsFiniteSet(Secret)
  /\ \A k, l \in Kinds : k # l => Ids(k) \cap Ids(l) = {}
  /\ None \notin Id \cup Type \cup Row
  /\ MaxRequests \in Nat
  /\ \A d \in Start :
       d \in Database /\ Unique(d) /\ References(d) /\ CapabilitiesMatch(d)
-----------------------------------------------------------------------------
(* What a request holds until it commits.                                  *)
Write ==
  [op : {"create", "update", "delete", "sync"}, id : Id,
   new : Row \cup {None},             \* the values of created or set columns
   set : SUBSET Column,               \* the columns an update writes
   secret : Secret \cup {None}, label : SecretName \cup {None},
   drop : SUBSET Id,                  \* rows to delete
   tables : [Catalog -> SUBSET Table],\* table rows to delete
   listed : SUBSET Table,             \* tables a sync inserts or updates
   seen : SUBSET Table,               \* of those, the rows it loaded
   moved : SUBSET Table,              \* of those, in another environment
   spaces : SUBSET Catalog]           \* namespaces to delete

Nothing(i) ==
  [op |-> "delete", id |-> i, new |-> None, set |-> {}, secret |-> None,
   label |-> None, drop |-> {}, tables |-> [c \in Catalog |-> {}],
   listed |-> {}, seen |-> {}, moved |-> {}, spaces |-> {}]

TypeOK ==
  /\ db \in Database
  /\ used \in SUBSET Id
  /\ \A i \in Id : Exists(db, i) => i \in used
  /\ req \in [Thread -> Write \cup {None}]
  /\ alone \in [Thread -> BOOLEAN]
  /\ started \in 0..MaxRequests

Init ==
  /\ \E d \in Start : row = d.row /\ index = d.index
                        /\ spaces = d.spaces /\ runs = d.runs
  /\ used = {i \in Id : row[i] # None}
  /\ req = [t \in Thread |-> None]
  /\ alone = [t \in Thread |-> FALSE]
  /\ started = 0

Idle(t) == req[t] = None /\ started < MaxRequests

(* A thread takes a request that will write w, using fresh identifiers.    *)
Begin(t, w, fresh) ==
  /\ req' = [req EXCEPT ![t] = w]
  /\ used' = used \cup fresh
  /\ alone' = [u \in Thread |-> u = t /\ \A v \in Thread \ {t} : req[v] = None]
  /\ started' = started + 1
  /\ UNCHANGED <<row, index, spaces, runs>>
-----------------------------------------------------------------------------
(* A wrong check: a row that keeps its name conflicts with itself, and a   *)
(* renamed one with nothing.                                               *)
NameFreeForNew(k, n, self) ==
  self = None => Named(db, k, n) = {}

(* _ensure_unique_name                                                     *)
NameFree(k, n, self) == Named(db, k, n) \ {self} = {}

(* _unique_secret_name: the first free number.                             *)
FreeLabel(k, n) ==
  LET free == {m \in 1..(Cardinality(Secret) + 1) :
                 Named(db, "secret", <<n, k, m>>) = {}}
  IN  <<n, k, CHOOSE m \in free : \A o \in free : m <= o>>

(* _sanitize_connection_settings moves credentials into a secret of their  *)
(* own, in the transaction of the connection.                              *)
Sanitized(k, n, s) == IF s = None THEN None ELSE FreeLabel(k, n)

(* What a payload may bring, beside a name.                                *)
Environments == {e \in Environment : Exists(db, e)}
Links == Store \cup {None}
Credentials == {None} \cup (Secret \ used)

Settings(n, e, l, y) ==
  [name |-> n, env |-> e, link |-> l, type |-> y,
   caps |-> IF y = None THEN None ELSE CapabilitiesFor(y)]

Create(t, i, n, e, l, y, s) ==
  /\ NameFree(Kind(i), n, None)
  /\ Begin(t, [Nothing(i) EXCEPT
                 !.op = "create",
                 !.new = Settings(n, e, l, y),
                 !.secret = s, !.label = Sanitized(Kind(i), n, s)],
           {i, s} \ {None})

(* A flush writes the columns whose values differ from those loaded.       *)
Changed(old, new) == {f \in Column : old[f] # new[f]}

(* A payload that leaves a field out keeps its value. New credentials are  *)
(* a change of the settings that refer to them (not modelled: nothing here *)
(* reads that reference).                                                  *)
Update(t, i, n, e, l, y, s) ==
  LET new == Settings(n, e, l, y) IN
  /\ n = row[i].name \/ NameFree(Kind(i), n, i)
  /\ Changed(row[i], new) # {} \/ s # None
  /\ Begin(t, [Nothing(i) EXCEPT
                 !.op = "update", !.new = new, !.set = Changed(row[i], new),
                 !.secret = s, !.label = Sanitized(Kind(i), n, s)],
           {s} \ {None})

CreateEnvironment(t, i) ==
  i \notin used /\ \E n \in Name : Create(t, i, n, None, None, None, None)

UpdateEnvironment(t, i) ==
  Exists(db, i) /\ \E n \in Name : Update(t, i, n, None, None, None, None)

CreateCatalog(t, i) ==
  /\ i \notin used
  /\ \E n \in Name, e \in Environments, l \in Links, y \in Type, s \in Credentials :
       Create(t, i, n, e, l, y, s)

UpdateCatalog(t, i) ==
  /\ Exists(db, i)
  /\ \E n \in Name, e \in Environments, l \in Links, y \in Type, s \in Credentials :
       Update(t, i, n, e, l, y, s)

(* A wrong test: it writes the capabilities also when they did not change. *)
TestCatalogRowAlways(t, i) ==
  /\ Exists(db, i)
  /\ LET new == [row[i] EXCEPT !.caps = CapabilitiesFor(row[i].type)] IN
       Begin(t, [Nothing(i) EXCEPT !.op = "update", !.new = new,
                                   !.set = {"caps"}], {})

(* A test probes the catalog and then writes the capabilities of the type  *)
(* it loaded, and the time of the test (not modelled).                     *)
TestCatalogRow(t, i) ==
  /\ Exists(db, i)
  /\ LET new == [row[i] EXCEPT !.caps = CapabilitiesFor(row[i].type)] IN
       Begin(t, [Nothing(i) EXCEPT !.op = "update", !.new = new,
                                   !.set = Changed(row[i], new)], {})

CreateStore(t, i) ==
  /\ i \notin used
  /\ \E n \in Name, e \in Environments, s \in Credentials :
       Create(t, i, n, e, None, None, s)

UpdateStore(t, i) ==
  /\ Exists(db, i)
  /\ \E n \in Name, e \in Environments, s \in Credentials :
       Update(t, i, n, e, None, None, s)

CreateBackend(t, i) ==
  /\ i \notin used
  /\ \E n \in Name, e \in Environments, s \in Credentials :
       Create(t, i, n, e, None, None, s)

UpdateBackend(t, i) ==
  /\ Exists(db, i)
  /\ \E n \in Name, e \in Environments, s \in Credentials :
       Update(t, i, n, e, None, None, s)

(* A secret may be named like an inline one.                               *)
CreateSecret(t, i) ==
  /\ i \notin used
  /\ \E n \in Name : Create(t, i, <<n, "catalog", 1>>, None, None, None, None)

(* Provider and reference of a secret, which are not modelled, can change. *)
UpdateSecret(t, i) ==
  /\ Exists(db, i)
  /\ Begin(t, [Nothing(i) EXCEPT !.op = "update", !.new = row[i]], {})
-----------------------------------------------------------------------------
(* _delete_unshared_object_store                                           *)
Sharing(i, s) ==
  {c \in Catalog \ {i} : Exists(db, c) /\ row[c].link = s}

(* A wrong deletion: every linked store goes with its catalog.             *)
LinkedStore(i) == {s \in Store : Exists(db, s) /\ row[i].link = s}

UnsharedStore(i) ==
  {s \in Store : Exists(db, s) /\ row[i].link = s /\ Sharing(i, s) = {}}

Children(e) ==
  {i \in Id : Exists(db, i) /\ Kind(i) \in InEnvironment /\ row[i].env = e}

(* A wrong deletion: of the tables of every catalog.                       *)
IndexedAnywhere(i) == [c \in Catalog |-> {tb \in Table : index[c][tb] # None}]

IndexedIn(e) == [c \in Catalog |-> {tb \in Table : index[c][tb] = e}]
IndexedBy(i) ==
  [c \in Catalog |-> {tb \in Table : c = i /\ index[c][tb] # None}]

DeleteEnvironment(t, i) ==
  /\ Exists(db, i) /\ Children(i) = {}
  /\ Begin(t, [Nothing(i) EXCEPT
                 !.drop = {i}, !.tables = IndexedIn(i),
                 !.spaces = {c \in Catalog : IndexedIn(i)[c] # {}}], {})

DeleteCatalog(t, i) ==
  /\ Exists(db, i)
  /\ Begin(t, [Nothing(i) EXCEPT
                 !.drop = {i} \cup UnsharedStore(i), !.tables = IndexedBy(i),
                 !.spaces = {i} \cap spaces], {})

(* The others are deleted without a look at what uses them.                *)
DeleteStore(t, i) ==
  Exists(db, i) /\ Begin(t, [Nothing(i) EXCEPT !.drop = {i}], {})

DeleteBackend(t, i) ==
  Exists(db, i) /\ Begin(t, [Nothing(i) EXCEPT !.drop = {i}], {})

DeleteSecret(t, i) ==
  Exists(db, i) /\ Begin(t, [Nothing(i) EXCEPT !.drop = {i}], {})

(* A sync loads the catalog row and later writes its environment to the    *)
(* tables listed, and deletes the rows of tables no longer listed.         *)
Sync(t, i) ==
  /\ Exists(db, i)
  /\ \E listed \in SUBSET Table :
       Begin(t, [Nothing(i) EXCEPT
                   !.op = "sync", !.new = row[i], !.listed = listed,
                   !.seen = {tb \in listed : index[i][tb] # None},
                   !.moved = {tb \in listed : index[i][tb] \notin {None, row[i].env}},
                   !.tables = [c \in Catalog |->
                                 {tb \in Table \ listed :
                                    c = i /\ index[c][tb] # None}],
                   !.spaces = spaces \cap {i}], {})
-----------------------------------------------------------------------------
(* The rows after the writes of w.                                         *)
RowAfter(w, i) ==
  CASE i \in w.drop -> None
    [] w.op = "create" /\ i = w.id -> w.new
    [] i = w.secret ->
         Settings(w.label, None, None, None)
    [] w.op = "update" /\ i = w.id ->
         [f \in Column |-> IF f \in w.set THEN w.new[f] ELSE row[i][f]]
    [] OTHER -> row[i]

(* A wrong sync: only new rows get the environment of the catalog.         *)
KeptEnvironment(w, c, tb) ==
  CASE tb \in w.tables[c] -> None
    [] w.op = "sync" /\ c = w.id /\ tb \in w.listed \ w.seen -> w.new.env
    [] OTHER -> index[c][tb]

(* A wrong sync: the id of the catalog is written for its environment.     *)
CatalogWritten(w, c, tb) ==
  CASE tb \in w.tables[c] -> None
    [] w.op = "sync" /\ c = w.id /\ tb \in w.listed -> c
    [] OTHER -> index[c][tb]

IndexAfter(w, c, tb) ==
  CASE tb \in w.tables[c] -> None
    [] w.op = "sync" /\ c = w.id /\ tb \in (w.listed \ w.seen) \cup w.moved ->
         w.new.env
    [] OTHER -> index[c][tb]

(* A sync inserts a namespace only when it found none.                     *)
After(w) ==
  [row    |-> [i \in Id |-> RowAfter(w, i)],
   index  |-> [c \in Catalog |-> [tb \in Table |-> IndexAfter(w, c, tb)]],
   spaces |-> IF w.op # "sync" THEN spaces \ w.spaces
              ELSE IF w.spaces = {} /\ w.listed # {} THEN spaces \cup {w.id}
              ELSE spaces,
   runs   |-> IF w.op = "sync" THEN runs \cup {w.id} ELSE runs]

(* An UPDATE of a row that is gone fails; a DELETE of one does not.        *)
RowsRemain(w) ==
  /\ w.op = "update" => Exists(db, w.id)
  /\ \A tb \in w.seen : index[w.id][tb] # None

Done(t) ==
  /\ req' = [req EXCEPT ![t] = None]
  /\ alone' = [alone EXCEPT ![t] = FALSE]
  /\ UNCHANGED <<used, started>>

Commit(t) ==
  /\ req[t] # None
  /\ RowsRemain(req[t])
  /\ LET d == After(req[t]) IN
       /\ row' = d.row /\ index' = d.index
       /\ spaces' = d.spaces /\ runs' = d.runs
  /\ Unique(db') /\ References(db')
  /\ Done(t)

Abort(t) ==
  /\ req[t] # None
  /\ Done(t)
  /\ UNCHANGED <<row, index, spaces, runs>>

(* The endpoints of router.py and the sync of a catalog.                   *)
EnvironmentRequest(t) == \E i \in Environment :
  CreateEnvironment(t, i) \/ UpdateEnvironment(t, i) \/ DeleteEnvironment(t, i)
CatalogRequest(t) == \E i \in Catalog :
  \/ CreateCatalog(t, i) \/ UpdateCatalog(t, i) \/ DeleteCatalog(t, i)
  \/ TestCatalogRow(t, i) \/ Sync(t, i)
StoreRequest(t) == \E i \in Store :
  CreateStore(t, i) \/ UpdateStore(t, i) \/ DeleteStore(t, i)
BackendRequest(t) == \E i \in Backend :
  CreateBackend(t, i) \/ UpdateBackend(t, i) \/ DeleteBackend(t, i)
SecretRequest(t) == \E i \in Secret :
  CreateSecret(t, i) \/ UpdateSecret(t, i) \/ DeleteSecret(t, i)

Next ==
  \E t \in Thread :
    \/ /\ Idle(t)
       /\ \/ EnvironmentRequest(t)
          \/ CatalogRequest(t)
          \/ StoreRequest(t)
          \/ BackendRequest(t)
          \/ SecretRequest(t)
    \/ Commit(t)
    \/ Abort(t)

Spec == Init /\ [][Next]_vars

(* What the handlers check is enough for the constraints of the schema: the *)
(* writes of a request that nothing overlaps are accepted, but for two      *)
(* kinds of deletions that the handlers let through and a foreign key       *)
(* refuses. One is of a catalog that was synced, whose sync runs stay. The  *)
(* other is of an environment with a table beside which its catalog has a   *)
(* table in another environment, as syncs that overlapped a move of the     *)
(* catalog leave it: their namespace goes with the first and is the other's.*)
Hindered(w) ==
  /\ w.op = "delete"
  /\ \/ w.id \in runs
     \/ \E c \in Catalog, tb, ub \in Table :
          index[c][tb] = w.id /\ index[c][ub] \notin {None, w.id}

LoneFits(w) ==
  LET d == After(w) IN
  RowsRemain(w) /\ Unique(d) /\ (References(d) <=> ~Hindered(w))

LoneRequestsFit ==
  \A t \in Thread : req[t] # None /\ alone[t] => LoneFits(req[t])

(* A deletion, also one that others overlapped, removes no connection but   *)
(* its own and, with a catalog, an object store, and changes none. The      *)
(* deletion of a catalog removes its tables and no others, that of an       *)
(* environment every table in it, and no others unless a sync moved them    *)
(* meanwhile; the other deletions remove no tables.                         *)
Removes(i, lone) ==
  /\ \A x \in Id \ {i} :
       row'[x] # row[x] => row'[x] = None /\ i \in Catalog /\ x \in Store
  /\ \A c \in Catalog, tb \in Table :
       /\ index'[c][tb] # index[c][tb] =>
            /\ index'[c][tb] = None
            /\ c = i \/ (i \in Environment /\ (lone => index[c][tb] = i))
       /\ index'[c][tb] # None => i \notin {c, index'[c][tb]}

DeletionTakesItsOwn ==
  [][\A t \in Thread :
       req[t] # None /\ req[t].op = "delete" /\ Commit(t)
         => Removes(req[t].id, alone[t])]_vars

(* A request that nothing overlapped adds no second connection of a name,   *)
(* also of the kinds whose name the schema leaves free: object stores and   *)
(* compute backends have only the check of _ensure_unique_name.             *)
AddsNoDuplicate ==
  \A k \in Kinds : \A i, j \in {i \in Ids(k) : Exists(db', i)} :
    row'[i].name = row'[j].name
      => i = j \/ (/\ Exists(db, i) /\ Exists(db, j)
                   /\ row[i].name = row[j].name)
NewNamesFree ==
  [][\A t \in Thread : alone[t] /\ Commit(t) => AddsNoDuplicate]_vars

(* Deleting a catalog never takes an object store with it that a catalog    *)
(* that stays is linked to (delete_catalog_connection), unless the link     *)
(* was made while the deletion was under way.                               *)
StoreKept ==
  \A c \in Catalog :
    Exists(db', c) /\ Exists(db, db'.row[c].link) => Exists(db', db'.row[c].link)
SharedStoreKept ==
  [][\A t \in Thread :
       alone[t] /\ req[t].id \in Catalog /\ Commit(t) => StoreKept]_vars

(* The capabilities of a catalog are always those of its type, although two *)
(* updates may each write only one of the columns, and a test writes back  *)
(* what it computed from the type it loaded: columns that change together  *)
(* are written together.                                                   *)
CapabilitiesMatchType == CapabilitiesMatch(db)

(* The test of a catalog never looks better than the test of the store it  *)
(* is linked to, a link whose store is gone is noticed, and a catalog or an *)
(* S3 bucket that is reported "ok" was reached: what cannot be probed is at *)
(* best a warning (test_catalog_connection, test_object_store).            *)
CatalogTestCoversStore ==
  \A c \in Catalog : row[c] # None =>
    IF Exists(db, row[c].link)
    THEN LinkedCovers /\ LinkedOkReached /\ StoreOkReached
    ELSE UnlinkedWarns

(* A sync that nothing overlapped leaves every table it listed, and no      *)
(* other, in the index, in the environment its catalog is in: also tables   *)
(* indexed before the catalog was moved to another environment.             *)
SyncPlaces ==
  [][\A t \in Thread : alone[t] /\ req[t].op = "sync" /\ Commit(t) =>
       \A tb \in Table :
         index'[req[t].id][tb] =
           IF tb \in req[t].listed THEN row'[req[t].id].env ELSE None]_vars

(* Connections.tsx:174 says of the deletion of a catalog "Synced metadata   *)
(* for tables using it will be removed from Iceyard": a deletion that       *)
(* nothing overlaps is accepted, whatever was synced before.                *)
SyncedCatalogGoes ==
  \A t \in Thread :
    req[t] # None /\ alone[t] /\ req[t].op = "delete" /\ req[t].id \in Catalog
      => RowsRemain(req[t]) /\ Unique(After(req[t])) /\ References(After(req[t]))
=============================================================================
