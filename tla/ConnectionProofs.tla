-------------------------- MODULE ConnectionProofs --------------------------
(***************************************************************************)
(* The connections of a workspace, for every number of connections and     *)
(* threads: what overlapping requests can never do to the rows, and what a *)
(* request that nothing overlaps guarantees.                               *)
(***************************************************************************)
EXTENDS Connections, FiniteSetTheorems, WellFoundedInduction, TLAPS

-----------------------------------------------------------------------------
(* Identifiers.                                                            *)

LEMMA IdsDisjoint ==
  /\ Environment \cap (Catalog \cup Store \cup Backend \cup Secret) = {}
  /\ Catalog \cap (Store \cup Backend \cup Secret) = {}
  /\ Store \cap (Backend \cup Secret) = {}
  /\ Backend \cap Secret = {}
  /\ None \notin Id
<1>1. ASSUME NEW k \in Kinds, NEW l \in Kinds, k # l
      PROVE  Ids(k) \cap Ids(l) = {}
  BY <1>1, ConnectionsAssumption
<1>2. /\ {"environment", "catalog", "store", "backend", "secret"} = Kinds
      /\ Ids("environment") = Environment /\ Ids("catalog") = Catalog
      /\ Ids("store") = Store /\ Ids("backend") = Backend
      /\ Ids("secret") = Secret
  BY DEF Ids, Kinds, InEnvironment
<1>3. /\ Environment \cap Catalog = {} /\ Environment \cap Store = {}
      /\ Environment \cap Backend = {} /\ Environment \cap Secret = {}
  BY <1>2, <1>1
<1>4. /\ Catalog \cap Store = {} /\ Catalog \cap Backend = {}
      /\ Catalog \cap Secret = {} /\ Store \cap Backend = {}
      /\ Store \cap Secret = {} /\ Backend \cap Secret = {}
  BY <1>2, <1>1
<1>5. None \notin Id
  BY ConnectionsAssumption
<1> QED  BY <1>3, <1>4, <1>5

LEMMA KindOfId ==
  /\ \A i \in Environment : Kind(i) = "environment"
  /\ \A i \in Catalog : Kind(i) = "catalog"
  /\ \A i \in Store : Kind(i) = "store"
  /\ \A i \in Backend : Kind(i) = "backend"
  /\ \A i \in Secret : Kind(i) = "secret"
  /\ \A i \in Id : Kind(i) \in Kinds
<1>1. \A i \in Environment : Kind(i) = "environment"
  BY IdsDisjoint DEF Kind
<1>2. \A i \in Catalog : Kind(i) = "catalog"
  BY IdsDisjoint DEF Kind
<1>3. \A i \in Store : Kind(i) = "store"
  BY IdsDisjoint DEF Kind
<1>4. \A i \in Backend : Kind(i) = "backend"
  BY IdsDisjoint DEF Kind
<1>5. \A i \in Secret : Kind(i) = "secret"
  BY IdsDisjoint DEF Kind
<1> QED  BY <1>1, <1>2, <1>3, <1>4, <1>5 DEF Id, Kinds, InEnvironment

-----------------------------------------------------------------------------
(* An inline secret always finds a free number: there are more numbers     *)
(* than secrets (_unique_secret_name).                                     *)
LEMMA LabelFound ==
  ASSUME db \in Database, NEW k \in Kinds, NEW n \in Name
  PROVE  /\ FreeLabel(k, n) \in SecretName
         /\ Named(db, "secret", FreeLabel(k, n)) = {}
<1> DEFINE N == Cardinality(Secret)
           free == {m \in 1..(N + 1) : Named(db, "secret", <<n, k, m>>) = {}}
<1>1. N \in Nat /\ IsFiniteSet(Secret)
  BY ConnectionsAssumption, FS_CardinalityType
<1>2. free # {}
  <2> SUFFICES ASSUME free = {} PROVE FALSE
    OBVIOUS
  <2> DEFINE f == [m \in 1..(N + 1) |->
                     CHOOSE x \in Named(db, "secret", <<n, k, m>>) : TRUE]
  <2>1. \A m \in 1..(N + 1) : f[m] \in Named(db, "secret", <<n, k, m>>)
    OBVIOUS
  <2>2. \A m \in 1..(N + 1) :
          f[m] \in Secret /\ db.row[f[m]].name = <<n, k, m>>
    BY <2>1 DEF Named, Ids
  <2>3. f \in Injection(1..(N + 1), Secret)
    <3>1. f \in [1..(N + 1) -> Secret]
      BY <2>2
    <3>2. ASSUME NEW a \in 1..(N + 1), NEW b \in 1..(N + 1), f[a] = f[b]
          PROVE  a = b
      BY <2>2, <3>2
    <3> QED  BY <3>1, <3>2 DEF Injection, IsInjective
  <2>4. Cardinality(1..(N + 1)) <= N
    BY <2>3, <1>1, FS_Injection
  <2>5. Cardinality(1..(N + 1)) = N + 1
    BY <1>1, FS_Interval
  <2> QED  BY <2>4, <2>5, <1>1
<1>3. \E m \in free : \A o \in free : m <= o
  <2>1. free \subseteq Nat
    BY <1>1
  <2> DEFINE less == {ss \in Nat \X Nat : ss[1] < ss[2]}
  <2>2. IsWellFoundedOn(less, Nat)
    BY NatLessThanWellFounded DEF OpToRel
  <2> HIDE DEF less
  <2>3. PICK m \in free : \A o \in free : ~ (<<o, m>> \in less)
    BY <1>2, <2>1, <2>2, WFMin
  <2>4. \A o \in free : ~ (o < m)
    BY <2>1, <2>3 DEF less
  <2> QED  BY <2>1, <2>3, <2>4
<1>4. (CHOOSE m \in free : \A o \in free : m <= o) \in free
  BY <1>3
<1> QED  BY <1>4 DEF FreeLabel, SecretName

-----------------------------------------------------------------------------
(* What a request has decided.                                             *)

(* A deletion drops its own row, that of a catalog perhaps a store as well; *)
(* only those of catalogs and environments delete tables.                  *)
DeletesOwn(w) ==
  /\ w.id \in w.drop
  /\ \A x \in w.drop \ {w.id} : w.id \in Catalog /\ x \in Store
  /\ \A c \in Catalog : w.tables[c] # {} => c = w.id \/ w.id \in Environment

(* What holds of a write for as long as it is held; given are identifiers  *)
(* that were given out.                                                    *)
Decided(w, given) ==
  /\ w.op \in {"create", "update"} \/ w.secret = None
  /\ w.op = "delete" \/ (w.drop = {} /\ w.new \in Row)
  /\ w.op = "delete" => DeletesOwn(w)
  /\ w.op = "create" => w.id \in given
  /\ w.secret # None =>
       w.secret \in given /\ w.label \in SecretName /\ w.id \notin Secret
  /\ w.op = "sync" => w.id \in Catalog
  /\ w.op \in {"create", "update"} /\ w.id \in Catalog =>
       /\ w.new.caps = CapabilitiesFor(w.new.type)
       /\ "caps" \in w.set <=> "type" \in w.set

(* The deletion of a catalog takes with it what belongs to it alone.       *)
DeletesCatalog(w) ==
  /\ w.drop = {w.id} \cup UnsharedStore(w.id)
  /\ w.tables = IndexedBy(w.id) /\ w.spaces = {w.id} \cap spaces
  /\ w.seen = {}

(* The deletion of an environment takes the tables in it and the whole     *)
(* namespaces of their catalogs, the others nothing.                       *)
DeletesOther(w) ==
  /\ w.drop = {w.id} /\ w.seen = {}
  /\ IF w.id \in Environment
     THEN /\ Children(w.id) = {} /\ w.tables = IndexedIn(w.id)
          /\ w.spaces = {c \in Catalog : IndexedIn(w.id)[c] # {}}
     ELSE w.tables = [c \in Catalog |-> {}] /\ w.spaces = {}

(* What a connection is written with is there, and an inline secret is new. *)
Settled(w) ==
  /\ w.tables = [c \in Catalog |-> {}] /\ w.seen = {} /\ w.spaces = {}
  /\ w.op = "update" => Exists(db, w.id)
  /\ /\ w.id \in Catalog \cup Store \cup Backend
     /\ w.op = "create" \/ "env" \in w.set
     => Exists(db, w.new.env)
  /\ w.secret # None => Named(db, "secret", w.label) = {}

(* What holds of it until another request commits.                         *)
Current(w) ==
  /\ w.op \in {"create", "update"} => Settled(w)
  /\ w.op = "create" \/ (w.op = "update" /\ "name" \in w.set) =>
       NameFree(Kind(w.id), w.new.name, w.id)
  /\ w.op = "delete" =>
       IF w.id \in Catalog THEN DeletesCatalog(w) ELSE DeletesOther(w)
  /\ w.op = "sync" =>
       /\ w.new = row[w.id] /\ w.spaces = spaces \cap {w.id}
       /\ \A c \in Catalog \ {w.id} : w.tables[c] = {}
       /\ \A tb \in Table :
            /\ tb \in w.tables[w.id] <=>
                 tb \notin w.listed /\ index[w.id][tb] # None
            /\ tb \in w.seen <=> tb \in w.listed /\ index[w.id][tb] # None
            /\ tb \in w.moved <=>
                 tb \in w.listed /\ index[w.id][tb] \notin {None, w.new.env}

(* A thread that begins a request has decided with what it sees.           *)
Decides(t) ==
  \E w \in Write, fresh \in SUBSET Id :
    Begin(t, w, fresh) /\ Decided(w, used \cup fresh) /\ Current(w)

LEMMA SettingsTyped ==
  ASSUME NEW n \in Name \cup SecretName, NEW e \in Environment \cup {None},
         NEW l \in Links, NEW y \in Type \cup {None}
  PROVE  /\ Settings(n, e, l, y) \in Row
         /\ Settings(n, e, l, y).name = n
         /\ Settings(n, e, l, y).type = y
         /\ y \in Type => Settings(n, e, l, y).caps = CapabilitiesFor(y)
BY ConnectionsAssumption DEF Settings, Row, Links

LEMMA SanitizedTyped ==
  ASSUME db \in Database, NEW k \in Kinds, NEW n \in Name \cup SecretName,
         NEW s \in Secret \cup {None}, s # None => n \in Name
  PROVE  /\ Sanitized(k, n, s) \in SecretName \cup {None}
         /\ s # None => /\ Sanitized(k, n, s) \in SecretName
                       /\ Named(db, "secret", Sanitized(k, n, s)) = {}
BY LabelFound DEF Sanitized

LEMMA CreateDecides ==
  ASSUME TypeOK, NEW t \in Thread, NEW i \in Id,
         NEW n \in Name \cup SecretName, NEW e \in Environment \cup {None},
         NEW l \in Links, NEW y \in Type \cup {None}, NEW s \in Credentials,
         s # None => n \in Name /\ i \notin Secret, i \in Catalog => y \in Type,
         i \in Catalog \cup Store \cup Backend => Exists(db, e),
         Create(t, i, n, e, l, y, s)
  PROVE  Decides(t)
<1> DEFINE w == [Nothing(i) EXCEPT
                   !.op = "create", !.new = Settings(n, e, l, y),
                   !.secret = s, !.label = Sanitized(Kind(i), n, s)]
           fresh == {i, s} \ {None}
<1>1. s \in Secret \cup {None} /\ fresh \in SUBSET Id
  BY DEF Credentials, Id
<1>2. Sanitized(Kind(i), n, s) \in SecretName \cup {None}
      /\ (s # None => Sanitized(Kind(i), n, s) \in SecretName)
  BY <1>1, KindOfId, SanitizedTyped DEF TypeOK
<1>3. /\ w.op = "create" /\ w.id = i /\ w.new = Settings(n, e, l, y)
      /\ w.secret = s /\ w.label = Sanitized(Kind(i), n, s) /\ w.drop = {}
      /\ w.set = {}
  BY DEF Nothing
<1>4. w \in Write
  BY <1>1, <1>2, SettingsTyped DEF Write, Nothing
<1>5. Begin(t, w, fresh)
  BY DEF Create
<1>6. Decided(w, used \cup fresh)
  BY <1>1, <1>2, <1>3, SettingsTyped, IdsDisjoint DEF Decided
<1>7. Current(w)
  <2>1. NameFree(Kind(i), n, None)
    BY DEF Create
  <2>2. NameFree(Kind(i), n, i)
    BY <2>1, IdsDisjoint DEF NameFree, Named, Ids, Exists
  <2>3. w.tables = [c \in Catalog |-> {}] /\ w.seen = {} /\ w.spaces = {}
    BY DEF Nothing
  <2>4. s # None => Named(db, "secret", Sanitized(Kind(i), n, s)) = {}
    BY <1>1, KindOfId, SanitizedTyped DEF TypeOK
  <2>5. Settings(n, e, l, y).env = e
    BY DEF Settings
  <2> HIDE DEF w
  <2>6. Settled(w)
    BY <1>3, <2>3, <2>4, <2>5 DEF Settled
  <2> QED  BY <1>3, <2>2, <2>6, SettingsTyped DEF Current
<1> QED  BY <1>1, <1>4, <1>5, <1>6, <1>7 DEF Decides

LEMMA UpdateDecides ==
  ASSUME TypeOK, CapabilitiesMatchType, NEW t \in Thread, NEW i \in Id,
         Exists(db, i), i \notin Secret,
         NEW n \in Name, NEW e \in Environment \cup {None},
         NEW l \in Links, NEW y \in Type \cup {None}, NEW s \in Credentials,
         i \in Catalog => y \in Type,
         i \in Catalog \cup Store \cup Backend => Exists(db, e),
         Update(t, i, n, e, l, y, s)
  PROVE  Decides(t)
<1> DEFINE new == Settings(n, e, l, y)
           w == [Nothing(i) EXCEPT
                   !.op = "update", !.new = new, !.set = Changed(row[i], new),
                   !.secret = s, !.label = Sanitized(Kind(i), n, s)]
           fresh == {s} \ {None}
<1>1. s \in Secret \cup {None} /\ fresh \in SUBSET Id
  BY DEF Credentials, Id
<1>2. Sanitized(Kind(i), n, s) \in SecretName \cup {None}
      /\ (s # None => Sanitized(Kind(i), n, s) \in SecretName)
  BY <1>1, KindOfId, SanitizedTyped DEF TypeOK
<1>3. /\ w.op = "update" /\ w.id = i /\ w.new = new
      /\ w.secret = s /\ w.label = Sanitized(Kind(i), n, s) /\ w.drop = {}
      /\ w.set = Changed(row[i], new)
  BY DEF Nothing
<1>4. new \in Row /\ new.name = n /\ new.type = y
  BY SettingsTyped
<1>5. Changed(row[i], new) \in SUBSET Column
  BY DEF Changed
<1>6. w \in Write
  BY <1>1, <1>2, <1>4, <1>5 DEF Write, Nothing
<1>7. Begin(t, w, fresh)
  BY DEF Update
<1>8. ASSUME i \in Catalog
      PROVE  /\ new.caps = CapabilitiesFor(new.type)
             /\ "caps" \in Changed(row[i], new) <=> "type" \in Changed(row[i], new)
  <2>1. new.caps = CapabilitiesFor(y)
    BY <1>8, SettingsTyped
  <2>2. row[i].caps = CapabilitiesFor(row[i].type)
    BY <1>8 DEF CapabilitiesMatchType, CapabilitiesMatch, Exists, db
  <2>3. row[i].type = y <=> CapabilitiesFor(row[i].type) = CapabilitiesFor(y)
    BY DEF CapabilitiesFor
  <2> QED  BY <2>1, <2>2, <2>3, <1>4 DEF Changed, Column
<1>9. Decided(w, used \cup fresh)
  BY <1>1, <1>2, <1>3, <1>4, <1>8 DEF Decided
<1>10. Current(w)
  <2>1. ASSUME "name" \in Changed(row[i], new)
        PROVE  NameFree(Kind(i), n, i)
    BY <2>1, <1>4 DEF Changed, Update
  <2>2. w.tables = [c \in Catalog |-> {}] /\ w.seen = {} /\ w.spaces = {}
    BY DEF Nothing
  <2>3. s # None => Named(db, "secret", Sanitized(Kind(i), n, s)) = {}
    BY <1>1, KindOfId, SanitizedTyped DEF TypeOK
  <2>4. new.env = e
    BY DEF Settings
  <2> HIDE DEF w, new
  <2>5. Settled(w)
    BY <1>3, <2>2, <2>3, <2>4 DEF Settled
  <2> QED  BY <1>3, <1>4, <2>1, <2>5 DEF Current
<1> QED  BY <1>1, <1>6, <1>7, <1>9, <1>10 DEF Decides

LEMMA DeleteDecides ==
  ASSUME NEW t \in Thread, NEW w \in Write, w.op = "delete", w.secret = None,
         IF w.id \in Catalog THEN DeletesCatalog(w) ELSE DeletesOther(w),
         Begin(t, w, {})
  PROVE  Decides(t)
<1>1. DeletesOwn(w)
  BY DEF DeletesCatalog, DeletesOther, DeletesOwn, UnsharedStore, IndexedBy
<1>2. Decided(w, used \cup {})
  BY <1>1 DEF Decided
<1>3. Current(w)
  BY DEF Current
<1> QED  BY <1>2, <1>3 DEF Decides

LEMMA DropDecides ==
  ASSUME NEW t \in Thread, NEW i \in Id \ (Catalog \cup Environment),
         Begin(t, [Nothing(i) EXCEPT !.drop = {i}], {})
  PROVE  Decides(t)
<1> DEFINE w == [Nothing(i) EXCEPT !.drop = {i}]
<1>1. /\ w.op = "delete" /\ w.secret = None /\ w.id = i /\ w.drop = {i}
      /\ w.seen = {} /\ w.tables = [c \in Catalog |-> {}] /\ w.spaces = {}
  BY DEF Nothing
<1>2. w \in Write
  BY DEF Write, Nothing
<1>3. Begin(t, w, {})
  OBVIOUS
<1> HIDE DEF w
<1>4. DeletesOther(w) /\ w.id \notin Catalog
  BY <1>1 DEF DeletesOther
<1> QED  BY <1>1, <1>2, <1>3, <1>4, DeleteDecides

LEMMA TestDecides ==
  ASSUME TypeOK, CapabilitiesMatchType, NEW t \in Thread, NEW i \in Catalog,
         TestCatalogRow(t, i)
  PROVE  Decides(t)
<1> DEFINE new == [row[i] EXCEPT !.caps = CapabilitiesFor(row[i].type)]
           w == [Nothing(i) EXCEPT !.op = "update", !.new = new,
                                   !.set = Changed(row[i], new)]
<1>1. row[i] \in Row /\ row[i].caps = CapabilitiesFor(row[i].type)
  BY DEF TestCatalogRow, TypeOK, Database, db, Exists, Id,
         CapabilitiesMatchType, CapabilitiesMatch
<1>2. new = row[i]
  BY <1>1 DEF Row
<1>3. Changed(row[i], new) = {}
  BY <1>2 DEF Changed
<1>4. /\ w.op = "update" /\ w.id = i /\ w.new = row[i] /\ w.drop = {}
      /\ w.secret = None /\ w.set = {}
      /\ w.tables = [c \in Catalog |-> {}] /\ w.seen = {} /\ w.spaces = {}
  BY <1>2, <1>3 DEF Nothing
<1>5. w \in Write
  BY <1>1, <1>2, <1>3 DEF Write, Nothing, Id
<1>6. Begin(t, w, {})
  BY DEF TestCatalogRow
<1> HIDE DEF w
<1>7. Decided(w, used \cup {})
  BY <1>1, <1>4 DEF Decided
<1>8. Current(w)
  <2>1. Exists(db, w.id)
    BY <1>4 DEF TestCatalogRow
  <2> QED  BY <1>4, <2>1 DEF Current, Settled
<1> QED  BY <1>5, <1>6, <1>7, <1>8 DEF Decides

LEMMA UpdateSecretDecides ==
  ASSUME TypeOK, NEW t \in Thread, NEW i \in Secret, UpdateSecret(t, i)
  PROVE  Decides(t)
<1> DEFINE w == [Nothing(i) EXCEPT !.op = "update", !.new = row[i]]
<1>1. row[i] \in Row
  BY DEF UpdateSecret, TypeOK, Database, db, Exists, Id
<1>2. /\ w.op = "update" /\ w.id = i /\ w.new = row[i] /\ w.drop = {}
      /\ w.secret = None /\ w.set = {}
      /\ w.tables = [c \in Catalog |-> {}] /\ w.seen = {} /\ w.spaces = {}
  BY DEF Nothing
<1>3. w \in Write
  BY <1>1 DEF Write, Nothing, Id
<1>4. Begin(t, w, {})
  BY DEF UpdateSecret
<1> HIDE DEF w
<1>5. Decided(w, used \cup {})
  BY <1>1, <1>2, IdsDisjoint DEF Decided
<1>6. Current(w)
  <2>1. Exists(db, w.id)
    BY <1>2 DEF UpdateSecret
  <2> QED  BY <1>2, <2>1 DEF Current, Settled
<1> QED  BY <1>3, <1>4, <1>5, <1>6 DEF Decides

LEMMA SyncDecides ==
  ASSUME TypeOK, NEW t \in Thread, NEW i \in Catalog, Sync(t, i)
  PROVE  Decides(t)
<1>1. PICK listed \in SUBSET Table :
        Begin(t, [Nothing(i) EXCEPT
                    !.op = "sync", !.new = row[i], !.listed = listed,
                    !.seen = {tb \in listed : index[i][tb] # None},
                    !.moved = {tb \in listed :
                                 index[i][tb] \notin {None, row[i].env}},
                    !.tables = [c \in Catalog |->
                                  {tb \in Table \ listed :
                                     c = i /\ index[c][tb] # None}],
                    !.spaces = spaces \cap {i}], {})
  BY DEF Sync
<1> DEFINE w == [Nothing(i) EXCEPT
                   !.op = "sync", !.new = row[i], !.listed = listed,
                   !.seen = {tb \in listed : index[i][tb] # None},
                   !.moved = {tb \in listed :
                                index[i][tb] \notin {None, row[i].env}},
                   !.tables = [c \in Catalog |->
                                 {tb \in Table \ listed :
                                    c = i /\ index[c][tb] # None}],
                   !.spaces = spaces \cap {i}]
<1>2. row[i] \in Row
  BY DEF Sync, TypeOK, Database, db, Exists, Id
<1>3. /\ w.op = "sync" /\ w.id = i /\ w.new = row[i] /\ w.drop = {}
      /\ w.secret = None /\ w.listed = listed
      /\ w.seen = {tb \in listed : index[i][tb] # None}
      /\ w.moved = {tb \in listed : index[i][tb] \notin {None, row[i].env}}
      /\ w.tables[i] = {tb \in Table \ listed : index[i][tb] # None}
      /\ \A c \in Catalog \ {i} : w.tables[c] = {}
      /\ w.spaces = spaces \cap {i}
  BY DEF Nothing
<1>4. w \in Write
  BY <1>2 DEF Write, Nothing, Id
<1>5. Begin(t, w, {})
  BY <1>1
<1> HIDE DEF w
<1>6. Decided(w, used \cup {})
  BY <1>2, <1>3 DEF Decided
<1>7. Current(w)
  BY <1>3 DEF Current
<1> QED  BY <1>4, <1>5, <1>6, <1>7 DEF Decides

-----------------------------------------------------------------------------
(* Every handler decides.                                                  *)

LEMMA PayloadsTyped ==
  /\ Environments \subseteq Environment \cup {None}
  /\ None \in Links /\ None \in Credentials
  /\ \A e \in Environments : Exists(db, e)
BY DEF Environments, Links, Credentials

LEMMA EnvironmentDecides ==
  ASSUME TypeOK, CapabilitiesMatchType, NEW t \in Thread, EnvironmentRequest(t)
  PROVE  Decides(t)
<1>1. PICK i \in Environment : \/ CreateEnvironment(t, i)
                               \/ UpdateEnvironment(t, i)
                               \/ DeleteEnvironment(t, i)
  BY DEF EnvironmentRequest
<1>2. /\ i \in Id /\ i \notin Catalog /\ i \notin Secret
      /\ i \notin Catalog \cup Store \cup Backend
  BY IdsDisjoint DEF Id
<1>3. CASE CreateEnvironment(t, i)
  BY <1>2, <1>3, CreateDecides, PayloadsTyped DEF CreateEnvironment
<1>4. CASE UpdateEnvironment(t, i)
  BY <1>2, <1>4, UpdateDecides, PayloadsTyped DEF UpdateEnvironment
<1>5. CASE DeleteEnvironment(t, i)
  <2> DEFINE w == [Nothing(i) EXCEPT
                     !.drop = {i}, !.tables = IndexedIn(i),
                     !.spaces = {c \in Catalog : IndexedIn(i)[c] # {}}]
  <2>1. /\ w.op = "delete" /\ w.secret = None /\ w.id = i
        /\ w.drop = {i} /\ w.seen = {} /\ w.tables = IndexedIn(i)
        /\ w.spaces = {c \in Catalog : IndexedIn(i)[c] # {}}
    BY DEF Nothing
  <2>2. IndexedIn(i) \in [Catalog -> SUBSET Table]
    BY DEF IndexedIn
  <2>3. w \in Write
    BY <1>2, <2>2 DEF Write, Nothing
  <2>4. Begin(t, w, {})
    BY <1>5 DEF DeleteEnvironment
  <2> HIDE DEF w
  <2>5. DeletesOther(w)
    BY <1>5, <2>1 DEF DeletesOther, DeleteEnvironment
  <2> QED  BY <1>2, <2>1, <2>3, <2>4, <2>5, DeleteDecides
<1> QED  BY <1>1, <1>3, <1>4, <1>5

LEMMA CatalogDecides ==
  ASSUME TypeOK, CapabilitiesMatchType, NEW t \in Thread, CatalogRequest(t)
  PROVE  Decides(t)
<1>1. PICK i \in Catalog : \/ CreateCatalog(t, i) \/ UpdateCatalog(t, i)
                           \/ DeleteCatalog(t, i)
                           \/ TestCatalogRow(t, i) \/ Sync(t, i)
  BY DEF CatalogRequest
<1>2. i \in Id /\ i \notin Secret
  BY IdsDisjoint DEF Id
<1>3. CASE CreateCatalog(t, i)
  BY <1>2, <1>3, CreateDecides, PayloadsTyped DEF CreateCatalog
<1>4. CASE UpdateCatalog(t, i)
  BY <1>2, <1>4, UpdateDecides, PayloadsTyped DEF UpdateCatalog
<1>5. CASE DeleteCatalog(t, i)
  <2> DEFINE w == [Nothing(i) EXCEPT
                     !.drop = {i} \cup UnsharedStore(i),
                     !.tables = IndexedBy(i), !.spaces = {i} \cap spaces]
  <2>1. /\ w.op = "delete" /\ w.secret = None /\ w.id = i
        /\ DeletesCatalog(w)
    BY DEF Nothing, DeletesCatalog
  <2>2. /\ IndexedBy(i) \in [Catalog -> SUBSET Table]
        /\ UnsharedStore(i) \in SUBSET Id
    BY DEF IndexedBy, UnsharedStore, Id
  <2>3. w \in Write
    BY <1>2, <2>2 DEF Write, Nothing
  <2>4. Begin(t, w, {})
    BY <1>5 DEF DeleteCatalog
  <2> HIDE DEF w
  <2> QED  BY <2>1, <2>3, <2>4, DeleteDecides
<1>6. CASE TestCatalogRow(t, i)
  BY <1>6, TestDecides
<1>7. CASE Sync(t, i)
  BY <1>7, SyncDecides
<1> QED  BY <1>1, <1>3, <1>4, <1>5, <1>6, <1>7

LEMMA StoreDecides ==
  ASSUME TypeOK, CapabilitiesMatchType, NEW t \in Thread, StoreRequest(t)
  PROVE  Decides(t)
<1>1. PICK i \in Store :
        CreateStore(t, i) \/ UpdateStore(t, i) \/ DeleteStore(t, i)
  BY DEF StoreRequest
<1>2. i \in Id /\ i \notin Catalog \cup Environment /\ i \notin Secret
  BY IdsDisjoint DEF Id
<1>3. CASE CreateStore(t, i)
  BY <1>2, <1>3, CreateDecides, PayloadsTyped DEF CreateStore
<1>4. CASE UpdateStore(t, i)
  BY <1>2, <1>4, UpdateDecides, PayloadsTyped DEF UpdateStore
<1>5. CASE DeleteStore(t, i)
  BY <1>2, <1>5, DropDecides DEF DeleteStore
<1> QED  BY <1>1, <1>3, <1>4, <1>5

LEMMA BackendDecides ==
  ASSUME TypeOK, CapabilitiesMatchType, NEW t \in Thread, BackendRequest(t)
  PROVE  Decides(t)
<1>1. PICK i \in Backend :
        CreateBackend(t, i) \/ UpdateBackend(t, i) \/ DeleteBackend(t, i)
  BY DEF BackendRequest
<1>2. i \in Id /\ i \notin Catalog \cup Environment /\ i \notin Secret
  BY IdsDisjoint DEF Id
<1>3. CASE CreateBackend(t, i)
  BY <1>2, <1>3, CreateDecides, PayloadsTyped DEF CreateBackend
<1>4. CASE UpdateBackend(t, i)
  BY <1>2, <1>4, UpdateDecides, PayloadsTyped DEF UpdateBackend
<1>5. CASE DeleteBackend(t, i)
  BY <1>2, <1>5, DropDecides DEF DeleteBackend
<1> QED  BY <1>1, <1>3, <1>4, <1>5

LEMMA SecretDecides ==
  ASSUME TypeOK, CapabilitiesMatchType, NEW t \in Thread, SecretRequest(t)
  PROVE  Decides(t)
<1>1. PICK i \in Secret :
        CreateSecret(t, i) \/ UpdateSecret(t, i) \/ DeleteSecret(t, i)
  BY DEF SecretRequest
<1>2. /\ i \in Id /\ i \notin Catalog \cup Environment
      /\ i \notin Catalog \cup Store \cup Backend
  BY IdsDisjoint DEF Id
<1>3. CASE CreateSecret(t, i)
  <2>1. PICK n \in Name :
          Create(t, i, <<n, "catalog", 1>>, None, None, None, None)
    BY <1>3 DEF CreateSecret
  <2>2. <<n, "catalog", 1>> \in SecretName
    <3>1. Cardinality(Secret) \in Nat
      BY ConnectionsAssumption, FS_CardinalityType
    <3> QED  BY <3>1 DEF SecretName, Kinds, InEnvironment
  <2> QED  BY <1>2, <2>1, <2>2, CreateDecides, PayloadsTyped
<1>4. CASE UpdateSecret(t, i)
  BY <1>4, UpdateSecretDecides
<1>5. CASE DeleteSecret(t, i)
  BY <1>2, <1>5, DropDecides DEF DeleteSecret
<1> QED  BY <1>1, <1>3, <1>4, <1>5

-----------------------------------------------------------------------------
(* What a commit does to a row.                                            *)

Overwritten(w, i) ==
  [f \in Column |-> IF f \in w.set THEN w.new[f] ELSE row[i][f]]

LEMMA RowCases ==
  ASSUME TypeOK, NEW w \in Write, Decided(w, used), RowsRemain(w), NEW i \in Id
  PROVE  \/ w.op = "delete" /\ i \in w.drop /\ RowAfter(w, i) = None
         \/ /\ w.op = "create" /\ i = w.id /\ i \in used
            /\ w.new \in Row /\ RowAfter(w, i) = w.new
         \/ /\ i = w.secret /\ i \in Secret /\ i \in used
            /\ w.label \in SecretName
            /\ RowAfter(w, i) = Settings(w.label, None, None, None)
         \/ /\ w.op = "update" /\ i = w.id /\ w.new \in Row /\ row[i] \in Row
            /\ RowAfter(w, i) = Overwritten(w, i)
         \/ /\ i \notin w.drop /\ RowAfter(w, i) = row[i]
            /\ i # w.id \/ w.op \notin {"create", "update"}
<1>1. i # None
  BY IdsDisjoint
<1>2. CASE i \in w.drop
  <2>1. w.op = "delete" /\ w.secret = None
    BY <1>2 DEF Decided
  <2>2. RowAfter(w, i) = None
    BY <1>1, <1>2, <2>1 DEF RowAfter
  <2> QED  BY <1>2, <2>1, <2>2
<1>3. CASE i \notin w.drop /\ w.op = "create" /\ i = w.id
  <2>1. i # w.secret
    BY <1>1, <1>3 DEF Decided, Write
  <2>2. RowAfter(w, i) = w.new
    BY <1>3, <2>1 DEF RowAfter
  <2> QED  BY <1>3, <2>2 DEF Decided
<1>4. CASE i \notin w.drop /\ i = w.secret
  <2>1. i \in Secret /\ i # w.id /\ w.label \in SecretName /\ i \in used
    BY <1>1, <1>4 DEF Decided, Write
  <2>2. RowAfter(w, i) = Settings(w.label, None, None, None)
    BY <1>4, <2>1 DEF RowAfter
  <2> QED  BY <1>4, <2>1, <2>2
<1>5. CASE i \notin w.drop /\ w.op = "update" /\ i = w.id
  <2>1. row[i] \in Row
    BY <1>5 DEF RowsRemain, Exists, TypeOK, Database, db
  <2>2. i # w.secret
    BY <1>1, <1>5 DEF Decided, Write
  <2>3. RowAfter(w, i) = Overwritten(w, i)
    BY <1>5, <2>2 DEF RowAfter, Overwritten
  <2> QED  BY <1>5, <2>1, <2>3 DEF Decided
<1>6. CASE /\ i \notin w.drop /\ i # w.secret
           /\ i # w.id \/ w.op \notin {"create", "update"}
  BY <1>6 DEF RowAfter
<1> QED  BY <1>2, <1>3, <1>4, <1>5, <1>6

LEMMA OverwrittenTyped ==
  ASSUME NEW w \in Write, w.new \in Row, NEW i \in Id, row[i] \in Row
  PROVE  /\ Overwritten(w, i) \in Row
         /\ \A f \in Column :
              Overwritten(w, i)[f] = IF f \in w.set THEN w.new[f] ELSE row[i][f]
         /\ Overwritten(w, i) # None
<1>1. Overwritten(w, i) \in Row
  BY DEF Overwritten, Row, Column
<1> QED  BY <1>1, ConnectionsAssumption DEF Overwritten

LEMMA RowAfterTyped ==
  ASSUME TypeOK, NEW w \in Write, Decided(w, used), RowsRemain(w), NEW i \in Id
  PROVE  /\ RowAfter(w, i) \in Row \cup {None}
         /\ RowAfter(w, i) # None => i \in used
<1>1. row[i] \in Row \cup {None} /\ (row[i] # None => i \in used)
  BY IdsDisjoint DEF TypeOK, Database, db, Exists
<1>2. Settings(w.label, None, None, None) \in Row \/ w.label \notin SecretName
  BY SettingsTyped DEF Links
<1> QED  BY <1>1, <1>2, RowCases, OverwrittenTyped, ConnectionsAssumption

LEMMA CapabilitiesAfter ==
  ASSUME TypeOK, CapabilitiesMatchType, NEW w \in Write, Decided(w, used),
         RowsRemain(w), NEW c \in Catalog, RowAfter(w, c) # None
  PROVE  RowAfter(w, c).caps = CapabilitiesFor(RowAfter(w, c).type)
<1>1. c \in Id /\ c \notin Secret
  BY IdsDisjoint DEF Id
<1>2. row[c] # None => row[c].caps = CapabilitiesFor(row[c].type)
  BY DEF CapabilitiesMatchType, CapabilitiesMatch, db
<1>3. CASE w.op = "create" /\ c = w.id /\ RowAfter(w, c) = w.new
  BY <1>3 DEF Decided
<1>4. CASE /\ w.op = "update" /\ c = w.id /\ w.new \in Row /\ row[c] \in Row
           /\ RowAfter(w, c) = Overwritten(w, c)
  <2>1. row[c] # None
    BY <1>4, ConnectionsAssumption
  <2>2. /\ Overwritten(w, c).caps =
             IF "caps" \in w.set THEN w.new.caps ELSE row[c].caps
        /\ Overwritten(w, c).type =
             IF "type" \in w.set THEN w.new.type ELSE row[c].type
    BY DEF Overwritten, Column
  <2>3. /\ w.new.caps = CapabilitiesFor(w.new.type)
        /\ "caps" \in w.set <=> "type" \in w.set
    BY <1>4 DEF Decided
  <2> QED  BY <1>2, <1>4, <2>1, <2>2, <2>3
<1>5. CASE RowAfter(w, c) = row[c]
  BY <1>2, <1>5
<1> QED  BY <1>1, <1>3, <1>4, <1>5, RowCases

-----------------------------------------------------------------------------
(* The invariant.                                                          *)

HeldIsDecided == \A t \in Thread : req[t] # None => Decided(req[t], used)

(* A lone request is lone, and what it decided is still so.                *)
LoneIsCurrent ==
  \A t \in Thread : alone[t] =>
    /\ \A u \in Thread \ {t} : req[u] = None
    /\ \A w \in Write : req[t] = w => Current(w)

ConnectionsInv ==
  /\ TypeOK
  /\ HeldIsDecided
  /\ LoneIsCurrent
  /\ CapabilitiesMatchType
  /\ Unique(db) /\ References(db)

LEMMA InitConnections == Init => ConnectionsInv
<1> SUFFICES ASSUME Init PROVE ConnectionsInv
  OBVIOUS
<1>1. PICK d \in Start : row = d.row /\ index = d.index
                           /\ spaces = d.spaces /\ runs = d.runs
  BY DEF Init
<1>2. d \in Database /\ Unique(d) /\ References(d) /\ CapabilitiesMatch(d)
  BY ConnectionsAssumption
<1>3. d = db
  BY <1>1, <1>2 DEF Database, db
<1>4. TypeOK
  BY <1>2, <1>3, ConnectionsAssumption DEF TypeOK, Init, Exists, db
<1>5. HeldIsDecided /\ LoneIsCurrent
  BY DEF Init, HeldIsDecided, LoneIsCurrent
<1> QED  BY <1>2, <1>3, <1>4, <1>5 DEF ConnectionsInv, CapabilitiesMatchType

(* What is decided and the rows are the same before and after a step that  *)
(* writes no row.                                                          *)
RowsUnchanged == UNCHANGED <<row, index, spaces, runs>>

LEMMA CurrentUnchanged ==
  ASSUME RowsUnchanged, NEW w, Current(w)
  PROVE  Current(w)'
<1>1. row' = row /\ index' = index /\ spaces' = spaces /\ db' = db
  BY DEF RowsUnchanged, db
<1>2. Settled(w) => Settled(w)'
  BY <1>1 DEF Settled, Named, Exists
<1>3. DeletesCatalog(w) => DeletesCatalog(w)'
  BY <1>1 DEF DeletesCatalog, IndexedBy, UnsharedStore, Sharing, Exists
<1>4. DeletesOther(w) => DeletesOther(w)'
  BY <1>1 DEF DeletesOther, IndexedIn, Children, Kind, Exists
<1>5. NameFree(Kind(w.id), w.new.name, w.id)
        => NameFree(Kind(w.id), w.new.name, w.id)'
  BY <1>1 DEF NameFree, Named, Kind, Exists
<1> QED  BY <1>1, <1>2, <1>3, <1>4, <1>5 DEF Current

LEMMA RowsUnchangedKeeps ==
  ASSUME ConnectionsInv, RowsUnchanged
  PROVE  CapabilitiesMatchType' /\ Unique(db)' /\ References(db)' /\ db' = db
<1>1. db' = db
  BY DEF RowsUnchanged, db
<1> QED  BY <1>1 DEF ConnectionsInv, CapabilitiesMatchType, CapabilitiesMatch,
                    Unique, UniqueNames, References, ReferencesOfConnections,
                    Exists

LEMMA DecidedGrows ==
  ASSUME NEW w, NEW G, NEW H, G \subseteq H, Decided(w, G)
  PROVE  Decided(w, H)
BY DEF Decided, DeletesOwn

LEMMA DecidesKeeps ==
  ASSUME ConnectionsInv, NEW t \in Thread, started < MaxRequests, Decides(t)
  PROVE  ConnectionsInv'
<1>1. PICK w \in Write, fresh \in SUBSET Id :
        Begin(t, w, fresh) /\ Decided(w, used \cup fresh) /\ Current(w)
  BY DEF Decides
<1>2. RowsUnchanged
  BY <1>1 DEF Begin, RowsUnchanged
<1>3. /\ req' = [req EXCEPT ![t] = w] /\ used' = used \cup fresh
      /\ alone' = [u \in Thread |->
                     u = t /\ \A v \in Thread \ {t} : req[v] = None]
      /\ started' = started + 1
  BY <1>1 DEF Begin
<1>4. req \in [Thread -> Write \cup {None}]
  BY DEF ConnectionsInv, TypeOK
<1>5. TypeOK'
  <2>1. db' \in Database
    BY <1>2, RowsUnchangedKeeps DEF ConnectionsInv, TypeOK
  <2>2. \A i \in Id : Exists(db', i) => i \in used'
    BY <1>2, <1>3, RowsUnchangedKeeps DEF ConnectionsInv, TypeOK
  <2>3. started' \in 0..MaxRequests
    BY <1>3, ConnectionsAssumption DEF ConnectionsInv, TypeOK
  <2>4. used' \in SUBSET Id
    BY <1>3 DEF ConnectionsInv, TypeOK
  <2>5. alone' \in [Thread -> BOOLEAN]
    BY <1>3
  <2>6. req' \in [Thread -> Write \cup {None}]
    BY <1>3, <1>4
  <2> QED  BY <2>1, <2>2, <2>3, <2>4, <2>5, <2>6 DEF TypeOK, Exists
<1>6. HeldIsDecided'
  <2> SUFFICES ASSUME NEW u \in Thread, req'[u] # None
               PROVE  Decided(req'[u], used')
    BY DEF HeldIsDecided
  <2>1. CASE u = t
    BY <1>1, <1>3, <1>4, <2>1
  <2>2. CASE u # t
    <3>1. req'[u] = req[u] /\ Decided(req[u], used)
      BY <1>3, <1>4, <2>2 DEF ConnectionsInv, HeldIsDecided
    <3> QED  BY <1>3, <3>1, DecidedGrows
  <2> QED  BY <2>1, <2>2
<1>7. LoneIsCurrent'
  <2> SUFFICES ASSUME NEW u \in Thread, alone'[u]
               PROVE  /\ \A v \in Thread \ {u} : req'[v] = None
                      /\ \A x \in Write : req'[u] = x => Current(x)'
    BY DEF LoneIsCurrent
  <2>1. u = t /\ \A v \in Thread \ {t} : req[v] = None
    BY <1>3
  <2>2. req'[t] = w /\ \A v \in Thread \ {t} : req'[v] = req[v]
    BY <1>3, <1>4
  <2>3. Current(w)'
    BY <1>1, <1>2, CurrentUnchanged
  <2> QED  BY <2>1, <2>2, <2>3
<1> QED  BY <1>2, <1>5, <1>6, <1>7, RowsUnchangedKeeps DEF ConnectionsInv

(* The end of a request leaves the others as they are.                     *)
LEMMA DoneKeeps ==
  ASSUME ConnectionsInv, NEW t \in Thread, req[t] # None, Done(t)
  PROVE  /\ HeldIsDecided' /\ LoneIsCurrent'
         /\ req' \in [Thread -> Write \cup {None}]
         /\ alone' \in [Thread -> BOOLEAN]
         /\ used' = used /\ used' \in SUBSET Id
         /\ started' \in 0..MaxRequests
<1>1. /\ req' = [req EXCEPT ![t] = None] /\ alone' = [alone EXCEPT ![t] = FALSE]
      /\ used' = used /\ started' = started
  BY DEF Done
<1>2. /\ req \in [Thread -> Write \cup {None}] /\ alone \in [Thread -> BOOLEAN]
      /\ used \in SUBSET Id /\ started \in 0..MaxRequests
  BY DEF ConnectionsInv, TypeOK
<1>3. HeldIsDecided'
  BY <1>1, <1>2 DEF ConnectionsInv, HeldIsDecided
<1>4. ASSUME NEW u \in Thread, alone'[u] PROVE FALSE
  <2>1. u # t /\ alone[u]
    BY <1>1, <1>2, <1>4
  <2> QED  BY <2>1 DEF ConnectionsInv, LoneIsCurrent
<1> QED  BY <1>1, <1>2, <1>3, <1>4 DEF LoneIsCurrent

LEMMA AbortKeeps ==
  ASSUME ConnectionsInv, NEW t \in Thread, Abort(t)
  PROVE  ConnectionsInv'
<1>1. RowsUnchanged /\ req[t] # None /\ Done(t)
  BY DEF Abort, RowsUnchanged
<1>2. TypeOK'
  BY <1>1, DoneKeeps, RowsUnchangedKeeps DEF TypeOK, ConnectionsInv, Exists
<1> QED  BY <1>1, <1>2, DoneKeeps, RowsUnchangedKeeps DEF ConnectionsInv

(* What a commit finds and does.                                           *)
LEMMA CommitFacts ==
  ASSUME ConnectionsInv, NEW t \in Thread, Commit(t)
  PROVE  /\ req[t] \in Write /\ req[t] # None /\ Decided(req[t], used)
         /\ RowsRemain(req[t]) /\ Done(t)
         /\ \A i \in Id : row'[i] = RowAfter(req[t], i)
         /\ row' = [i \in Id |-> RowAfter(req[t], i)]
         /\ index' = [c \in Catalog |->
                        [tb \in Table |-> IndexAfter(req[t], c, tb)]]
         /\ spaces' = After(req[t]).spaces /\ runs' = After(req[t]).runs
         /\ Unique(db)' /\ References(db)'
<1>1. req[t] \in Write /\ req[t] # None
  BY DEF Commit, ConnectionsInv, TypeOK
<1>2. Decided(req[t], used)
  BY <1>1 DEF ConnectionsInv, HeldIsDecided
<1>3. RowsRemain(req[t]) /\ Done(t) /\ Unique(db)' /\ References(db)'
  BY DEF Commit
<1>4. /\ row' = [i \in Id |-> RowAfter(req[t], i)]
      /\ index' = [c \in Catalog |->
                     [tb \in Table |-> IndexAfter(req[t], c, tb)]]
      /\ spaces' = After(req[t]).spaces /\ runs' = After(req[t]).runs
  BY DEF Commit, After
<1>5. \A i \in Id : row'[i] = RowAfter(req[t], i)
  BY <1>4
<1> QED  BY <1>1, <1>2, <1>3, <1>4, <1>5

LEMMA IndexAfterTyped ==
  ASSUME TypeOK, NEW w \in Write, Decided(w, used), NEW c \in Catalog,
         NEW tb \in Table
  PROVE  IndexAfter(w, c, tb) \in Environment \cup {None}
<1>1. index[c][tb] \in Environment \cup {None}
  BY DEF TypeOK, Database, db
<1>2. w.op = "sync" => w.new.env \in Environment \cup {None}
  BY DEF Decided, Row
<1> QED  BY <1>1, <1>2 DEF IndexAfter

LEMMA CommitKeeps ==
  ASSUME ConnectionsInv, NEW t \in Thread, Commit(t)
  PROVE  ConnectionsInv'
<1> DEFINE w == req[t]
<1>1. /\ w \in Write /\ w # None /\ Decided(w, used) /\ RowsRemain(w) /\ Done(t)
      /\ \A i \in Id : row'[i] = RowAfter(w, i)
      /\ row' = [i \in Id |-> RowAfter(w, i)]
      /\ index' = [c \in Catalog |-> [tb \in Table |-> IndexAfter(w, c, tb)]]
      /\ spaces' = After(w).spaces /\ runs' = After(w).runs
      /\ Unique(db)' /\ References(db)'
  BY CommitFacts
<1>2. TypeOK /\ CapabilitiesMatchType
  BY DEF ConnectionsInv
<1>3. /\ HeldIsDecided' /\ LoneIsCurrent'
      /\ req' \in [Thread -> Write \cup {None}] /\ alone' \in [Thread -> BOOLEAN]
      /\ used' = used /\ used' \in SUBSET Id /\ started' \in 0..MaxRequests
  BY <1>1, DoneKeeps
<1> HIDE DEF w
<1>4. row' \in [Id -> Row \cup {None}]
  BY <1>1, <1>2, RowAfterTyped
<1>5. index' \in [Catalog -> [Table -> Environment \cup {None}]]
  BY <1>1, <1>2, IndexAfterTyped
<1>6. spaces' \in SUBSET Catalog /\ runs' \in SUBSET Catalog
  <2>1. spaces \in SUBSET Catalog /\ runs \in SUBSET Catalog
    BY <1>2 DEF TypeOK, Database, db
  <2>2. w.op = "sync" => w.id \in Catalog
    BY <1>1 DEF Decided
  <2>3. /\ spaces' \subseteq spaces \cup (IF w.op = "sync" THEN {w.id} ELSE {})
        /\ runs' \subseteq runs \cup (IF w.op = "sync" THEN {w.id} ELSE {})
    BY <1>1 DEF After
  <2> QED  BY <2>1, <2>2, <2>3
<1>7. db' \in Database
  BY <1>4, <1>5, <1>6 DEF db, Database
<1>8. \A i \in Id : Exists(db', i) => i \in used'
  BY <1>1, <1>2, <1>3, RowAfterTyped DEF Exists, db
<1>9. CapabilitiesMatchType'
  BY <1>1, <1>2, CapabilitiesAfter
  DEF CapabilitiesMatchType, CapabilitiesMatch, db, Id
<1>10. TypeOK'
  BY <1>3, <1>7, <1>8 DEF TypeOK, Exists
<1> QED  BY <1>1, <1>3, <1>9, <1>10 DEF ConnectionsInv

LEMMA StepDecides ==
  ASSUME ConnectionsInv, Next
  PROVE  \/ \E t \in Thread : started < MaxRequests /\ Decides(t)
         \/ \E t \in Thread : Commit(t)
         \/ \E t \in Thread : Abort(t)
BY EnvironmentDecides, CatalogDecides, StoreDecides, BackendDecides,
   SecretDecides DEF Next, Idle, ConnectionsInv

(* Whatever overlaps, the rows keep their types, every request held was    *)
(* decided on rows that were there, and a lone one is still up to date.    *)
THEOREM ConnectionsHold == Spec => []ConnectionsInv
<1>1. ConnectionsInv /\ UNCHANGED vars => ConnectionsInv'
  <2> SUFFICES ASSUME ConnectionsInv, UNCHANGED vars PROVE ConnectionsInv'
    OBVIOUS
  <2>1. /\ RowsUnchanged /\ req' = req /\ alone' = alone /\ used' = used
        /\ started' = started
    BY DEF vars, RowsUnchanged
  <2>2. TypeOK'
    BY <2>1, RowsUnchangedKeeps DEF TypeOK, ConnectionsInv, Exists
  <2>3. HeldIsDecided'
    BY <2>1 DEF ConnectionsInv, HeldIsDecided
  <2>4. LoneIsCurrent'
    BY <2>1, CurrentUnchanged DEF ConnectionsInv, LoneIsCurrent
  <2> QED  BY <2>1, <2>2, <2>3, <2>4, RowsUnchangedKeeps DEF ConnectionsInv
<1>2. ConnectionsInv /\ Next => ConnectionsInv'
  BY StepDecides, DecidesKeeps, CommitKeeps, AbortKeeps
<1> QED  BY <1>1, <1>2, InitConnections, PTL DEF Spec

(* The rows of connections.service keep their types.                       *)
THEOREM ConnectionsTyped == Spec => []TypeOK
BY ConnectionsHold, PTL DEF ConnectionsInv

(* Type and capabilities of a catalog never part, although overlapping     *)
(* updates and tests each write only the columns they changed.             *)
THEOREM CapabilitiesStayMatched == Spec => []CapabilitiesMatchType
BY ConnectionsHold, PTL DEF ConnectionsInv

-----------------------------------------------------------------------------
(* What a lone request guarantees.                                         *)

LEMMA LoneCommit ==
  ASSUME ConnectionsInv, NEW t \in Thread, alone[t], Commit(t)
  PROVE  Current(req[t])
BY CommitFacts DEF ConnectionsInv, LoneIsCurrent

LEMMA StoreIsKept ==
  ASSUME ConnectionsInv, NEW t \in Thread, alone[t], req[t].id \in Catalog,
         Commit(t)
  PROVE  StoreKept
<1> DEFINE w == req[t]
<1>1. /\ w \in Write /\ Decided(w, used) /\ RowsRemain(w)
      /\ \A i \in Id : row'[i] = RowAfter(w, i)
  BY CommitFacts
<1>2. Current(w)
  BY LoneCommit
<1>3. TypeOK
  BY DEF ConnectionsInv
<1>4. w.id \in Catalog
  OBVIOUS
<1> HIDE DEF w
<1>5. SUFFICES ASSUME NEW c \in Catalog, Exists(db', c),
                      Exists(db, row'[c].link)
               PROVE  Exists(db', row'[c].link)
  BY DEF StoreKept, db
<1> DEFINE s == row'[c].link
<1>6. c \in Id /\ row'[c] = RowAfter(w, c) /\ row'[c] # None
      /\ s # None /\ row[s] # None
  BY <1>1, <1>5 DEF Id, Exists, db
<1>7. s \in Store /\ s \in Id
  <2>1. row'[c] \in Row
    BY <1>1, <1>3, <1>6, RowAfterTyped
  <2> QED  BY <1>6, <2>1 DEF Row, Id
<1>8. RowAfter(w, s) # None
  <2>1. CASE w.op = "delete" /\ s \in w.drop
    <3>1. s \in UnsharedStore(w.id)
      BY <1>2, <1>4, <1>7, <2>1, IdsDisjoint DEF Current, DeletesCatalog
    <3>2. c \notin w.drop /\ row'[c] = row[c]
      BY <1>1, <1>3, <1>6, <2>1, RowCases, IdsDisjoint DEF Decided
    <3>3. c # w.id
      BY <1>2, <1>4, <2>1, <3>2 DEF Current, DeletesCatalog
    <3>4. Exists(db, c) /\ row[c].link = s
      BY <1>6, <3>2, IdsDisjoint DEF Exists, db
    <3>5. c \in Sharing(w.id, s)
      BY <3>3, <3>4 DEF Sharing
    <3> QED  BY <3>1, <3>5 DEF UnsharedStore
  <2>2. CASE ~ (w.op = "delete" /\ s \in w.drop)
    BY <1>1, <1>3, <1>6, <1>7, <2>2, RowCases, OverwrittenTyped, SettingsTyped,
       ConnectionsAssumption DEF Links
  <2> QED  BY <2>1, <2>2
<1> QED  BY <1>1, <1>6, <1>7, <1>8 DEF Exists, db

(* Deleting a catalog that nothing overlaps keeps every object store that  *)
(* another catalog is linked to (_delete_unshared_object_store).           *)
THEOREM SharedStoresAreKept == Spec => SharedStoreKept
<1>1. ConnectionsInv =>
        \A t \in Thread : alone[t] /\ req[t].id \in Catalog /\ Commit(t) => StoreKept
  BY StoreIsKept
<1>2. ConnectionsInv /\ [Next]_vars =>
        [\A t \in Thread : alone[t] /\ req[t].id \in Catalog /\ Commit(t)
            => StoreKept]_vars
  BY <1>1
<1> QED  BY <1>2, ConnectionsHold, PTL DEF Spec, SharedStoreKept

LEMMA NoDuplicateAdded ==
  ASSUME ConnectionsInv, NEW t \in Thread, alone[t], Commit(t)
  PROVE  AddsNoDuplicate
<1> DEFINE w == req[t]
<1>1. /\ w \in Write /\ Decided(w, used) /\ RowsRemain(w)
      /\ Unique(db)'
      /\ \A i \in Id : row'[i] = RowAfter(w, i)
  BY CommitFacts
<1>2. Current(w)
  BY LoneCommit
<1>3. TypeOK
  BY DEF ConnectionsInv
<1> HIDE DEF w
<1>4. SUFFICES ASSUME NEW k \in Kinds, NEW i \in Ids(k), NEW j \in Ids(k),
                      Exists(db', i), Exists(db', j), row'[i].name = row'[j].name,
                      i # j
               PROVE  /\ Exists(db, i) /\ Exists(db, j)
                      /\ row[i].name = row[j].name
  BY DEF AddsNoDuplicate
<1>5. k \notin Constrained
  <2> SUFFICES ASSUME k \in Constrained PROVE FALSE
    OBVIOUS
  <2>1. UniqueNames(db', Constrained)
    BY <1>1 DEF Unique
  <2>2. db'.row = row'
    BY DEF db
  <2>3. i \in {x \in Ids(k) : Exists(db', x)} /\ j \in {x \in Ids(k) : Exists(db', x)}
    BY <1>4
  <2> QED  BY <1>4, <2>1, <2>2, <2>3 DEF UniqueNames
<1>6. /\ i \in Id /\ j \in Id /\ i \notin Secret /\ j \notin Secret
      /\ Kind(i) = k /\ Kind(j) = k
  BY <1>5, IdsDisjoint, KindOfId
  DEF Constrained, Kinds, InEnvironment, Ids, Id
<1>7. ASSUME NEW x \in {i, j}, NEW y \in {i, j}, x # y, x = w.id, w.op # "delete"
      PROVE  /\ w.op = "update" /\ Exists(db, x) /\ Exists(db, y)
             /\ row'[x].name = row[x].name /\ row'[y].name = row[y].name
  <2>1. row'[y] = row[y] /\ Exists(db, y)
    BY <1>1, <1>3, <1>4, <1>6, <1>7, RowCases, IdsDisjoint DEF Exists, db, Decided
  <2>2. row'[x].name = row'[y].name /\ y \in Ids(k)
    BY <1>4, <1>7
  <2>3. ASSUME NameFree(k, w.new.name, x), row'[x].name = w.new.name PROVE FALSE
    BY <1>7, <2>1, <2>2, <2>3 DEF NameFree, Named, db
  <2>4. CASE w.op = "create"
    <3>1. row'[x] = w.new
      BY <1>1, <1>3, <1>6, <1>7, <2>4, RowCases, IdsDisjoint DEF Decided
    <3> QED  BY <1>2, <1>6, <1>7, <2>3, <2>4, <3>1 DEF Current
  <2>5. CASE w.op = "update"
    <3>1. row'[x] = Overwritten(w, x) /\ Exists(db, x)
      BY <1>1, <1>3, <1>6, <1>7, <2>5, RowCases, IdsDisjoint
      DEF RowsRemain, Decided
    <3>2. CASE "name" \in w.set
      BY <1>2, <1>6, <1>7, <2>3, <2>5, <3>1, <3>2
      DEF Current, Overwritten, Column
    <3>3. CASE "name" \notin w.set
      BY <2>1, <2>5, <3>1, <3>3 DEF Overwritten, Column
    <3> QED  BY <3>2, <3>3
  <2>6. CASE w.op = "sync"
    BY <1>1, <1>6, <1>7, <2>6, KindOfId, <1>5 DEF Decided, Constrained
  <2> QED  BY <1>1, <1>7, <2>4, <2>5, <2>6 DEF Write
<1>8. CASE w.id \in {i, j} /\ w.op # "delete"
  BY <1>4, <1>7, <1>8
<1>9. CASE w.id \notin {i, j} \/ w.op = "delete"
  <2>1. row'[i] = row[i] /\ row'[j] = row[j]
    BY <1>1, <1>3, <1>4, <1>6, <1>9, RowCases DEF Exists, db
  <2> QED  BY <1>4, <2>1 DEF Exists, db
<1> QED  BY <1>8, <1>9

(* A lone request adds no second connection of a name, also where the      *)
(* schema has no constraint (_ensure_unique_name).                         *)
THEOREM NewNamesAreFree == Spec => NewNamesFree
<1>1. ConnectionsInv =>
        \A t \in Thread : alone[t] /\ Commit(t) => AddsNoDuplicate
  BY NoDuplicateAdded
<1>2. ConnectionsInv /\ [Next]_vars =>
        [\A t \in Thread : alone[t] /\ Commit(t) => AddsNoDuplicate]_vars
  BY <1>1
<1> QED  BY <1>2, ConnectionsHold, PTL DEF Spec, NewNamesFree

LEMMA SyncIsPlaced ==
  ASSUME ConnectionsInv, NEW t \in Thread, alone[t], req[t].op = "sync",
         Commit(t), NEW tb \in Table
  PROVE  index'[req[t].id][tb] =
           IF tb \in req[t].listed THEN row'[req[t].id].env ELSE None
<1> DEFINE w == req[t]
<1>1. /\ w \in Write /\ Decided(w, used) /\ RowsRemain(w)
      /\ index' = [c \in Catalog |-> [x \in Table |-> IndexAfter(w, c, x)]]
      /\ \A i \in Id : row'[i] = RowAfter(w, i)
  BY CommitFacts
<1>2. Current(w) /\ TypeOK /\ w.op = "sync"
  BY LoneCommit DEF ConnectionsInv
<1> HIDE DEF w
<1>3. w.id \in Catalog /\ w.id \in Id /\ w.id \notin w.drop
  BY <1>1, <1>2 DEF Decided, Id
<1>4. row'[w.id] = row[w.id] /\ w.new = row[w.id]
  BY <1>1, <1>2, <1>3, RowCases, IdsDisjoint DEF Decided, Current
<1>5. index'[w.id][tb] = IndexAfter(w, w.id, tb)
  BY <1>1, <1>3
<1>6. /\ tb \in w.tables[w.id] <=> tb \notin w.listed /\ index[w.id][tb] # None
      /\ tb \in w.seen <=> tb \in w.listed /\ index[w.id][tb] # None
      /\ tb \in w.moved <=>
           tb \in w.listed /\ index[w.id][tb] \notin {None, w.new.env}
  BY <1>2 DEF Current
<1>7. index'[w.id][tb] = IF tb \in w.listed THEN row'[w.id].env ELSE None
  <2>1. CASE tb \in w.tables[w.id]
    <3>1. tb \notin w.listed /\ tb \notin (w.listed \ w.seen) \cup w.moved
      BY <1>6, <2>1
    <3> QED  BY <1>5, <2>1, <3>1 DEF IndexAfter
  <2>2. CASE tb \in (w.listed \ w.seen) \cup w.moved
    <3>1. tb \in w.listed /\ tb \notin w.tables[w.id]
      BY <1>6, <2>2
    <3> QED  BY <1>2, <1>4, <1>5, <2>2, <3>1 DEF IndexAfter
  <2>3. CASE tb \notin w.tables[w.id] /\ tb \notin (w.listed \ w.seen) \cup w.moved
    <3>1. IndexAfter(w, w.id, tb) = index[w.id][tb]
      BY <2>3 DEF IndexAfter
    <3>2. index[w.id][tb] = IF tb \in w.listed THEN w.new.env ELSE None
      BY <1>6, <2>3
    <3> QED  BY <1>4, <1>5, <3>1, <3>2
  <2> QED  BY <2>1, <2>2, <2>3
<1> QED  BY <1>7 DEF w

(* A lone sync leaves exactly the tables it listed in the index, in the    *)
(* environment its catalog is in.                                          *)
THEOREM SyncsPlaceTables == Spec => SyncPlaces
<1>1. ConnectionsInv =>
        \A t \in Thread : alone[t] /\ req[t].op = "sync" /\ Commit(t) =>
          \A tb \in Table :
            index'[req[t].id][tb] =
              IF tb \in req[t].listed THEN row'[req[t].id].env ELSE None
  BY SyncIsPlaced
<1>2. ConnectionsInv /\ [Next]_vars =>
        [\A t \in Thread : alone[t] /\ req[t].op = "sync" /\ Commit(t) =>
           \A tb \in Table :
             index'[req[t].id][tb] =
               IF tb \in req[t].listed THEN row'[req[t].id].env ELSE None]_vars
  BY <1>1
<1> QED  BY <1>2, ConnectionsHold, PTL DEF Spec, SyncPlaces
-----------------------------------------------------------------------------
(* The writes of a request that nothing overlapped, and the schema.        *)

LEMMA LoneRowsRemain ==
  ASSUME NEW w \in Write, Decided(w, used), Current(w)
  PROVE  RowsRemain(w)
<1>1. CASE w.op \in {"create", "update"}
  BY <1>1 DEF Current, Settled, RowsRemain
<1>2. CASE w.op = "delete"
  BY <1>2 DEF Current, DeletesCatalog, DeletesOther, RowsRemain
<1>3. CASE w.op = "sync"
  BY <1>3 DEF Current, RowsRemain, Write
<1> QED  BY <1>1, <1>2, <1>3 DEF Write

LEMMA LoneUnique ==
  ASSUME ConnectionsInv, NEW w \in Write, Decided(w, used), Current(w)
  PROVE  Unique(After(w))
<1> DEFINE d == After(w)
<1>1. \A x \in Id : d.row[x] = RowAfter(w, x)
  BY DEF After
<1> HIDE DEF d
<1>2. /\ TypeOK /\ RowsRemain(w)
      /\ \A x : Exists(db, x) <=> x # None /\ row[x] # None
      /\ \A x : db.row[x] = row[x]
  BY LoneRowsRemain DEF ConnectionsInv, Exists, db
<1> SUFFICES ASSUME NEW k \in Constrained, NEW x \in Ids(k), NEW y \in Ids(k),
                    Exists(d, x), Exists(d, y), d.row[x].name = d.row[y].name,
                    x # y
             PROVE  FALSE
  BY DEF Unique, UniqueNames, d
<1>3. /\ x \in Id /\ y \in Id /\ Kind(x) = k /\ Kind(y) = k
      /\ x \in Secret <=> y \in Secret
      /\ x \in Secret => k = "secret"
      /\ x # None /\ y # None
  BY IdsDisjoint, KindOfId DEF Ids, Id, Constrained
<1> DEFINE Writes(p) == \/ w.op = "create" /\ p = w.id
                        \/ p = w.secret
                        \/ w.op = "update" /\ p = w.id /\ "name" \in w.set
<1>4. ASSUME NEW p \in {x, y}, ~ Writes(p)
      PROVE  Exists(db, p) /\ d.row[p].name = row[p].name
  <2>1. p \in Id /\ Exists(d, p) /\ d.row[p] = RowAfter(w, p)
    BY <1>1, <1>3
  <2>2. CASE w.op = "update" /\ p = w.id /\ w.new \in Row /\ row[p] \in Row
             /\ RowAfter(w, p) = Overwritten(w, p)
    BY <1>2, <1>3, <1>4, <2>1, <2>2, OverwrittenTyped, ConnectionsAssumption
    DEF Column
  <2>3. CASE RowAfter(w, p) = row[p]
    BY <1>2, <2>1, <2>3 DEF Exists
  <2> QED  BY <1>2, <1>4, <2>1, <2>2, <2>3, RowCases DEF Exists
<1>5. ASSUME NEW p \in {x, y}, NEW q \in {x, y}, p # q, Writes(p)
      PROVE  FALSE
  <2>1. ~ Writes(q)
    BY <1>3, <1>5 DEF Decided, Write
  <2>2. /\ Exists(db, q) /\ d.row[q].name = row[q].name
        /\ d.row[p].name = row[q].name /\ q \in Ids(k)
    BY <1>4, <2>1, <1>5
  <2>3. p \in Id /\ d.row[p] = RowAfter(w, p)
    BY <1>1, <1>3
  <2>4. CASE p = w.secret
    <3>1. RowAfter(w, p) = Settings(w.label, None, None, None)
      <4>1. p # None /\ p \in Secret /\ p # w.id /\ p \notin w.drop
        BY <1>3, <2>3, <2>4, IdsDisjoint DEF Decided, Write
      <4> QED  BY <2>4, <4>1 DEF RowAfter
    <3>2. d.row[p].name = w.label
      BY <2>3, <3>1 DEF Settings
    <3>3. Named(db, "secret", w.label) = {}
      BY <1>3, <2>4 DEF Current, Settled, Decided
    <3>4. k = "secret"
      BY <1>3, <2>4 DEF Write
    <3> QED  BY <1>2, <2>2, <3>2, <3>3, <3>4 DEF Named
  <2>5. CASE p # w.secret
    <3>1. /\ p = w.id
          /\ w.op = "create" \/ (w.op = "update" /\ "name" \in w.set)
      BY <1>5, <2>5
    <3>2. d.row[p].name = w.new.name
      <4>1. CASE w.op = "create"
        BY <1>2, <2>3, <2>5, <3>1, <4>1, RowCases DEF Decided
      <4>2. CASE w.op = "update" /\ "name" \in w.set
        BY <1>2, <2>3, <2>5, <3>1, <4>2, RowCases, OverwrittenTyped
        DEF Column, Decided
      <4> QED  BY <3>1, <4>1, <4>2
    <3>3. NameFree(k, w.new.name, p)
      BY <1>3, <1>5, <3>1 DEF Current
    <3> QED  BY <1>2, <1>5, <2>2, <3>2, <3>3 DEF NameFree, Named
  <2> QED  BY <2>4, <2>5
<1>6. CASE Writes(x) \/ Writes(y)
  BY <1>5, <1>6
<1>7. CASE ~ Writes(x) /\ ~ Writes(y)
  BY <1>2, <1>4, <1>7 DEF ConnectionsInv, Unique, UniqueNames
<1> QED  BY <1>6, <1>7

(* What is there after the writes, and where the tables are.               *)
LEMMA LoneExists ==
  ASSUME ConnectionsInv, NEW w \in Write, Decided(w, used), Current(w),
         NEW x \in Id, Exists(db, x), x \notin w.drop
  PROVE  Exists(After(w), x)
<1>1. TypeOK /\ RowsRemain(w) /\ row[x] # None /\ x # None
  BY LoneRowsRemain DEF ConnectionsInv, Exists, db
<1>2. After(w).row[x] = RowAfter(w, x)
  BY DEF After
<1>3. RowAfter(w, x) # None
  BY <1>1, RowCases, OverwrittenTyped, SettingsTyped, ConnectionsAssumption
  DEF Links
<1> QED  BY <1>1, <1>2, <1>3 DEF Exists

LEMMA LoneIndex ==
  ASSUME TypeOK, NEW w \in Write, Decided(w, used), Current(w),
         NEW c \in Catalog, NEW tb \in Table
  PROVE  After(w).index[c][tb] =
           CASE w.op = "sync" /\ c = w.id ->
                  IF tb \in w.listed THEN row[c].env ELSE None
             [] w.op = "delete" /\ (c = w.id \/ index[c][tb] = w.id) -> None
             [] OTHER -> index[c][tb]
<1>1. After(w).index[c][tb] = IndexAfter(w, c, tb)
  BY DEF After
<1>2. index[c][tb] \in Environment \cup {None}
  BY DEF TypeOK, Database, db
<1>3. CASE w.op \in {"create", "update"}
  BY <1>1, <1>3 DEF Current, Settled, IndexAfter
<1>4. CASE w.op = "delete"
  <2>1. tb \in w.tables[c]
          <=> index[c][tb] # None /\ (c = w.id \/ index[c][tb] = w.id)
    <3>1. CASE w.id \in Catalog
      BY <1>2, <1>4, <3>1, IdsDisjoint DEF Current, DeletesCatalog, IndexedBy
    <3>2. CASE w.id \in Environment
      <4>1. w.id # c /\ w.id # None /\ w.id \notin Catalog
        BY <3>2, IdsDisjoint DEF Id
      <4>2. w.tables = IndexedIn(w.id)
        BY <1>4, <3>2, <4>1 DEF Current, DeletesOther
      <4> QED  BY <4>1, <4>2 DEF IndexedIn
    <3>3. CASE w.id \notin Catalog \cup Environment
      <4>1. w.tables[c] = {} /\ w.id # c /\ w.id # None
        BY <1>4, <3>3, IdsDisjoint DEF Current, DeletesOther, Write
      <4> QED  BY <1>2, <3>3, <4>1
    <3> QED  BY <3>1, <3>2, <3>3
  <2> QED  BY <1>1, <1>4, <2>1 DEF IndexAfter
<1>5. CASE w.op = "sync" /\ c # w.id
  BY <1>1, <1>5 DEF Current, IndexAfter
<1>6. CASE w.op = "sync" /\ c = w.id
  <2>1. /\ tb \in w.tables[c] <=> tb \notin w.listed /\ index[c][tb] # None
        /\ tb \in w.seen <=> tb \in w.listed /\ index[c][tb] # None
        /\ tb \in w.moved <=>
             tb \in w.listed /\ index[c][tb] \notin {None, w.new.env}
        /\ w.new = row[c]
    BY <1>6 DEF Current
  <2>2. CASE tb \in w.listed
    BY <1>1, <1>6, <2>1, <2>2 DEF IndexAfter
  <2>3. CASE tb \notin w.listed
    BY <1>1, <1>6, <2>1, <2>3 DEF IndexAfter
  <2> QED  BY <2>2, <2>3
<1> QED  BY <1>3, <1>4, <1>5, <1>6 DEF Write

(* Each connection refers to an environment that is there: that of one     *)
(* which is written was looked up, and one with children is not deleted.   *)
LEMMA LoneEnvironments ==
  ASSUME ConnectionsInv, NEW w \in Write, Decided(w, used), Current(w)
  PROVE  ReferencesOfConnections(After(w))
<1> DEFINE d == After(w)
<1>1. \A x \in Id : d.row[x] = RowAfter(w, x)
  BY DEF After
<1>2. TypeOK /\ RowsRemain(w) /\ ReferencesOfConnections(db)
  BY LoneRowsRemain DEF ConnectionsInv, References
<1>3. \A x \in Id : Exists(db, x) /\ x \notin w.drop => Exists(d, x)
  BY LoneExists
<1> HIDE DEF d
<1> SUFFICES ASSUME NEW x \in Catalog \cup Store \cup Backend, Exists(d, x)
             PROVE  Exists(d, d.row[x].env)
  BY DEF ReferencesOfConnections, d
<1>4. /\ x \in Id /\ x \notin Secret /\ Kind(x) \in InEnvironment
      /\ d.row[x] = RowAfter(w, x) /\ d.row[x] \in Row
  BY <1>1, <1>2, RowAfterTyped, IdsDisjoint, KindOfId
  DEF Id, Exists, InEnvironment
<1>5. SUFFICES Exists(db, d.row[x].env) /\ d.row[x].env \notin w.drop
  BY <1>3, <1>4 DEF Row, Id, Exists
<1>6. d.row[x].env \in Environment \cup {None}
  BY <1>4 DEF Row
<1>7. CASE w.op = "create" /\ x = w.id /\ RowAfter(w, x) = w.new
  BY <1>4, <1>7 DEF Current, Settled, Decided
<1>8. CASE /\ w.op = "update" /\ x = w.id /\ w.new \in Row /\ row[x] \in Row
           /\ RowAfter(w, x) = Overwritten(w, x)
  <2>1. d.row[x].env = IF "env" \in w.set THEN w.new.env ELSE row[x].env
    BY <1>4, <1>8 DEF Overwritten, Column
  <2>2. Exists(db, row[x].env)
    BY <1>2, <1>8 DEF ReferencesOfConnections, RowsRemain, db
  <2> QED  BY <1>8, <2>1, <2>2 DEF Current, Settled, Decided
<1>9. CASE RowAfter(w, x) = row[x]
  <2>1. Exists(db, x) /\ d.row[x].env = row[x].env
    BY <1>4, <1>9 DEF Exists, db
  <2>2. Exists(db, row[x].env)
    BY <1>2, <2>1 DEF ReferencesOfConnections, db
  <2>3. ASSUME row[x].env \in w.drop PROVE FALSE
    <3>1. w.op = "delete" /\ row[x].env \in Environment
      BY <1>6, <2>1, <2>2, <2>3 DEF Decided, Exists
    <3>2. w.id = row[x].env /\ Children(w.id) = {}
      BY <2>3, <3>1, IdsDisjoint DEF Current, DeletesOther, Decided, DeletesOwn
    <3> QED  BY <1>4, <2>1, <3>2 DEF Children
  <2> QED  BY <2>1, <2>2, <2>3
<1> QED  BY <1>2, <1>4, <1>7, <1>8, <1>9, RowCases DEF Exists

(* Only deletions leave references behind.                                 *)
LEMMA LoneWrites ==
  ASSUME ConnectionsInv, NEW w \in Write, Decided(w, used), Current(w),
         w.op # "delete"
  PROVE  References(After(w))
<1> DEFINE d == After(w)
<1>1. TypeOK /\ References(db) /\ w.drop = {}
  BY DEF ConnectionsInv, Decided
<1>2. spaces \subseteq Catalog /\ runs \subseteq Catalog
  BY <1>1 DEF TypeOK, Database, db
<1>3. \A x \in Id : Exists(db, x) => Exists(d, x)
  BY <1>1, LoneExists
<1>4. w.op = "sync" =>
        w.id \in Catalog /\ Exists(db, w.id) /\ Exists(db, row[w.id].env)
  <2>1. ASSUME w.op = "sync" PROVE w.id \in Catalog /\ row[w.id] # None
    BY <2>1, ConnectionsAssumption DEF Decided, Current
  <2> QED  BY <1>1, <2>1, IdsDisjoint
           DEF References, ReferencesOfConnections, Exists, db, Id
<1>5. /\ spaces \subseteq d.spaces /\ d.runs \subseteq runs \cup {w.id}
      /\ d.spaces \subseteq spaces \cup {w.id}
      /\ w.op # "sync" => d.spaces = spaces /\ d.runs = runs
      /\ w.op = "sync" /\ w.listed # {} => w.id \in d.spaces
  BY DEF After, Current, Settled, Write
<1>6. \A c \in Catalog, tb \in Table :
        d.index[c][tb] = IF w.op = "sync" /\ c = w.id
                         THEN IF tb \in w.listed THEN row[c].env ELSE None
                         ELSE index[c][tb]
  BY <1>1, LoneIndex
<1> HIDE DEF d
<1>7. ReferencesOfConnections(d)
  BY LoneEnvironments DEF d
<1>8. \A c \in d.spaces \cup d.runs : Exists(d, c)
  BY <1>1, <1>2, <1>3, <1>4, <1>5 DEF References, db, Id
<1>9. ASSUME NEW c \in Catalog, NEW tb \in Table, d.index[c][tb] # None
      PROVE  c \in d.spaces /\ Exists(d, d.index[c][tb])
  <2>1. CASE w.op = "sync" /\ c = w.id
    <3>1. tb \in w.listed /\ d.index[c][tb] = row[c].env /\ Exists(db, row[c].env)
      BY <1>4, <1>6, <1>9, <2>1
    <3>2. row[c].env \in Environment
      <4>1. row[c] \in Row
        BY <1>1, <1>4, <2>1 DEF TypeOK, Database, db, Exists, Id
      <4> QED  BY <3>1, <4>1 DEF Row, Exists
    <3> QED  BY <1>3, <1>5, <2>1, <3>1, <3>2 DEF Id
  <2>2. CASE ~ (w.op = "sync" /\ c = w.id)
    <3>1. d.index[c][tb] = index[c][tb]
      BY <1>6, <2>2
    <3>2. c \in spaces /\ Exists(db, index[c][tb])
      BY <1>1, <1>9, <3>1 DEF References, db
    <3>3. index[c][tb] \in Environment
      BY <1>1, <1>9, <3>1 DEF TypeOK, Database, db
    <3> QED  BY <1>3, <1>5, <3>1, <3>2, <3>3 DEF Id
  <2> QED  BY <2>1, <2>2
<1> QED  BY <1>7, <1>8, <1>9 DEF References, d

(* A deletion leaves a reference behind exactly where it is hindered.      *)
LEMMA LoneDeletion ==
  ASSUME ConnectionsInv, NEW w \in Write, Decided(w, used), Current(w),
         w.op = "delete"
  PROVE  References(After(w)) <=> ~ Hindered(w)
<1> DEFINE d == After(w)
<1>1. TypeOK /\ References(db) /\ w.id \in Id /\ w.id \in w.drop
  BY DEF ConnectionsInv, Decided, DeletesOwn, Write
<1>2. spaces \subseteq Catalog /\ runs \subseteq Catalog
  BY <1>1 DEF TypeOK, Database, db
<1>3. \A c \in Catalog, tb \in Table : index[c][tb] \in Environment \cup {None}
  BY <1>1 DEF TypeOK, Database, db
<1>4. /\ \A x \in Id : Exists(db, x) /\ x \notin w.drop => Exists(d, x)
      /\ ~ Exists(d, w.id)
  <2>1. RowAfter(w, w.id) = None
    BY <1>1, LoneRowsRemain, RowCases, IdsDisjoint DEF Decided
  <2> QED  BY <1>1, <2>1, LoneExists DEF After, Exists
<1>5. d.runs = runs /\ d.spaces = spaces \ w.spaces
  BY DEF After
<1>6. \A c \in w.spaces : c = w.id \/ \E tb \in Table : index[c][tb] = w.id
  BY DEF Current, DeletesCatalog, DeletesOther, IndexedIn
<1>7. \A c \in Catalog :
        c \in spaces /\ (c = w.id \/ \E tb \in Table : index[c][tb] = w.id)
          => c \in w.spaces
  BY <1>1, <1>3, IdsDisjoint
  DEF Current, DeletesCatalog, DeletesOther, IndexedIn
<1>8. \A c \in Catalog, tb \in Table :
        d.index[c][tb] = IF c = w.id \/ index[c][tb] = w.id THEN None
                         ELSE index[c][tb]
  BY <1>1, LoneIndex
<1> HIDE DEF d
<1>9. \A x \in w.drop : x = w.id \/ x \in Store
  BY DEF Decided, DeletesOwn
<1>10. ASSUME ~ Hindered(w) PROVE References(d)
  <2>1. ReferencesOfConnections(d)
    BY LoneEnvironments DEF d
  <2>2. ASSUME NEW c \in d.spaces \cup d.runs PROVE Exists(d, c)
    <3>1. c \in spaces \cup runs /\ c \in Catalog /\ Exists(db, c)
      BY <1>1, <1>2, <1>5, <2>2 DEF References, db
    <3>2. c # w.id
      BY <1>5, <1>7, <1>10, <2>2, <3>1 DEF Hindered
    <3> QED  BY <1>4, <1>9, <3>1, <3>2, IdsDisjoint DEF Id
  <2>3. ASSUME NEW c \in Catalog, NEW tb \in Table, d.index[c][tb] # None
        PROVE  c \in d.spaces /\ Exists(d, d.index[c][tb])
    <3>1. /\ c # w.id /\ index[c][tb] # w.id /\ d.index[c][tb] = index[c][tb]
          /\ index[c][tb] # None
      BY <1>8, <2>3
    <3>2. c \in spaces /\ Exists(db, index[c][tb]) /\ index[c][tb] \in Environment
      BY <1>1, <1>3, <3>1 DEF References, db
    <3>3. c \notin w.spaces
      BY <1>6, <1>10, <3>1 DEF Hindered
    <3>4. index[c][tb] \notin w.drop
      BY <1>9, <3>1, <3>2, IdsDisjoint
    <3> QED  BY <1>4, <1>5, <3>1, <3>2, <3>3, <3>4 DEF Id
  <2> QED  BY <2>1, <2>2, <2>3 DEF References
<1>11. ASSUME References(d) PROVE ~ Hindered(w)
  <2>1. w.id \notin runs
    BY <1>4, <1>5, <1>11 DEF References
  <2>2. ASSUME NEW c \in Catalog, NEW tb \in Table, NEW ub \in Table,
               index[c][tb] = w.id, index[c][ub] \notin {None, w.id}
        PROVE  FALSE
    <3>1. w.id \in Environment /\ c # w.id /\ c \in w.spaces
      BY <1>1, <1>3, <1>7, <2>2, IdsDisjoint DEF References, db
    <3>2. d.index[c][ub] # None
      BY <1>8, <2>2, <3>1
    <3> QED  BY <1>5, <1>11, <3>1, <3>2 DEF References
  <2> QED  BY <2>1, <2>2 DEF Hindered
<1> QED  BY <1>10, <1>11 DEF d

(* What a handler checked is enough for the constraints of the schema, but *)
(* for the deletions of synced catalogs and of environments with part of   *)
(* the tables of a catalog.                                                *)
THEOREM LoneRequestsAlwaysFit == Spec => []LoneRequestsFit
<1>1. ConnectionsInv => LoneRequestsFit
  <2> SUFFICES ASSUME ConnectionsInv, NEW t \in Thread, req[t] # None, alone[t]
               PROVE  LoneFits(req[t])
    BY DEF LoneRequestsFit
  <2> DEFINE w == req[t]
  <2>1. w \in Write
    BY DEF ConnectionsInv, TypeOK
  <2>2. Decided(w, used) /\ Current(w)
    BY <2>1 DEF ConnectionsInv, HeldIsDecided, LoneIsCurrent
  <2> HIDE DEF w
  <2>3. RowsRemain(w) /\ Unique(After(w))
    BY <2>1, <2>2, LoneRowsRemain, LoneUnique
  <2>4. References(After(w)) <=> ~ Hindered(w)
    BY <2>1, <2>2, LoneWrites, LoneDeletion DEF Hindered
  <2> QED  BY <2>3, <2>4 DEF LoneFits, w
<1> QED  BY <1>1, ConnectionsHold, PTL
-----------------------------------------------------------------------------
(* What deletions remove.                                                  *)

LEMMA DeletionRemoves ==
  ASSUME ConnectionsInv, NEW t \in Thread, req[t] # None, req[t].op = "delete",
         Commit(t)
  PROVE  Removes(req[t].id, alone[t])
<1> DEFINE w == req[t]
           i == w.id
<1>1. /\ w \in Write /\ Decided(w, used) /\ RowsRemain(w)
      /\ \A x \in Id : row'[x] = RowAfter(w, x)
      /\ index' = [c \in Catalog |-> [tb \in Table |-> IndexAfter(w, c, tb)]]
      /\ References(db)'
  BY CommitFacts
<1>2. TypeOK /\ w.op = "delete" /\ DeletesOwn(w) /\ w.secret = None /\ i \in Id
  BY <1>1 DEF ConnectionsInv, Decided, Write
<1>3. alone[t] => Current(w)
  BY LoneCommit
<1> HIDE DEF w
<1>4. ASSUME NEW x \in Id \ {i}, row'[x] # row[x]
      PROVE  row'[x] = None /\ i \in Catalog /\ x \in Store
  <2>1. x \in w.drop /\ row'[x] = None
    BY <1>1, <1>2, <1>4, RowCases, IdsDisjoint
  <2> QED  BY <1>2, <2>1 DEF DeletesOwn
<1>5. ASSUME NEW c \in Catalog, NEW tb \in Table, index'[c][tb] # index[c][tb]
      PROVE  /\ index'[c][tb] = None
             /\ c = i \/ (i \in Environment /\ (alone[t] => index[c][tb] = i))
  <2>1. index'[c][tb] = IndexAfter(w, c, tb)
    BY <1>1
  <2>2. tb \in w.tables[c] /\ index'[c][tb] = None
    BY <1>2, <1>5, <2>1 DEF IndexAfter
  <2>3. c = i \/ i \in Environment
    BY <1>2, <2>2 DEF DeletesOwn
  <2>4. alone[t] /\ i \in Environment => index[c][tb] = i
    BY <1>2, <1>3, <2>2, IdsDisjoint DEF Current, DeletesOther, IndexedIn
  <2> QED  BY <2>2, <2>3, <2>4
<1>6. ASSUME NEW c \in Catalog, NEW tb \in Table, index'[c][tb] # None
      PROVE  i \notin {c, index'[c][tb]}
  <2>1. row'[i] = None
    BY <1>1, <1>2, RowCases, IdsDisjoint DEF DeletesOwn
  <2>2. c \in db'.spaces /\ Exists(db', index'[c][tb]) /\ Exists(db', c)
    BY <1>1, <1>6 DEF References, db
  <2>3. row'[c] # None /\ row'[index'[c][tb]] # None
    BY <2>2 DEF Exists, db
  <2> QED  BY <2>1, <2>3
<1> QED  BY <1>4, <1>5, <1>6 DEF Removes, w

(* A deletion removes its own connection with what belongs to it and       *)
(* nothing else, whatever overlapped it.                                   *)
THEOREM DeletionsTakeTheirOwn == Spec => DeletionTakesItsOwn
<1>1. ConnectionsInv =>
        \A t \in Thread :
          req[t] # None /\ req[t].op = "delete" /\ Commit(t)
            => Removes(req[t].id, alone[t])
  BY DeletionRemoves
<1>2. ConnectionsInv /\ [Next]_vars =>
        [\A t \in Thread :
           req[t] # None /\ req[t].op = "delete" /\ Commit(t)
             => Removes(req[t].id, alone[t])]_vars
  BY <1>1
<1> QED  BY <1>2, ConnectionsHold, PTL DEF Spec, DeletionTakesItsOwn
-----------------------------------------------------------------------------
(* Catalogs and the runs of their syncs.                                   *)

(* A catalog that was synced once can never be deleted: no request removes *)
(* the rows of its sync runs, and they refer to it.                        *)
SyncedCatalogsKept == \A c \in runs : c \in runs' /\ row'[c] # None

THEOREM SyncedCatalogsStay == Spec => [][SyncedCatalogsKept]_vars
<1>1. ConnectionsInv /\ ConnectionsInv' /\ [Next]_vars
        => [SyncedCatalogsKept]_vars
  <2> SUFFICES ASSUME ConnectionsInv, ConnectionsInv', Next
               PROVE  SyncedCatalogsKept
    OBVIOUS
  <2>1. runs \subseteq runs'
    <3>1. ASSUME NEW t \in Thread, Commit(t)  PROVE runs \subseteq runs'
      BY <3>1, CommitFacts DEF After
    <3>2. ASSUME NEW t \in Thread, Decides(t) \/ Abort(t)  PROVE runs' = runs
      BY <3>2 DEF Decides, Begin, Abort
    <3> QED  BY <3>1, <3>2, StepDecides
  <2>2. \A c \in runs' : row'[c] # None
    BY DEF ConnectionsInv, References, Exists, db
  <2> QED  BY <2>1, <2>2 DEF SyncedCatalogsKept
<1> QED  BY <1>1, ConnectionsHold, PTL DEF Spec
-----------------------------------------------------------------------------
(* The connection tests.                                                   *)
(* The ranks of the statuses, one by one.                                  *)
LEMMA RankValues == Rank("ok") = 0 /\ Rank("warning") = 1 /\ Rank("failed") = 2
<1>1. Rank("ok") = 0
  BY Zenon DEF Rank
<1>2. Rank("warning") = 1
  <2>1. "warning" # "ok"
    OBVIOUS
  <2> QED  BY <2>1, Zenon DEF Rank
<1>3. Rank("failed") = 2
  <2>1. "failed" # "ok" /\ "failed" # "warning"
    OBVIOUS
  <2> QED  BY <2>1, Zenon DEF Rank
<1> QED  BY <1>1, <1>2, <1>3

(* The worst status: it is one, and more parts never make it better.       *)
LEMMA OverallRanks ==
  ASSUME NEW S, NEW T
  PROVE  /\ Rank(Overall(S \cup T)) >= Rank(Overall(T))
         /\ Overall(T) = "ok" <=> "failed" \notin T /\ "warning" \notin T
<1> QED  BY RankValues DEF Overall

(* A linked store adds its own statuses, and nothing else.                 *)
LEMMA LinkOfOne == ASSUME NEW s PROVE Linked({s}) = StoreStatuses(s)
<1>1. {s} # {} /\ UNION {StoreStatuses(x) : x \in {s}} = StoreStatuses(s)
  OBVIOUS
<1>2. Linked({s}) = UNION {StoreStatuses(x) : x \in {s}}
  BY <1>1 DEF Linked
<1> QED  BY <1>1, <1>2

(* A catalog is never better than the store it is linked to.               *)
LEMMA StoreStatusesRank ==
  ASSUME NEW c, NEW s
  PROVE  Rank(TestCatalog(c, {s})) >= Rank(TestStore(s))
<1> DEFINE own == {CatalogEndpoint(c), CatalogAuth(c), CatalogReachable(c)}
<1>1. TestCatalog(c, {s}) = Overall(own \cup Linked({s}))
  BY DEF TestCatalog
<1> HIDE DEF own
<1> QED  BY <1>1, LinkOfOne, OverallRanks DEF TestStore

(* A catalog test that passes has reached the catalog.                     *)
LEMMA CatalogOkReached ==
  ASSUME NEW c \in CatalogSettings, NEW link, TestCatalog(c, link) = "ok"
  PROVE  /\ c.probe = "up" /\ c.endpoint /\ c.type \in {"jdbc", "rest", "nessie"}
         /\ c.type = "jdbc" => c.scheme = "postgresql"
<1>1. /\ CatalogReachable(c) \notin {"failed", "warning"}
  BY OverallRanks DEF TestCatalog
<1>2. c.type \in CatalogType /\ c.endpoint \in BOOLEAN
  BY DEF CatalogSettings
<1> QED  BY <1>1, <1>2 DEF CatalogReachable, OkIf, CatalogType

(* What a test of a linked catalog tells.                                  *)
LEMMA LinkedSettingsCover == LinkedCovers /\ LinkedOkReached
BY StoreStatusesRank, CatalogOkReached DEF LinkedCovers, LinkedOkReached

(* Without a store a catalog test never passes.                            *)
LEMMA UnlinkedSettingsWarn == UnlinkedWarns
<1> SUFFICES ASSUME NEW c \in CatalogSettings PROVE TestCatalog(c, {}) # "ok"
  BY DEF UnlinkedWarns
<1>1. "warning" \in Linked({})
  BY DEF Linked
<1> QED  BY <1>1, OverallRanks DEF TestCatalog

(* A bucket that passes was reached.                                       *)
LEMMA StoreSettingsReach == StoreOkReached
<1> SUFFICES ASSUME NEW s \in StoreSettings, s.type = "s3", TestStore(s) = "ok"
             PROVE  s.bucket /\ s.probe = "up"
  BY DEF StoreOkReached
<1>1. StoreReachable(s) \notin {"failed", "warning"}
  <2> StoreReachable(s) \in StoreStatuses(s)
    BY DEF StoreStatuses
  <2> QED  BY OverallRanks DEF TestStore
<1>2. BucketProbe(s) \notin {"failed", "warning"}
  <2> StoreReachable(s) = BucketProbe(s)
    BY Zenon DEF StoreReachable
  <2> QED  BY <1>1
<1>3. s.bucket \in BOOLEAN
  BY DEF StoreSettings
<1> QED  BY <1>2, <1>3 DEF BucketProbe, OkIf

(* The test of a catalog reports the worst of what it looked at, its store *)
(* included, for every setting of both; without a store it never passes.   *)
THEOREM TestsCoverStores == Spec => []CatalogTestCoversStore
<1>1. CatalogTestCoversStore
  BY LinkedSettingsCover, UnlinkedSettingsWarn, StoreSettingsReach
  DEF CatalogTestCoversStore
<1> QED  BY <1>1, PTL
=============================================================================
