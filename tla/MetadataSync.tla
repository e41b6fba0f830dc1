---------------------------- MODULE MetadataSync ----------------------------
(***************************************************************************)
(* Metadata syncs of one catalog connection (_sync_jdbc_catalog in         *)
(* iceberg/service.py) by concurrent requests, on a database with read     *)
(* committed transactions.  A sync lists the catalog, loads or inserts a   *)
(* row per table, parses metadata files for a while, replaces the cached   *)
(* details of the tables it parsed, deletes the rows of tables it did not  *)
(* list, and commits.  The catalog and other syncs move on meanwhile.      *)
(*                                                                         *)
(* The pool that parses is ParsePool: here each table gets one outcome.    *)
(* Of a row only the metadata pointer and the properties the sync itself   *)
(* writes are kept, of the cached details only the snapshots.              *)
(***************************************************************************)
EXTENDS Naturals, FiniteSets

CONSTANTS
  Name,        \* names of tables in the catalog
  MaxVersion,  \* bound on the versions of a table, for model checking
  SnapshotId,  \* identifiers of snapshots
  Snapshots,   \* the snapshots that each version of the metadata lists
  RowId,       \* identifiers of index rows
  Session,     \* threads, each with the database session of its request
  Forces,      \* whether clients ask for forced syncs, for others, or both
  NoName, NoRow

Version == 1..MaxVersion

(* Versions may have snapshots in common or none, as after an expiry, and  *)
(* a table may have no snapshot yet.                                       *)
ASSUME MetadataSyncAssumption ==
  /\ MaxVersion \in Nat \ {0}
  /\ Snapshots \in [Version -> SUBSET SnapshotId]
  /\ Forces \subseteq BOOLEAN
  /\ NoName \notin Name /\ NoRow \notin RowId

(* 0 is a table without a pointer yet, Dropped one that was dropped.       *)
Dropped == MaxVersion + 1

(* The keys that a sync writes in IcebergTable.properties.                 *)
Properties ==
  [metadata_location : Version,
   sync_source : {"jdbc_catalog", "live_metadata"}, parse_error : BOOLEAN]

NoProperties ==
  [metadata_location |-> 1, sync_source |-> "jdbc_catalog",
   parse_error |-> FALSE]

(* An IcebergTable row; name NoName means that it does not exist.          *)
IndexRow ==
  [name : Name \cup {NoName}, metadata_location : Version,
   properties : Properties]

NoIndexRow ==
  [name |-> NoName, metadata_location |-> 1, properties |-> NoProperties]

(* A Snapshot row, with the version of the metadata it was parsed from.    *)
Child == [snapshot : SnapshotId, version : Version]

Outcome == {"unknown", "skipped", "parsed", "failed"}

(* What a sync has read and decided: the pointers it listed, the row it    *)
(* uses for each table and that row as it loaded it, the rows it inserted, *)
(* the child rows its deletes saw, and the rows it found stale.            *)
SyncState ==
  [phase : {"idle", "listed", "loaded", "applied"}, force : BOOLEAN,
   list : [Name -> 0..MaxVersion], target : [Name -> RowId \cup {NoRow}],
   loaded : [Name -> IndexRow], fresh : SUBSET Name,
   outcome : [Name -> Outcome], erased : [RowId -> SUBSET Child],
   stale : SUBSET RowId]

VARIABLES
  catalog,   \* the metadata pointer of each table in the Iceberg catalog
  row,       \* the iceberg_table rows of the connection
  children,  \* the snapshot rows of each of them
  sync,      \* the sync on each thread
  alone      \* no other sync was under way since this one began

vars == <<catalog, row, children, sync, alone>>

TypeOK ==
  /\ catalog \in [Name -> 0..Dropped]
  /\ row \in [RowId -> IndexRow]
  /\ children \in [RowId -> SUBSET Child]
  /\ sync \in [Session -> SyncState]
  /\ alone \in [Session -> BOOLEAN]

NoSync ==
  [phase |-> "idle", force |-> FALSE, list |-> [n \in Name |-> 0],
   target |-> [n \in Name |-> NoRow],
   loaded |-> [n \in Name |-> NoIndexRow], fresh |-> {},
   outcome |-> [n \in Name |-> "unknown"],
   erased |-> [r \in RowId |-> {}], stale |-> {}]

Init ==
  /\ catalog = [n \in Name |-> 0]
  /\ row = [r \in RowId |-> NoIndexRow]
  /\ children = [r \in RowId |-> {}]
  /\ sync = [s \in Session |-> NoSync]
  /\ alone = [s \in Session |-> TRUE]

-----------------------------------------------------------------------------
(* Writers and owners of tables, outside the control plane.                *)

CommitTable(n) ==
  /\ catalog[n] < MaxVersion
  /\ catalog' = [catalog EXCEPT ![n] = @ + 1]
  /\ UNCHANGED <<row, children, sync, alone>>

DropTable(n) ==
  /\ catalog[n] \in Version
  /\ catalog' = [catalog EXCEPT ![n] = Dropped]
  /\ UNCHANGED <<row, children, sync, alone>>

-----------------------------------------------------------------------------
Exists(r) == row[r].name # NoName

Active(s) == sync[s].phase # "idle"

(* The catalog's own database is read in one query.                        *)
ListCatalog(s, force) ==
  /\ ~Active(s)
  /\ sync' = [sync EXCEPT
       ![s].phase = "listed", ![s].force = force,
       ![s].list = [n \in Name |->
                      IF catalog[n] \in Version THEN catalog[n] ELSE 0]]
  /\ alone' = [z \in Session |->
                 IF z = s THEN \A y \in Session \ {s} : ~Active(y)
                 ELSE alone[z] /\ ~Active(z)]
  /\ UNCHANGED <<catalog, row, children>>

(* A wrong filter: catalog rows without a pointer are kept.                *)
ListedAnyway(s) == Name

Listed(s) == {n \in Name : sync[s].list[n] # 0}

RowsOf(n) == {r \in RowId : row[r].name = n}

(* Identifiers nobody uses: a new one is a random UUID.                    *)
Unused ==
  {r \in RowId : /\ ~Exists(r)
                 /\ \A z \in Session, n \in Name : sync[z].target[n] # r}

NewRow(n, v) ==
  [name |-> n, metadata_location |-> v,
   properties |-> [NoProperties EXCEPT !.metadata_location = v]]

(* The loop over the listed tables: a committed row of that name is        *)
(* loaded, any if there are several, or a row is inserted, unseen by       *)
(* others until the commit.                                                *)
Load(s) ==
  /\ sync[s].phase = "listed"
  /\ LET fresh == {n \in Listed(s) : RowsOf(n) = {}} IN
     \E target \in [Name -> RowId \cup {NoRow}] :
       /\ \A n \in Name : target[n] \in IF n \notin Listed(s) THEN {NoRow}
                                        ELSE IF n \in fresh THEN Unused
                                        ELSE RowsOf(n)
       /\ \A m, n \in fresh : m # n => target[m] # target[n]
       /\ sync' = [sync EXCEPT
            ![s].phase = "loaded", ![s].target = target, ![s].fresh = fresh,
            ![s].loaded = [n \in Name |->
               IF n \in fresh THEN NewRow(n, sync[s].list[n])
               ELSE IF n \in Listed(s) THEN row[target[n]]
               ELSE NoIndexRow]]
  /\ UNCHANGED <<catalog, row, children, alone>>

(* The assignments to a row that exists, before its metadata is parsed.    *)
Upserted(old, v) ==
  [old EXCEPT !.metadata_location = v,
              !.properties.metadata_location = v,
              !.properties.sync_source = "jdbc_catalog"]

(* A wrong test: sync_source as it was before the assignments.             *)
SkipsUnchanged(force, old, v) ==
  /\ ~force
  /\ old.properties.sync_source = "live_metadata"
  /\ old.metadata_location = v

(* Whether the table is left out of the parse: sync_source is tested after *)
(* the assignments have overwritten it.                                    *)
Skips(force, old, v) ==
  /\ ~force
  /\ Upserted(old, v).properties.sync_source = "live_metadata"
  /\ old.metadata_location = v

(* The parse has ended: the details of the tables it parsed are deleted,   *)
(* as far as their deletes see them, and the rows of tables that were not  *)
(* listed are found stale.                                                 *)
Apply(s) ==
  /\ sync[s].phase = "loaded"
  /\ \E outcome \in [Name -> Outcome] :
       LET parsed == {sync[s].target[n] :
                        n \in {m \in Listed(s) : outcome[m] = "parsed"}}
           stale == {r \in RowId : Exists(r) /\ row[r].name \notin Listed(s)}
       IN
       /\ \A n \in Name : outcome[n] \in
            IF n \notin Listed(s) THEN {"unknown"}
            ELSE IF Skips(sync[s].force, sync[s].loaded[n], sync[s].list[n])
            THEN {"skipped"}
            ELSE {"parsed", "failed"}
       /\ sync' = [sync EXCEPT
            ![s].phase = "applied", ![s].outcome = outcome, ![s].stale = stale,
            ![s].erased = [r \in RowId |->
               IF r \in parsed \cup stale THEN children[r] ELSE {}]]
  /\ UNCHANGED <<catalog, row, children, alone>>

(* The row as the sync leaves it in its session.                           *)
Final(x, n) ==
  LET upserted == Upserted(x.loaded[n], x.list[n]) IN
  CASE x.outcome[n] = "parsed" ->
         [upserted EXCEPT !.properties.sync_source = "live_metadata",
                          !.properties.parse_error = FALSE]
    [] x.outcome[n] = "failed" ->
         [upserted EXCEPT !.properties.parse_error = TRUE]
    [] OTHER -> upserted

(* The columns that the session writes are those that differ from what it  *)
(* loaded; the others keep what the database holds by then.  A flush in    *)
(* the middle of the loop, when a row is inserted, writes earlier changes. *)
Written(x, n, midway) ==
  LET final == Final(x, n)
      current == row[x.target[n]]
      old == x.loaded[n]
      upserted == Upserted(old, x.list[n])
  IN  IF n \in x.fresh THEN final
      ELSE [current EXCEPT
              !.metadata_location =
                 IF final.metadata_location # old.metadata_location
                 THEN final.metadata_location ELSE @,
              !.properties =
                 IF \/ final.properties # old.properties
                    \/ midway /\ upserted.properties # old.properties
                 THEN final.properties ELSE @]

Details(v) == {[snapshot |-> i, version |-> v] : i \in Snapshots[v]}

(* The rows that a sync inserts under a table.                             *)
Inserted(x, r) ==
  UNION {Details(x.list[n]) :
           n \in {m \in Name : x.outcome[m] = "parsed" /\ x.target[m] = r}}

(* A wrong delete: only of the rows that are about to be inserted again.   *)
RemainingOthers(x, r) ==
  {c \in children[r] : \A d \in Inserted(x, r) : d.snapshot # c.snapshot}

Remaining(x, r) == children[r] \ x.erased[r]

(* uq_snapshot_table_snapshot_id holds for the rows about to be inserted.  *)
NewSnapshots(x, r, v) ==
  \A c \in Remaining(x, r) : c.snapshot \notin Snapshots[v]

(* The commit: it fails when a row it updates is gone, when a snapshot it  *)
(* inserts is there already, and when a row it deletes has got details     *)
(* that its delete did not see.  Deletes that other syncs made before      *)
(* did not see the rows that it inserts.                                   *)
Commit(s) ==
  LET x == sync[s]
      used == {x.target[n] : n \in Listed(s)}
      user(r) == CHOOSE n \in Listed(s) : x.target[n] = r
  IN
  /\ x.phase = "applied"
  /\ \A n \in Listed(s) \ x.fresh : row[x.target[n]].name = n
  /\ \A n \in Listed(s) : x.outcome[n] = "parsed" =>
       NewSnapshots(x, x.target[n], x.list[n])
  /\ \A r \in x.stale : Remaining(x, r) = {}
  /\ \E midway \in IF x.fresh = {} THEN {FALSE} ELSE BOOLEAN :
       row' = [r \in RowId |->
                 IF r \in x.stale THEN NoIndexRow
                 ELSE IF r \in used THEN Written(x, user(r), midway)
                 ELSE row[r]]
  /\ children' = [r \in RowId |->
                    IF r \in x.stale THEN {}
                    ELSE IF r \in used /\ x.outcome[user(r)] = "parsed"
                    THEN Remaining(x, r) \cup Details(x.list[user(r)])
                    ELSE children[r]]
  /\ sync' = [z \in Session |->
                IF z = s THEN NoSync
                ELSE [sync[z] EXCEPT !.erased =
                        [r \in RowId |-> sync[z].erased[r] \ Inserted(x, r)]]]
  /\ UNCHANGED <<catalog, alone>>

(* The sync fails, for one of those reasons or another; its session is     *)
(* rolled back, with the row in metadata_sync_run that says so.            *)
Abort(s) ==
  /\ Active(s)
  /\ sync' = [sync EXCEPT ![s] = NoSync]
  /\ UNCHANGED <<catalog, row, children, alone>>

Next ==
  \/ \E n \in Name : CommitTable(n) \/ DropTable(n)
  \/ \E s \in Session : \/ \E force \in Forces : ListCatalog(s, force)
                        \/ Load(s)
                        \/ Apply(s)
                        \/ Commit(s)
                        \/ Abort(s)

Spec == Init /\ [][Next]_vars

-----------------------------------------------------------------------------
(* The cached snapshots of a table are those of whole versions of its      *)
(* metadata, and of two versions at once only when these have no snapshot  *)
(* in common, although syncs that parsed different versions delete and     *)
(* insert them concurrently (iceberg/service.py:688-773): none is ever     *)
(* missing beside others of its version, and none is there twice.          *)
WholeParses ==
  \A r \in RowId : \A c, d \in children[r] :
    /\ Details(c.version) \subseteq children[r]
    /\ c.version # d.version => Snapshots[c.version] \cap Snapshots[d.version] = {}

(* A sync that ran alone leaves every table it listed as it listed it,     *)
(* with the details of that version or with its error noted and the        *)
(* details of before, and no row of a table it did not list, whatever      *)
(* mixed rows earlier syncs that overlapped left (iceberg/service.py:      *)
(* 209-317).                                                               *)
AloneSyncSettles ==
  [][\A s \in Session : Commit(s) /\ alone[s] =>
       \A n \in Name :
         LET v == sync[s].list[n]
             r == sync[s].target[n]
         IN  IF v = 0 THEN \A z \in RowId : row'[z].name # n
             ELSE /\ row'[r].metadata_location = v
                  /\ row'[r].properties.metadata_location = v
                  /\ IF row'[r].properties.parse_error
                     THEN children'[r] = children[r]
                     ELSE children'[r] = Details(v)]_vars

(* "Ignore unchanged metadata pointers and refresh cached details"         *)
(* (page.tsx:784) is what a forced sync does: one that is not forced skips *)
(* a table that was read from its metadata and whose pointer it finds      *)
(* unchanged.                                                              *)
UnchangedIsSkipped ==
  [][\A s \in Session, n \in Name :
       /\ sync[s].phase = "loaded" /\ sync'[s].phase = "applied"
       /\ ~sync[s].force /\ n \in Listed(s)
       /\ sync[s].loaded[n].properties.sync_source = "live_metadata"
       /\ sync[s].loaded[n].metadata_location = sync[s].list[n]
       => sync'[s].outcome[n] = "skipped"]_vars
=============================================================================
