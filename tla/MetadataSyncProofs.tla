------------------------ MODULE MetadataSyncProofs ------------------------
(***************************************************************************)
(* The cached snapshots of a table are those of whole versions, and of two *)
(* versions only when these have none in common, for any number of         *)
(* overlapping syncs, tables, versions and rows.  No lock sees to it: what *)
(* does is that a delete sees whole versions, and that the unique          *)
(* constraint refuses to add a version to one that it shares a snapshot    *)
(* with.                                                                   *)
(***************************************************************************)
EXTENDS MetadataSync, TLAPS

(* Details of versions, of each of them all.                               *)
Whole(C) == \A c \in C : c \in Details(c.version) /\ Details(c.version) \subseteq C

(* The versions have no snapshot in common.                                *)
Apart(C) ==
  \A c, d \in C :
    c.version # d.version => Snapshots[c.version] \cap Snapshots[d.version] = {}

RowsWhole == \A r \in RowId : Whole(children[r]) /\ Apart(children[r])

DeletesWhole == \A s \in Session : \A r \in RowId : Whole(sync[s].erased[r])

SyncInv == TypeOK /\ RowsWhole /\ DeletesWhole

(* A delete that saw whole versions leaves whole versions.                 *)
LEMMA DifferenceWhole ==
  ASSUME NEW C, Whole(C), NEW E, Whole(E)
  PROVE  Whole(C \ E)
<1>1. ASSUME NEW c \in C \ E, NEW d \in Details(c.version)
      PROVE  d \in C \ E
  <2>1. c \in Details(c.version) /\ d \in C
    BY <1>1 DEF Whole
  <2>2. d.version = c.version
    BY DEF Details
  <2>3. CASE d \in E
    <3>1. c \in E
      BY <2>1, <2>2, <2>3 DEF Whole
    <3> QED  BY <3>1
  <2> QED  BY <2>1, <2>3
<1>2. \A c \in C \ E : c \in Details(c.version)
  BY DEF Whole
<1> QED  BY <1>1, <1>2 DEF Whole

LEMMA UnionWhole ==
  ASSUME NEW C, Whole(C), NEW E, Whole(E)
  PROVE  Whole(C \cup E)
BY DEF Whole

(* The details of a version are rows of snapshots.                         *)
LEMMA DetailsTyped ==
  ASSUME NEW v \in Version
  PROVE  Details(v) \in SUBSET Child /\ Whole(Details(v))
<1>1. ASSUME NEW i \in Snapshots[v]  PROVE [snapshot |-> i, version |-> v] \in Child
  <2>1. i \in SnapshotId
    BY MetadataSyncAssumption
  <2> QED  BY <2>1 DEF Child
<1> QED  BY <1>1 DEF Details, Whole

(* What a sync inserts are the details of whole versions.                  *)
LEMMA InsertedWhole ==
  ASSUME NEW x, NEW r
  PROVE  Whole(Inserted(x, r))
<1>1. ASSUME NEW c \in Inserted(x, r)
      PROVE  c \in Details(c.version) /\ Details(c.version) \subseteq Inserted(x, r)
  <2>1. PICK n \in Name : /\ c \in Details(x.list[n])
                          /\ Details(x.list[n]) \subseteq Inserted(x, r)
    BY <1>1 DEF Inserted
  <2>2. c.version = x.list[n]
    BY <2>1 DEF Details
  <2> QED  BY <2>1, <2>2
<1> QED  BY <1>1 DEF Whole

(* The constraint accepts a version beside whole others only when it has   *)
(* no snapshot in common with them.                                        *)
LEMMA AcceptedApart ==
  ASSUME NEW C, Whole(C), Apart(C), NEW v \in Version,
         \A c \in C : c.snapshot \notin Snapshots[v]
  PROVE  Apart(C \cup Details(v))
<1>1. ASSUME NEW c \in C
      PROVE  Snapshots[c.version] \cap Snapshots[v] = {}
  <2>1. ASSUME NEW i \in Snapshots[c.version]  PROVE i \notin Snapshots[v]
    <3>1. [snapshot |-> i, version |-> c.version] \in C
      BY DEF Whole, Details
    <3> QED  BY <3>1
  <2> QED  BY <2>1
<1>2. \A d \in Details(v) : d.version = v
  BY DEF Details
<1>3. ASSUME NEW c \in C \cup Details(v), NEW d \in C \cup Details(v),
             c.version # d.version
      PROVE  Snapshots[c.version] \cap Snapshots[d.version] = {}
  <2>1. CASE c \in C /\ d \in C
    BY <1>3, <2>1 DEF Apart
  <2>2. CASE c \in C /\ d \in Details(v)
    BY <1>1, <1>2, <2>2
  <2>3. CASE c \in Details(v) /\ d \in C
    BY <1>1, <1>2, <2>3
  <2>4. CASE c \in Details(v) /\ d \in Details(v)
    BY <1>2, <1>3, <2>4
  <2> QED  BY <2>1, <2>2, <2>3, <2>4
<1> QED  BY <1>3 DEF Apart

(* At the start nothing is cached.                                         *)
LEMMA NoSyncTyped == NoSync \in SyncState /\ \A r \in RowId : NoSync.erased[r] = {}
<1>1. 1 \in Version /\ MaxVersion \in Nat
  BY MetadataSyncAssumption DEF Version
<1>2. NoIndexRow \in IndexRow
  BY <1>1 DEF NoIndexRow, IndexRow, NoProperties, Properties
<1>3. [n \in Name |-> 0] \in [Name -> 0..MaxVersion]
  BY <1>1
<1> QED  BY <1>2, <1>3 DEF NoSync, SyncState, Outcome

LEMMA InitSync == Init => SyncInv
<1> SUFFICES ASSUME Init PROVE SyncInv
  OBVIOUS
<1>1. 1 \in Version /\ MaxVersion \in Nat
  BY MetadataSyncAssumption DEF Version
<1>2. NoIndexRow \in IndexRow
  BY <1>1 DEF NoIndexRow, IndexRow, NoProperties, Properties
<1>3. catalog \in [Name -> 0..Dropped]
  BY <1>1 DEF Init, Dropped
<1>4. TypeOK
  BY <1>2, <1>3, NoSyncTyped DEF Init, TypeOK
<1> QED
  BY <1>4, NoSyncTyped DEF Init, SyncInv, RowsWhole, DeletesWhole, Whole, Apart

(* A step of one sync before its commit.                                   *)
LEMMA SyncStepKeeps ==
  ASSUME SyncInv, NEW s \in Session, NEW x \in SyncState,
         \A r \in RowId : Whole(x.erased[r]),
         sync' = [sync EXCEPT ![s] = x],
         alone' \in [Session -> BOOLEAN],
         UNCHANGED <<catalog, row, children>>
  PROVE  SyncInv'
<1>1. sync' \in [Session -> SyncState]
  BY DEF SyncInv, TypeOK
<1>2. \A z \in Session : sync'[z] = IF z = s THEN x ELSE sync[z]
  BY DEF SyncInv, TypeOK
<1> QED  BY <1>1, <1>2 DEF SyncInv, TypeOK, RowsWhole, DeletesWhole

(* Owners of tables write only the catalog.                                *)
LEMMA CatalogKeeps ==
  ASSUME SyncInv, NEW n \in Name, CommitTable(n) \/ DropTable(n)
  PROVE  SyncInv'
<1>1. MaxVersion \in Nat
  BY MetadataSyncAssumption
<1>2. catalog \in [Name -> 0..Dropped]
  BY DEF SyncInv, TypeOK
<1>3. catalog' \in [Name -> 0..Dropped]
  BY <1>1, <1>2 DEF CommitTable, DropTable, Dropped
<1>4. UNCHANGED <<row, children, sync, alone>>
  BY DEF CommitTable, DropTable
<1> QED  BY <1>3, <1>4 DEF SyncInv, TypeOK, RowsWhole, DeletesWhole

(* Listing the catalog.                                                    *)
LEMMA ListKeeps ==
  ASSUME SyncInv, NEW s \in Session, NEW force \in Forces, ListCatalog(s, force)
  PROVE  SyncInv'
<1> DEFINE list == [n \in Name |-> IF catalog[n] \in Version THEN catalog[n] ELSE 0]
           x == [sync[s] EXCEPT !.phase = "listed", !.force = force,
                                !.list = list]
<1>1. sync[s] \in SyncState /\ \A r \in RowId : Whole(sync[s].erased[r])
  BY DEF SyncInv, TypeOK, DeletesWhole
<1>2. list \in [Name -> 0..MaxVersion]
  BY MetadataSyncAssumption DEF Version
<1>3. force \in BOOLEAN
  <2>1. Forces \subseteq BOOLEAN
    BY MetadataSyncAssumption
  <2> QED  BY <2>1
<1>4. sync' = [sync EXCEPT ![s] = x]
  BY DEF ListCatalog, SyncInv, TypeOK
<1>5. x \in SyncState /\ x.erased = sync[s].erased
  <2> HIDE DEF list
  <2> QED  BY <1>1, <1>2, <1>3 DEF SyncState
<1>6. alone' \in [Session -> BOOLEAN] /\ UNCHANGED <<catalog, row, children>>
  BY DEF ListCatalog, SyncInv, TypeOK
<1> HIDE DEF x
<1> QED  BY <1>1, <1>4, <1>5, <1>6, SyncStepKeeps

(* Choosing a row for each table, and reading it.                          *)
LEMMA LoadKeeps ==
  ASSUME SyncInv, NEW s \in Session, Load(s)
  PROVE  SyncInv'
<1> DEFINE fresh == {n \in Listed(s) : RowsOf(n) = {}}
<1>1. PICK target \in [Name -> RowId \cup {NoRow}] :
        /\ \A n \in Name : target[n] \in IF n \notin Listed(s) THEN {NoRow}
                                         ELSE IF n \in fresh THEN Unused
                                         ELSE RowsOf(n)
        /\ sync' = [sync EXCEPT
             ![s].phase = "loaded", ![s].target = target, ![s].fresh = fresh,
             ![s].loaded = [n \in Name |->
                IF n \in fresh THEN NewRow(n, sync[s].list[n])
                ELSE IF n \in Listed(s) THEN row[target[n]]
                ELSE NoIndexRow]]
  BY DEF Load
<1> DEFINE loaded == [n \in Name |->
                IF n \in fresh THEN NewRow(n, sync[s].list[n])
                ELSE IF n \in Listed(s) THEN row[target[n]]
                ELSE NoIndexRow]
           x == [sync[s] EXCEPT !.phase = "loaded", !.target = target,
                                !.fresh = fresh, !.loaded = loaded]
<1>2. sync[s] \in SyncState /\ \A r \in RowId : Whole(sync[s].erased[r])
  BY DEF SyncInv, TypeOK, DeletesWhole
<1>3. ASSUME NEW n \in Name  PROVE loaded[n] \in IndexRow
  <2>1. CASE n \in fresh
    <3>1. sync[s].list[n] \in Version
      BY <1>2, <2>1, MetadataSyncAssumption DEF Listed, SyncState, Version
    <3>2. NewRow(n, sync[s].list[n]) \in IndexRow
      BY <3>1 DEF NewRow, IndexRow, NoProperties, Properties
    <3> QED  BY <2>1, <3>2
  <2>2. CASE n \notin fresh /\ n \in Listed(s)
    <3>1. target[n] \in RowId
      BY <1>1, <2>2 DEF RowsOf
    <3> QED  BY <2>2, <3>1 DEF SyncInv, TypeOK
  <2>3. CASE n \notin Listed(s)
    BY <2>3, NoSyncTyped DEF NoSync, SyncState
  <2> QED  BY <2>1, <2>2, <2>3
<1>4. loaded \in [Name -> IndexRow] /\ fresh \in SUBSET Name
  BY <1>3 DEF Listed
<1>5. sync' = [sync EXCEPT ![s] = x]
  <2> HIDE DEF fresh
  <2> QED  BY <1>1 DEF SyncInv, TypeOK
<1>6. x \in SyncState /\ x.erased = sync[s].erased
  <2> HIDE DEF loaded, fresh
  <2> QED  BY <1>2, <1>4 DEF SyncState
<1>7. alone' \in [Session -> BOOLEAN] /\ UNCHANGED <<catalog, row, children>>
  BY DEF Load, SyncInv, TypeOK
<1> HIDE DEF x
<1> QED  BY <1>2, <1>5, <1>6, <1>7, SyncStepKeeps

(* The deletes of a sync: they see all details of a row.                   *)
LEMMA ApplyKeeps ==
  ASSUME SyncInv, NEW s \in Session, Apply(s)
  PROVE  SyncInv'
<1> DEFINE parsed(o) == {sync[s].target[n] :
                           n \in {m \in Listed(s) : o[m] = "parsed"}}
           stale == {r \in RowId : Exists(r) /\ row[r].name \notin Listed(s)}
<1>1. PICK outcome \in [Name -> Outcome] :
        sync' = [sync EXCEPT
          ![s].phase = "applied", ![s].outcome = outcome, ![s].stale = stale,
          ![s].erased = [r \in RowId |->
             IF r \in parsed(outcome) \cup stale THEN children[r] ELSE {}]]
  BY DEF Apply
<1> DEFINE gone == parsed(outcome) \cup stale
           erased == [r \in RowId |-> IF r \in gone THEN children[r] ELSE {}]
           x == [sync[s] EXCEPT !.phase = "applied", !.outcome = outcome,
                                !.stale = stale, !.erased = erased]
<1> HIDE DEF gone, stale
<1>2. sync[s] \in SyncState
  BY DEF SyncInv, TypeOK
<1>3. erased \in [RowId -> SUBSET Child] /\ \A r \in RowId : Whole(erased[r])
  BY DEF SyncInv, TypeOK, RowsWhole, Whole
<1>4. sync' = [sync EXCEPT ![s] = x]
  BY <1>1 DEF SyncInv, TypeOK, gone
<1>5. x \in SyncState /\ x.erased = erased
  <2>1. stale \in SUBSET RowId
    BY DEF stale
  <2> HIDE DEF erased
  <2> QED  BY <1>2, <1>3, <2>1 DEF SyncState
<1>6. alone' \in [Session -> BOOLEAN] /\ UNCHANGED <<catalog, row, children>>
  BY DEF Apply, SyncInv, TypeOK
<1> HIDE DEF x
<1> QED  BY <1>3, <1>4, <1>5, <1>6, SyncStepKeeps

(* A rolled back sync leaves no trace.                                     *)
LEMMA AbortKeeps ==
  ASSUME SyncInv, NEW s \in Session, Abort(s)
  PROVE  SyncInv'
<1>1. /\ sync' = [sync EXCEPT ![s] = NoSync]
      /\ alone' \in [Session -> BOOLEAN] /\ UNCHANGED <<catalog, row, children>>
  BY DEF Abort, SyncInv, TypeOK
<1>2. \A r \in RowId : Whole(NoSync.erased[r])
  BY NoSyncTyped DEF Whole
<1> QED  BY <1>1, <1>2, NoSyncTyped, SyncStepKeeps

(* What a commit writes of a row that its sync used has the type of a row. *)
LEMMA WrittenTyped ==
  ASSUME NEW x \in SyncState, NEW n \in Name, x.list[n] \in Version,
         row[x.target[n]] \in IndexRow, NEW midway \in BOOLEAN
  PROVE  Written(x, n, midway) \in IndexRow
<1>1. x.loaded[n] \in IndexRow
  BY DEF SyncState
<1>2. Upserted(x.loaded[n], x.list[n]) \in IndexRow
  BY <1>1 DEF Upserted, IndexRow, Properties
<1>3. Final(x, n) \in IndexRow
  BY <1>2 DEF Final, IndexRow, Properties
<1>4. /\ Final(x, n).metadata_location \in Version
      /\ Final(x, n).properties \in Properties
  BY <1>3 DEF IndexRow
<1> QED  BY <1>3, <1>4 DEF Written, IndexRow

(* A commit ends its own sync, and of others it changes only what their    *)
(* deletes have seen.                                                      *)
LEMMA CommitEnds ==
  ASSUME NEW s \in Session, Commit(s)
  PROVE  /\ sync'[s] = NoSync
         /\ sync' = [z \in Session |-> sync'[z]]
         /\ \A z \in Session \ {s} :
              sync'[z] = [sync[z] EXCEPT !.erased =
                [r \in RowId |-> sync[z].erased[r] \ Inserted(sync[s], r)]]
BY DEF Commit

LEMMA CommitLeavesOthers ==
  ASSUME sync \in [Session -> SyncState], NEW s \in Session, Commit(s),
         NEW z \in Session \ {s}
  PROVE  /\ sync'[z].phase = sync[z].phase /\ sync'[z].list = sync[z].list
         /\ sync'[z].outcome = sync[z].outcome
<1> DEFINE left == [r \in RowId |-> sync[z].erased[r] \ Inserted(sync[s], r)]
<1>1. sync'[z] = [sync[z] EXCEPT !.erased = left]
  BY CommitEnds
<1>2. sync[z] \in SyncState
  OBVIOUS
<1> HIDE DEF left
<1> QED  BY <1>1, <1>2 DEF SyncState

(* A commit that is accepted leaves whole versions in each row.            *)
LEMMA CommitKeeps ==
  ASSUME SyncInv, NEW s \in Session, Commit(s)
  PROVE  SyncInv'
<1> DEFINE x == sync[s]
           used == {x.target[n] : n \in Listed(s)}
           user(r) == CHOOSE n \in Listed(s) : x.target[n] = r
<1>1. PICK midway \in BOOLEAN :
        row' = [r \in RowId |-> IF r \in x.stale THEN NoIndexRow
                                ELSE IF r \in used THEN Written(x, user(r), midway)
                                ELSE row[r]]
  BY DEF Commit
<1>2. children' = [r \in RowId |->
                    IF r \in x.stale THEN {}
                    ELSE IF r \in used /\ x.outcome[user(r)] = "parsed"
                    THEN Remaining(x, r) \cup Details(x.list[user(r)])
                    ELSE children[r]]
  BY DEF Commit
<1>3. /\ x \in SyncState /\ \A r \in RowId : Whole(x.erased[r])
      /\ row \in [RowId -> IndexRow] /\ children \in [RowId -> SUBSET Child]
      /\ \A r \in RowId : Whole(children[r]) /\ Apart(children[r])
  BY DEF SyncInv, TypeOK, RowsWhole, DeletesWhole
<1>4. ASSUME NEW r \in used
      PROVE  /\ user(r) \in Listed(s) /\ user(r) \in Name
             /\ x.target[user(r)] = r /\ x.list[user(r)] \in Version
  <2>1. user(r) \in Listed(s) /\ x.target[user(r)] = r
    BY <1>4
  <2>2. user(r) \in Name /\ x.list[user(r)] # 0
    BY <2>1 DEF Listed
  <2>3. x.list[user(r)] \in 0..MaxVersion
    BY <1>3, <2>2 DEF SyncState
  <2> QED  BY <2>1, <2>2, <2>3, MetadataSyncAssumption DEF Version
<1>5. \A n \in Listed(s) : x.outcome[n] = "parsed" =>
        NewSnapshots(x, x.target[n], x.list[n])
  BY DEF Commit
<1> HIDE DEF x, used, user
<1>6. row' \in [RowId -> IndexRow]
  <2>1. NoIndexRow \in IndexRow
    BY MetadataSyncAssumption
       DEF NoIndexRow, IndexRow, NoProperties, Properties, Version
  <2>2. ASSUME NEW r \in RowId, r \in used
        PROVE  Written(x, user(r), midway) \in IndexRow
    BY <1>3, <1>4, <2>2, WrittenTyped
  <2> QED  BY <1>1, <1>3, <2>1, <2>2
<1>7. ASSUME NEW r \in RowId
      PROVE  /\ children'[r] \in SUBSET Child
             /\ Whole(children'[r]) /\ Apart(children'[r])
  <2>1. CASE r \in x.stale
    BY <1>2, <2>1 DEF Whole, Apart
  <2>2. CASE r \notin x.stale /\ r \in used /\ x.outcome[user(r)] = "parsed"
    <3>1. NewSnapshots(x, r, x.list[user(r)])
      BY <1>4, <1>5, <2>2
    <3>2. /\ Remaining(x, r) \in SUBSET Child
          /\ Whole(Remaining(x, r)) /\ Apart(Remaining(x, r))
      BY <1>3, DifferenceWhole DEF Remaining, Apart
    <3>3. /\ Details(x.list[user(r)]) \in SUBSET Child
          /\ Whole(Details(x.list[user(r)]))
      BY <1>4, <2>2, DetailsTyped
    <3>4. children'[r] = Remaining(x, r) \cup Details(x.list[user(r)])
      BY <1>2, <2>2
    <3>5. Apart(Remaining(x, r) \cup Details(x.list[user(r)]))
      BY <1>4, <2>2, <3>1, <3>2, AcceptedApart DEF NewSnapshots
    <3> QED  BY <3>2, <3>3, <3>4, <3>5, UnionWhole
  <2>3. CASE r \notin x.stale /\ ~(r \in used /\ x.outcome[user(r)] = "parsed")
    BY <1>2, <1>3, <2>3
  <2> QED  BY <2>1, <2>2, <2>3
<1>8. children' \in [RowId -> SUBSET Child]
  BY <1>2, <1>7
<1>9. UNCHANGED <<catalog, alone>>
  BY DEF Commit
<1>10. ASSUME NEW z \in Session
       PROVE  /\ sync'[z] \in SyncState
              /\ \A r \in RowId : Whole(sync'[z].erased[r])
  <2>1. CASE z = s
    BY <2>1, CommitEnds, NoSyncTyped DEF Whole
  <2>2. CASE z # s
    <3> DEFINE left == [r \in RowId |-> sync[z].erased[r] \ Inserted(sync[s], r)]
    <3>1. sync'[z] = [sync[z] EXCEPT !.erased = left]
      BY <2>2, CommitEnds
    <3>2. sync[z] \in SyncState /\ \A r \in RowId : Whole(sync[z].erased[r])
      BY DEF SyncInv, TypeOK, DeletesWhole
    <3>3. left \in [RowId -> SUBSET Child]
      BY <3>2 DEF SyncState
    <3>4. \A r \in RowId : Whole(left[r])
      BY <3>2, InsertedWhole, DifferenceWhole
    <3> HIDE DEF left
    <3>5. sync'[z] \in SyncState /\ sync'[z].erased = left
      BY <3>1, <3>2, <3>3 DEF SyncState
    <3> QED  BY <3>4, <3>5
  <2> QED  BY <2>1, <2>2
<1>11. sync' \in [Session -> SyncState]
  BY <1>10, CommitEnds
<1> QED
  BY <1>6, <1>7, <1>8, <1>9, <1>10, <1>11
     DEF SyncInv, TypeOK, RowsWhole, DeletesWhole

(* However syncs overlap and fail, every row has details of whole          *)
(* versions.                                                               *)
THEOREM SyncHolds == Spec => []SyncInv
<1>1. SyncInv /\ UNCHANGED vars => SyncInv'
  BY DEF SyncInv, TypeOK, RowsWhole, DeletesWhole, vars
<1>2. ASSUME SyncInv, [Next]_vars  PROVE SyncInv'
  <2>1. ASSUME NEW n \in Name, CommitTable(n) \/ DropTable(n)  PROVE SyncInv'
    BY <1>2, <2>1, CatalogKeeps
  <2>2. ASSUME NEW s \in Session, NEW force \in Forces, ListCatalog(s, force)
        PROVE  SyncInv'
    BY <1>2, <2>2, ListKeeps
  <2>3. ASSUME NEW s \in Session, Load(s) \/ Apply(s) \/ Commit(s) \/ Abort(s)
        PROVE  SyncInv'
    BY <1>2, <2>3, LoadKeeps, ApplyKeeps, CommitKeeps, AbortKeeps
  <2>4. CASE Next
    BY <2>1, <2>2, <2>3, <2>4, Zenon DEF Next
  <2>5. CASE UNCHANGED vars
    BY <1>1, <1>2, <2>5
  <2> QED  BY <1>2, <2>4, <2>5
<1> QED  BY <1>2, InitSync, PTL DEF Spec

(* The variables of the syncs keep their types.                            *)
THEOREM SyncTyped == Spec => []TypeOK
BY SyncHolds, PTL DEF SyncInv

(* The cached snapshots of a table are those of whole versions, mixed only *)
(* when they have none in common, for any sets of snapshots.               *)
THEOREM WholeParsesAlways == Spec => []WholeParses
<1>1. SyncInv => WholeParses
  BY DEF SyncInv, RowsWhole, Whole, Apart, WholeParses
<1> QED  BY <1>1, SyncHolds, PTL
-----------------------------------------------------------------------------
(* What a sync that nothing overlaps relies on: the rows it chose are as   *)
(* it loaded them, its deletes saw what is there, and what it found stale  *)
(* are all rows of tables that it did not list.                            *)
ListedIn(x) == {n \in Name : x.list[n] # 0}

RowChosen(R, x, n) ==
  /\ x.target[n] \in RowId
  /\ x.loaded[n].name = n
  /\ n \notin x.fresh => R[x.target[n]] = x.loaded[n]
  /\ n \in x.fresh => R[x.target[n]].name = NoName

Chosen(R, x) ==
  /\ \A n \in ListedIn(x) : RowChosen(R, x, n)
  /\ \A m, n \in ListedIn(x) : x.target[m] = x.target[n] => m = n

Settled(R, C, x) ==
  /\ \A n \in ListedIn(x) :
       /\ x.outcome[n] = "parsed" \/ x.outcome[n] = "failed"
       /\ x.outcome[n] = "parsed" =>
            x.erased[x.target[n]] = C[x.target[n]]
  /\ x.stale = {r \in RowId : /\ R[r].name # NoName
                             /\ R[r].name \notin ListedIn(x)}

LoneSync(s) ==
  /\ \A z \in Session \ {s} : ~Active(z)
  /\ sync[s].phase \in {"loaded", "applied"} => Chosen(row, sync[s])
  /\ sync[s].phase = "applied" => Settled(row, children, sync[s])

AloneInv == \A s \in Session : alone[s] /\ Active(s) => LoneSync(s)

(* A step of s itself, while s is alone: others stay as they are.          *)
LEMMA OwnStep ==
  ASSUME SyncInv, AloneInv, NEW s \in Session, NEW x \in SyncState,
         Active(s), sync' = [sync EXCEPT ![s] = x], UNCHANGED alone,
         UNCHANGED <<row, children>> \/ x.phase = "idle",
         alone[s] /\ x.phase # "idle" =>
           /\ x.phase \in {"loaded", "applied"} => Chosen(row, x)
           /\ x.phase = "applied" => Settled(row, children, x)
  PROVE  AloneInv'
<1>1. \A z \in Session : sync'[z] = IF z = s THEN x ELSE sync[z]
  BY DEF SyncInv, TypeOK
<1>2. ASSUME NEW z \in Session, alone'[z], Active(z)'  PROVE LoneSync(z)'
  <2>1. CASE z = s
    <3>1. \A y \in Session \ {s} : ~Active(y)
      BY <1>2, <2>1 DEF AloneInv, LoneSync
    <3>2. \A y \in Session \ {s} : ~Active(y)'
      BY <1>1, <3>1 DEF Active
    <3>3. sync'[s] = x /\ x.phase # "idle"
      BY <1>1, <1>2, <2>1 DEF Active
    <3> QED  BY <1>2, <2>1, <3>2, <3>3 DEF LoneSync
  <2>2. CASE z # s
    <3>1. Active(z) /\ alone[z]
      BY <1>1, <1>2, <2>2 DEF Active
    <3> QED  BY <2>2, <3>1 DEF AloneInv, LoneSync
  <2> QED  BY <2>1, <2>2
<1> QED  BY <1>2 DEF AloneInv

LEMMA AloneList ==
  ASSUME SyncInv, AloneInv, NEW s \in Session, NEW force \in Forces,
         ListCatalog(s, force)
  PROVE  AloneInv'
<1>1. /\ sync'[s].phase = "listed"
      /\ \A z \in Session \ {s} : sync'[z] = sync[z]
      /\ alone'[s] = (\A y \in Session \ {s} : ~Active(y))
      /\ \A z \in Session \ {s} : alone'[z] = (alone[z] /\ ~Active(z))
  BY DEF ListCatalog, SyncInv, TypeOK, SyncState
<1>2. alone'[s] => LoneSync(s)'
  BY <1>1 DEF LoneSync, Active
<1>3. \A z \in Session \ {s} : ~(alone'[z] /\ Active(z)')
  BY <1>1 DEF Active
<1> QED  BY <1>2, <1>3 DEF AloneInv

LEMMA AloneLoad ==
  ASSUME SyncInv, AloneInv, NEW s \in Session, Load(s)
  PROVE  AloneInv'
<1> DEFINE fresh == {n \in Listed(s) : RowsOf(n) = {}}
<1>1. PICK target \in [Name -> RowId \cup {NoRow}] :
        /\ \A n \in Name : target[n] \in IF n \notin Listed(s) THEN {NoRow}
                                         ELSE IF n \in fresh THEN Unused
                                         ELSE RowsOf(n)
        /\ \A m, n \in fresh : m # n => target[m] # target[n]
        /\ sync' = [sync EXCEPT
             ![s].phase = "loaded", ![s].target = target, ![s].fresh = fresh,
             ![s].loaded = [n \in Name |->
                IF n \in fresh THEN NewRow(n, sync[s].list[n])
                ELSE IF n \in Listed(s) THEN row[target[n]]
                ELSE NoIndexRow]]
  BY DEF Load
<1> DEFINE loaded == [n \in Name |->
                IF n \in fresh THEN NewRow(n, sync[s].list[n])
                ELSE IF n \in Listed(s) THEN row[target[n]]
                ELSE NoIndexRow]
           x == [sync[s] EXCEPT !.phase = "loaded", !.target = target,
                                !.fresh = fresh, !.loaded = loaded]
<1>2. sync[s] \in SyncState /\ SyncInv'
  BY LoadKeeps DEF SyncInv, TypeOK
<1>3. sync' = [sync EXCEPT ![s] = x] /\ sync'[s] = x /\ x \in SyncState
  <2>1. sync' = [sync EXCEPT ![s] = x]
    <3> HIDE DEF fresh, loaded
    <3> QED  BY <1>1 DEF SyncInv, TypeOK, loaded
  <2>2. sync'[s] = x
    BY <2>1 DEF SyncInv, TypeOK
  <2> QED  BY <1>2, <2>1, <2>2 DEF SyncInv, TypeOK
<1>4. /\ x.phase = "loaded" /\ x.list = sync[s].list /\ x.target = target
      /\ x.fresh = fresh /\ x.loaded = loaded
  <2> HIDE DEF fresh, loaded
  <2> QED  BY <1>2 DEF SyncState
<1>5. Active(s) /\ UNCHANGED <<alone, row, children>>
  BY DEF Load, Active
<1> HIDE DEF x
<1>6. ListedIn(x) = Listed(s)
  BY <1>4 DEF ListedIn, Listed
<1>7. ASSUME NEW n \in Listed(s)
      PROVE  /\ n \in Name
             /\ n \in fresh => target[n] \in Unused /\ loaded[n] = NewRow(n, sync[s].list[n])
             /\ n \notin fresh => target[n] \in RowsOf(n) /\ loaded[n] = row[target[n]]
  BY <1>1 DEF Listed
<1> HIDE DEF fresh, loaded
<1>8. ASSUME NEW n \in Listed(s)  PROVE RowChosen(row, x, n)
  <2>1. CASE n \in fresh
    <3>1. target[n] \in RowId /\ row[target[n]].name = NoName
      BY <1>7, <2>1 DEF Unused, Exists
    <3>2. loaded[n].name = n
      <4>1. NewRow(n, sync[s].list[n]).name = n
        BY DEF NewRow
      <4> QED  BY <1>7, <2>1, <4>1
    <3> QED  BY <1>4, <2>1, <3>1, <3>2 DEF RowChosen
  <2>2. CASE n \notin fresh
    BY <1>4, <1>7, <2>2 DEF RowChosen, RowsOf
  <2> QED  BY <2>1, <2>2
<1>9. ASSUME NEW m \in Listed(s), NEW n \in Listed(s), target[m] = target[n]
      PROVE  m = n
  <2>1. CASE m \in fresh /\ n \in fresh
    BY <1>1, <1>9, <2>1
  <2>2. CASE m \notin fresh /\ n \notin fresh
    BY <1>7, <1>9, <2>2 DEF RowsOf
  <2>3. \A i \in Listed(s) : i \notin fresh => Exists(target[i])
    BY <1>7, MetadataSyncAssumption DEF RowsOf, Exists
  <2>4. \A i \in Listed(s) : i \in fresh => ~Exists(target[i])
    BY <1>7 DEF Unused
  <2> QED  BY <1>9, <2>1, <2>2, <2>3, <2>4
<1>10. Chosen(row, x)
  BY <1>4, <1>6, <1>8, <1>9 DEF Chosen
<1> QED  BY <1>3, <1>4, <1>5, <1>10, OwnStep

(* The test of what is unchanged comes after the assignment to what it     *)
(* reads, so it never holds.                                               *)
LEMMA NothingSkips ==
  ASSUME NEW force, NEW old \in IndexRow, NEW v
  PROVE  ~Skips(force, old, v)
<1>1. Upserted(old, v).properties.sync_source = "jdbc_catalog"
  BY DEF Upserted, IndexRow, Properties
<1> QED  BY <1>1 DEF Skips

LEMMA AloneApply ==
  ASSUME SyncInv, AloneInv, NEW s \in Session, Apply(s)
  PROVE  AloneInv'
<1> DEFINE parsed(o) == {sync[s].target[n] :
                           n \in {m \in Listed(s) : o[m] = "parsed"}}
           stale == {r \in RowId : Exists(r) /\ row[r].name \notin Listed(s)}
<1>1. PICK outcome \in [Name -> Outcome] :
        /\ \A n \in Name : outcome[n] \in
             IF n \notin Listed(s) THEN {"unknown"}
             ELSE IF Skips(sync[s].force, sync[s].loaded[n], sync[s].list[n])
             THEN {"skipped"}
             ELSE {"parsed", "failed"}
        /\ sync' = [sync EXCEPT
          ![s].phase = "applied", ![s].outcome = outcome, ![s].stale = stale,
          ![s].erased = [r \in RowId |->
             IF r \in parsed(outcome) \cup stale THEN children[r] ELSE {}]]
  BY DEF Apply
<1> DEFINE gone == parsed(outcome) \cup stale
           erased == [r \in RowId |-> IF r \in gone THEN children[r] ELSE {}]
           x == [sync[s] EXCEPT !.phase = "applied", !.outcome = outcome,
                                !.stale = stale, !.erased = erased]
<1>2. sync[s] \in SyncState /\ SyncInv'
  BY ApplyKeeps DEF SyncInv, TypeOK
<1>3. sync' = [sync EXCEPT ![s] = x] /\ sync'[s] = x /\ x \in SyncState
  <2>1. sync' = [sync EXCEPT ![s] = x]
    <3> HIDE DEF gone, stale
    <3> QED  BY <1>1 DEF SyncInv, TypeOK, gone
  <2>2. sync'[s] = x
    BY <2>1 DEF SyncInv, TypeOK
  <2> QED  BY <1>2, <2>1, <2>2 DEF SyncInv, TypeOK
<1>4. /\ x.phase = "applied" /\ x.list = sync[s].list
      /\ x.target = sync[s].target /\ x.fresh = sync[s].fresh
      /\ x.loaded = sync[s].loaded /\ x.outcome = outcome
      /\ x.stale = stale /\ x.erased = erased
  <2> HIDE DEF erased, stale
  <2> QED  BY <1>2 DEF SyncState
<1>5. Active(s) /\ sync[s].phase = "loaded" /\ UNCHANGED <<alone, row, children>>
  BY DEF Apply, Active
<1> HIDE DEF x
<1>6. ListedIn(x) = Listed(s) /\ ListedIn(sync[s]) = Listed(s)
  BY <1>4 DEF ListedIn, Listed
<1>7. ASSUME alone[s]  PROVE Chosen(row, x)
  <2>1. Chosen(row, sync[s])
    BY <1>5, <1>7 DEF AloneInv, LoneSync
  <2>2. ASSUME NEW n \in ListedIn(x)  PROVE RowChosen(row, x, n)
    BY <1>4, <1>6, <2>1 DEF Chosen, RowChosen
  <2> QED  BY <1>4, <1>6, <2>1, <2>2 DEF Chosen
<1>8. ASSUME alone[s]  PROVE Settled(row, children, x)
  <2>1. ASSUME NEW n \in Listed(s)
        PROVE  n \in Name /\ (outcome[n] = "parsed" \/ outcome[n] = "failed")
    <3>1. n \in Name
      BY DEF Listed
    <3>2. sync[s].loaded[n] \in IndexRow
      BY <1>2, <3>1 DEF SyncState
    <3>3. ~Skips(sync[s].force, sync[s].loaded[n], sync[s].list[n])
      BY <3>2, NothingSkips
    <3> QED  BY <1>1, <3>1, <3>3
  <2>2. \A n \in Listed(s) : sync[s].target[n] \in RowId
    BY <1>4, <1>6, <1>7, <1>8 DEF Chosen, RowChosen
  <2>3. \A n \in Listed(s) : outcome[n] = "parsed" =>
          erased[sync[s].target[n]] = children[sync[s].target[n]]
    BY <2>2
  <2>4. stale = {r \in RowId : row[r].name # NoName /\ row[r].name \notin Listed(s)}
    BY DEF Exists
  <2> HIDE DEF erased, stale
  <2> QED  BY <1>4, <1>6, <2>1, <2>3, <2>4 DEF Settled
<1> QED  BY <1>3, <1>4, <1>5, <1>7, <1>8, OwnStep

(* When a sync ends, no other that is under way is alone.                  *)
LEMMA AloneEnds ==
  ASSUME SyncInv, AloneInv, NEW s \in Session, Commit(s) \/ Abort(s)
  PROVE  AloneInv'
<1>1. Active(s) /\ UNCHANGED alone
  BY DEF Commit, Abort, Active
<1>2. sync \in [Session -> SyncState]
  BY DEF SyncInv, TypeOK
<1>3. sync'[s] = NoSync /\ \A z \in Session \ {s} : sync'[z].phase = sync[z].phase
  <2>1. CASE Commit(s)
    BY <1>2, <2>1, CommitEnds, CommitLeavesOthers
  <2>2. CASE Abort(s)
    BY <1>2, <2>2 DEF Abort
  <2> QED  BY <2>1, <2>2
<1>4. ASSUME NEW z \in Session, alone'[z], Active(z)'  PROVE FALSE
  <2>1. z # s
    BY <1>3, <1>4 DEF Active, NoSync
  <2>2. alone[z] /\ Active(z)
    BY <1>1, <1>3, <1>4, <2>1 DEF Active
  <2> QED  BY <1>1, <2>1, <2>2 DEF AloneInv, LoneSync
<1> QED  BY <1>4 DEF AloneInv

LEMMA AloneHolds == Spec => []AloneInv
<1>1. Init => AloneInv
  BY DEF Init, AloneInv, Active, NoSync
<1>2. ASSUME SyncInv, AloneInv, [Next]_vars  PROVE AloneInv'
  <2>1. ASSUME NEW n \in Name, CommitTable(n) \/ DropTable(n)  PROVE AloneInv'
    BY <1>2, <2>1
       DEF CommitTable, DropTable, AloneInv, LoneSync, Active, Chosen,
           RowChosen, Settled, Exists
  <2>2. ASSUME NEW s \in Session, NEW force \in Forces, ListCatalog(s, force)
        PROVE  AloneInv'
    BY <1>2, <2>2, AloneList
  <2>3. ASSUME NEW s \in Session, Load(s) \/ Apply(s) \/ Commit(s) \/ Abort(s)
        PROVE  AloneInv'
    BY <1>2, <2>3, AloneLoad, AloneApply, AloneEnds
  <2>4. CASE Next
    BY <2>1, <2>2, <2>3, <2>4 DEF Next
  <2>5. CASE UNCHANGED vars
    BY <1>2, <2>5
       DEF vars, AloneInv, LoneSync, Active, Chosen, RowChosen, Settled, Exists
  <2> QED  BY <1>2, <2>4, <2>5
<1> QED  BY <1>1, <1>2, SyncHolds, PTL DEF Spec

(* What a lone sync writes to a row it chose: what it leaves in its        *)
(* session.                                                                *)
LEMMA AloneWrites ==
  ASSUME NEW x \in SyncState, NEW n \in Name, NEW midway \in BOOLEAN,
         x.list[n] \in Version, row[x.target[n]] \in IndexRow,
         RowChosen(row, x, n), x.outcome[n] = "parsed" \/ x.outcome[n] = "failed"
  PROVE  /\ Written(x, n, midway).name = n
         /\ Written(x, n, midway).metadata_location = x.list[n]
         /\ Written(x, n, midway).properties.metadata_location = x.list[n]
         /\ Written(x, n, midway).properties.parse_error = (x.outcome[n] = "failed")
<1>1. x.loaded[n] \in IndexRow /\ x.loaded[n].name = n
  BY DEF SyncState, RowChosen
<1>2. /\ Upserted(x.loaded[n], x.list[n]) \in IndexRow
      /\ Upserted(x.loaded[n], x.list[n]).name = n
      /\ Upserted(x.loaded[n], x.list[n]).metadata_location = x.list[n]
      /\ Upserted(x.loaded[n], x.list[n]).properties.metadata_location = x.list[n]
  BY <1>1 DEF Upserted, IndexRow, Properties
<1>3. /\ Final(x, n) \in IndexRow
      /\ Final(x, n).name = n
      /\ Final(x, n).metadata_location = x.list[n]
      /\ Final(x, n).properties.metadata_location = x.list[n]
      /\ Final(x, n).properties.parse_error = (x.outcome[n] = "failed")
  BY <1>2 DEF Final, IndexRow, Properties
<1>4. CASE n \in x.fresh
  BY <1>3, <1>4 DEF Written
<1>5. CASE n \notin x.fresh
  <2>1. row[x.target[n]] = x.loaded[n]
    BY <1>5 DEF RowChosen
  <2>2. Written(x, n, midway).name = n
    BY <1>1, <1>5, <2>1 DEF Written, IndexRow
  <2>3. Written(x, n, midway).metadata_location = Final(x, n).metadata_location
    BY <1>1, <1>5, <2>1 DEF Written, IndexRow
  <2>4. Written(x, n, midway).properties = Final(x, n).properties
    BY <1>1, <1>5, <2>1 DEF Written, IndexRow
  <2> QED  BY <1>3, <2>2, <2>3, <2>4
<1> QED  BY <1>4, <1>5

(* The commit of a lone sync.                                              *)
LEMMA AloneCommit ==
  ASSUME SyncInv, AloneInv, NEW s \in Session, Commit(s), alone[s], NEW n \in Name
  PROVE  LET v == sync[s].list[n]
             r == sync[s].target[n]
         IN  IF v = 0 THEN \A z \in RowId : row'[z].name # n
             ELSE /\ row'[r].metadata_location = v
                  /\ row'[r].properties.metadata_location = v
                  /\ IF row'[r].properties.parse_error
                     THEN children'[r] = children[r]
                     ELSE children'[r] = Details(v)
<1> DEFINE x == sync[s]
           used == {x.target[m] : m \in Listed(s)}
           user(r) == CHOOSE m \in Listed(s) : x.target[m] = r
<1>1. PICK midway \in BOOLEAN :
        row' = [r \in RowId |-> IF r \in x.stale THEN NoIndexRow
                                ELSE IF r \in used THEN Written(x, user(r), midway)
                                ELSE row[r]]
  BY DEF Commit
<1>2. children' = [r \in RowId |->
                    IF r \in x.stale THEN {}
                    ELSE IF r \in used /\ x.outcome[user(r)] = "parsed"
                    THEN Remaining(x, r) \cup Details(x.list[user(r)])
                    ELSE children[r]]
  BY DEF Commit
<1>3. x \in SyncState /\ row \in [RowId -> IndexRow]
  BY DEF SyncInv, TypeOK
<1>4. /\ Chosen(row, x) /\ Settled(row, children, x)
      /\ ListedIn(x) = Listed(s)
  BY DEF Commit, Active, AloneInv, LoneSync, ListedIn, Listed
<1>5. ASSUME NEW m \in Listed(s)
      PROVE  /\ m \in Name /\ x.list[m] \in Version /\ RowChosen(row, x, m)
             /\ x.target[m] \in RowId /\ x.target[m] \notin x.stale
             /\ x.target[m] \in used /\ user(x.target[m]) = m
             /\ x.outcome[m] = "parsed" \/ x.outcome[m] = "failed"
  <2>1. m \in Name /\ x.list[m] # 0
    BY DEF Listed
  <2>2. x.list[m] \in 0..MaxVersion
    BY <1>3, <2>1 DEF SyncState
  <2>3. x.list[m] \in Version
    BY <2>1, <2>2, MetadataSyncAssumption DEF Version
  <2>4. RowChosen(row, x, m) /\ x.target[m] \in RowId
    BY <1>4 DEF Chosen, RowChosen
  <2>5. row[x.target[m]].name = m \/ row[x.target[m]].name = NoName
    BY <2>4 DEF RowChosen
  <2>6. x.target[m] \notin x.stale
    BY <1>4, <2>5 DEF Settled
  <2>7. x.target[m] \in used
    OBVIOUS
  <2>8. user(x.target[m]) \in Listed(s) /\ x.target[user(x.target[m])] = x.target[m]
    OBVIOUS
  <2>9. user(x.target[m]) = m
    <3> HIDE DEF user
    <3> QED  BY <1>4, <2>8 DEF Chosen
  <2>10. x.outcome[m] = "parsed" \/ x.outcome[m] = "failed"
    BY <1>4 DEF Settled
  <2> QED  BY <2>1, <2>3, <2>4, <2>6, <2>7, <2>9, <2>10
<1>6. \A r \in used : \E m \in Listed(s) : x.target[m] = r
  OBVIOUS
<1> HIDE DEF x, used, user
<1>7. ASSUME NEW m \in Listed(s)
      PROVE  /\ row'[x.target[m]] = Written(x, m, midway)
             /\ Written(x, m, midway).name = m
             /\ Written(x, m, midway).metadata_location = x.list[m]
             /\ Written(x, m, midway).properties.metadata_location = x.list[m]
             /\ Written(x, m, midway).properties.parse_error = (x.outcome[m] = "failed")
  BY <1>1, <1>3, <1>5, AloneWrites
<1>8. ASSUME n \in Listed(s)
      PROVE  IF x.outcome[n] = "failed" THEN children'[x.target[n]] = children[x.target[n]]
             ELSE children'[x.target[n]] = Details(x.list[n])
  <2>1. CASE x.outcome[n] = "failed"
    BY <1>2, <1>5, <1>8, <2>1
  <2>2. CASE x.outcome[n] = "parsed"
    <3>1. x.erased[x.target[n]] = children[x.target[n]]
      BY <1>4, <1>8, <2>2 DEF Settled
    <3>2. Remaining(x, x.target[n]) = {}
      BY <3>1 DEF Remaining
    <3> QED  BY <1>2, <1>5, <1>8, <2>2, <3>2
  <2> QED  BY <1>5, <1>8, <2>1, <2>2
<1>9. ASSUME n \notin Listed(s), NEW z \in RowId  PROVE row'[z].name # n
  <2>1. NoName # n
    BY MetadataSyncAssumption
  <2>2. CASE z \in x.stale
    BY <1>1, <2>1, <2>2 DEF NoIndexRow
  <2>3. CASE z \in used
    <3>1. PICK m \in Listed(s) : x.target[m] = z
      BY <1>6, <2>3
    <3> QED  BY <1>7, <1>9, <3>1
  <2>4. CASE z \notin x.stale /\ z \notin used
    <3>1. row'[z] = row[z]
      BY <1>1, <2>4
    <3>2. row[z].name = NoName \/ row[z].name \in Listed(s)
      BY <1>4, <2>4 DEF Settled
    <3> QED  BY <1>9, <2>1, <3>1, <3>2
  <2> QED  BY <2>2, <2>3, <2>4
<1>10. CASE x.list[n] = 0
  <2>1. n \notin Listed(s)
    BY <1>10 DEF Listed, x
  <2> QED  BY <1>9, <1>10, <2>1 DEF x
<1>11. CASE x.list[n] # 0
  <2>1. n \in Listed(s)
    BY <1>11 DEF Listed, x
  <2> QED  BY <1>7, <1>8, <1>11, <2>1 DEF x
<1> QED  BY <1>10, <1>11

(* A sync that nothing overlaps leaves every table it listed as it listed  *)
(* it, and no row of another, for any number of tables and versions.       *)
THEOREM AloneSyncsSettle == Spec => AloneSyncSettles
<1>1. SyncInv /\ AloneInv /\ [Next]_vars =>
        [\A s \in Session : Commit(s) /\ alone[s] =>
           \A n \in Name :
             LET v == sync[s].list[n]
                 r == sync[s].target[n]
             IN  IF v = 0 THEN \A z \in RowId : row'[z].name # n
                 ELSE /\ row'[r].metadata_location = v
                      /\ row'[r].properties.metadata_location = v
                      /\ IF row'[r].properties.parse_error
                         THEN children'[r] = children[r]
                         ELSE children'[r] = Details(v)]_vars
  BY AloneCommit
<1> QED  BY <1>1, SyncHolds, AloneHolds, PTL DEF Spec, AloneSyncSettles
-----------------------------------------------------------------------------
(* No sync leaves a table out.  The test of sync_source comes after the    *)
(* assignment that overwrites it (service.py:233-262), so it never holds,  *)
(* whatever a row held before and whether the sync is forced or not: every *)
(* table that is listed is parsed or fails.                                *)
ListedAreParsed ==
  \A s \in Session : sync[s].phase = "applied" =>
    \A n \in Listed(s) : sync[s].outcome[n] \in {"parsed", "failed"}

LEMMA ListedAreParsedStep ==
  ASSUME SyncInv, ListedAreParsed, Next
  PROVE  ListedAreParsed'
<1>1. sync \in [Session -> SyncState]
  BY DEF SyncInv, TypeOK
<1>2. ASSUME NEW s \in Session, \A z \in Session \ {s} : sync'[z] = sync[z],
             sync'[s].phase = "applied" =>
               \A n \in Listed(s)' :
                 sync'[s].outcome[n] \in {"parsed", "failed"}
      PROVE  ListedAreParsed'
  BY <1>2 DEF ListedAreParsed, Listed
<1>3. ASSUME NEW s \in Session, Apply(s)
      PROVE  ListedAreParsed'
  <2> DEFINE parsed(o) == {sync[s].target[n] :
                             n \in {m \in Listed(s) : o[m] = "parsed"}}
             stale == {r \in RowId : Exists(r) /\ row[r].name \notin Listed(s)}
             erased(o) == [r \in RowId |->
                IF r \in parsed(o) \cup stale THEN children[r] ELSE {}]
  <2>1. PICK outcome \in [Name -> Outcome] :
          /\ \A n \in Name : outcome[n] \in
               IF n \notin Listed(s) THEN {"unknown"}
               ELSE IF Skips(sync[s].force, sync[s].loaded[n], sync[s].list[n])
               THEN {"skipped"} ELSE {"parsed", "failed"}
          /\ sync' = [sync EXCEPT
               ![s].phase = "applied", ![s].outcome = outcome,
               ![s].stale = stale, ![s].erased = erased(outcome)]
    BY <1>3 DEF Apply
  <2> HIDE DEF parsed, stale, erased
  <2>2. /\ sync'[s].outcome = outcome /\ sync'[s].list = sync[s].list
        /\ \A z \in Session \ {s} : sync'[z] = sync[z]
    BY <1>1, <2>1 DEF SyncState
  <2>3. ASSUME NEW n \in Listed(s)
        PROVE  outcome[n] \in {"parsed", "failed"}
    <3>1. n \in Name /\ sync[s].loaded[n] \in IndexRow
      BY <1>1 DEF Listed, SyncState
    <3> QED  BY <2>1, <3>1, NothingSkips
  <2>4. Listed(s)' = Listed(s)
    BY <2>2 DEF Listed
  <2> QED  BY <1>2, <2>2, <2>3, <2>4
<1>4. ASSUME NEW s \in Session, sync'[s].phase # "applied",
             \A z \in Session \ {s} : sync'[z] = sync[z]
      PROVE  ListedAreParsed'
  BY <1>2, <1>4
<1>5. ASSUME NEW s \in Session, NEW force \in Forces, ListCatalog(s, force)
      PROVE  ListedAreParsed'
  BY <1>1, <1>4, <1>5 DEF ListCatalog, SyncState
<1>6. ASSUME NEW s \in Session, Load(s)
      PROVE  ListedAreParsed'
  <2>1. PICK target, fresh, loaded :
          sync' = [sync EXCEPT ![s].phase = "loaded", ![s].target = target,
                               ![s].fresh = fresh, ![s].loaded = loaded]
    BY <1>6 DEF Load
  <2> QED  BY <1>1, <1>4, <2>1 DEF SyncState
<1>7. ASSUME NEW s \in Session, Commit(s) \/ Abort(s)
      PROVE  ListedAreParsed'
  <2>1. CASE Abort(s)
    BY <1>1, <1>4, <2>1 DEF Abort, NoSync
  <2>2. CASE Commit(s)
    <3>1. /\ sync'[s].phase = "idle"
          /\ \A z \in Session \ {s} :
               /\ sync'[z].phase = sync[z].phase /\ sync'[z].list = sync[z].list
               /\ sync'[z].outcome = sync[z].outcome
      BY <1>1, <2>2, CommitEnds, CommitLeavesOthers DEF NoSync
    <3> QED  BY <3>1 DEF ListedAreParsed, Listed
  <2> QED  BY <1>7, <2>1, <2>2
<1>8. ASSUME NEW n \in Name, CommitTable(n) \/ DropTable(n)
      PROVE  ListedAreParsed'
  BY <1>8 DEF CommitTable, DropTable, ListedAreParsed, Listed
<1> QED  BY <1>3, <1>5, <1>6, <1>7, <1>8 DEF Next

THEOREM NothingIsSkipped == Spec => []ListedAreParsed
<1>1. Init => ListedAreParsed
  BY DEF Init, NoSync, ListedAreParsed
<1>2. ListedAreParsed /\ UNCHANGED vars => ListedAreParsed'
  BY DEF ListedAreParsed, Listed, vars
<1>3. SyncInv /\ ListedAreParsed /\ [Next]_vars => ListedAreParsed'
  BY <1>2, ListedAreParsedStep
<1> QED  BY <1>1, <1>3, SyncHolds, PTL DEF Spec
=============================================================================
