--------------------------- MODULE TableLifecycle ---------------------------
(***************************************************************************)
(* One table between its writers and the services that read its index:     *)
(* writers commit, name snapshots and expire them; a sync copies what it   *)
(* can read of the metadata into the index; layout, health and retention   *)
(* compute from the index. The writers are outside src/: they are modelled *)
(* as far as the reader and the advice depend on them.                     *)
(***************************************************************************)
EXTENDS LiveMetadata, Retention, LayoutAdvice

CONSTANTS
  MaxCommits, MaxDay,   \* bounds on the commits and the days
  MaxRefs, Named,       \* bound on the references beside main, and those
                        \* that writers may name
  OlderThan, RetainLast, \* days and numbers a user may ask for
  Owned, FormatVersion, \* owners given or not, and format versions
  MainAges,             \* may the main branch have a maximal age?
  None

ASSUME TableLifecycleAssumption ==
  /\ MaxCommits \in Nat /\ MaxDay \in Nat /\ MaxRefs \in Nat
  /\ OlderThan \subseteq Nat /\ RetainLast \subseteq Int
  /\ MainAges \subseteq BOOLEAN
  /\ Target \in Nat \ {0} /\ IsFiniteSet(File)
  /\ \A f \in File : /\ f.content \in {"DATA", "POSITION_DELETES"}
                     /\ f.size \in Nat /\ f.rows \in Nat

VARIABLES
  table,   \* the table as its metadata describe it
  index,   \* what the index holds of it, None before the first sync
  plan,    \* the last simulated expiry, None when there is none
  today,
  files,   \* history: the files of the table
  used,    \* history: the files ever written
  synced   \* history: did the last sync X

vars == <<table, index, plan, today, files, used, synced>>
history == <<files, used>>

SnapshotId == 1..MaxCommits
Day == 0..MaxDay
Request == [older_than : OlderThan, retain_last : RetainLast]

Main(s, aged) == [ref_type |-> "branch", snapshot |-> s, aged |-> aged]

NoTable ==
  [head |-> 0, snapshots |-> {}, day |-> [s \in SnapshotId |-> 0],
   manifests |-> [s \in SnapshotId |-> {}], refs |-> {}, main_ages |-> FALSE]

Init ==
  /\ \E ages \in MainAges : table = [NoTable EXCEPT !.main_ages = ages]
  /\ index = None /\ plan = None /\ today = 0
  /\ files = {} /\ used = {}
  /\ synced = [files |-> {}, whole |-> TRUE]

-----------------------------------------------------------------------------
(* Writers.                                                                *)

LastCommit == Cardinality({s \in SnapshotId : table.manifests[s] # {}})

(* A commit makes its snapshot the head of main.                           *)
Committed(manifests) ==
  LET s == LastCommit + 1
      main == Main(table.head, table.main_ages)
  IN [table EXCEPT
        !.head = s,
        !.snapshots = @ \cup {s},
        !.day[s] = today,
        !.manifests[s] = manifests,
        !.refs = (@ \ {main}) \cup {Main(s, table.main_ages)}]

Kept == IF table.head = 0 THEN {} ELSE table.manifests[table.head]

(* New data or delete files come in a manifest of their own.               *)
AppendFile(f) ==
  /\ LastCommit < MaxCommits /\ f \in File \ used
  /\ f.content # "DATA" => files # {}
  /\ table' = Committed(
       Kept \cup {[by |-> LastCommit + 1,
                   entries |-> {[file |-> f, entry_status |-> "ADDED"]}]})
  /\ files' = files \cup {f} /\ used' = used \cup {f}
  /\ UNCHANGED <<index, plan, today, synced>>

(* A compaction rewrites the manifests that name what it replaces: their   *)
(* other files exist on, the replaced ones are entries of status DELETED.  *)
Rewritten(old, m) ==
  [by |-> LastCommit + 1,
   entries |-> {[file |-> e.file,
                 entry_status |-> IF e.file \in old THEN "DELETED"
                                  ELSE "EXISTING"]
                  : e \in {e \in m.entries : e.entry_status # "DELETED"}}]

Compact(old, f) ==
  /\ LastCommit < MaxCommits /\ f \in File \ used /\ f.content = "DATA"
  /\ old # {} /\ \A o \in old : o.content = "DATA"
  /\ LET touched(m) == \E e \in m.entries :
                         e.file \in old /\ e.entry_status # "DELETED"
         live(m) == \E e \in m.entries : e.entry_status # "DELETED"
     IN table' = Committed(
          {IF touched(m) THEN Rewritten(old, m) ELSE m
             : m \in {m \in Kept : live(m)}}
          \cup {[by |-> LastCommit + 1,
                 entries |-> {[file |-> f, entry_status |-> "ADDED"]}]})
  /\ files' = (files \ old) \cup {f} /\ used' = used \cup {f}
  /\ UNCHANGED <<index, plan, today, synced>>

(* Tags and branches without a maximal age, beside main.                   *)
NameSnapshot(r) ==
  /\ r.snapshot \in table.snapshots /\ r \notin table.refs
  /\ r \in Named /\ ~r.aged
  /\ Cardinality(table.refs) <= MaxRefs
  /\ table' = [table EXCEPT !.refs = @ \cup {r}]
  /\ UNCHANGED <<index, plan, today, history, synced>>

DropRef(r) ==
  /\ r \in table.refs /\ r # Main(table.head, table.main_ages)
  /\ table' = [table EXCEPT !.refs = @ \ {r}]
  /\ UNCHANGED <<index, plan, today, history, synced>>

(* An engine applies a simulated expiry; it refuses snapshots that a       *)
(* reference names.                                                        *)
Expire ==
  /\ plan # None
  /\ table' = [table EXCEPT
       !.snapshots = @ \ (plan.expiring \ {r.snapshot : r \in table.refs})]
  /\ plan' = None
  /\ UNCHANGED <<index, today, history, synced>>

NextDay ==
  /\ today < MaxDay
  /\ today' = today + 1
  /\ UNCHANGED <<table, index, plan, history, synced>>

-----------------------------------------------------------------------------
(* The service.                                                            *)

Partial == [files |-> {}, whole |-> FALSE]

(* A sync that could parse the table: the manifest list may be unreadable, *)
(* or one manifest of it.                                                  *)
Sync(listed, lost) ==
  /\ Cardinality(lost) <= 1 /\ (~listed => table.head # 0 /\ lost = {})
  /\ index' = Indexed(table, listed, lost)
  /\ synced' = IF listed /\ lost = {} THEN [files |-> files, whole |-> TRUE]
                ELSE Partial
  /\ UNCHANGED <<table, plan, today, history>>

(* A sync that could not: the row keeps its details and is marked.         *)
SyncFails ==
  /\ index' = [(IF index = None THEN NewRow ELSE index) EXCEPT
                 !.marks = @ \cup {"metadata_parse_error"}]
  /\ synced' = Partial
  /\ UNCHANGED <<table, plan, today, history>>

(* A user simulates an expiry and keeps what it found, to apply it later;  *)
(* seen is history.                                                        *)
SimulateRetention(q) ==
  /\ index # None
  /\ SimulateExpire(index, q).expiring # {}
  /\ plan' = [request |-> q, seen |-> index.snapshots,
              expiring |-> SimulateExpire(index, q).expiring]
  /\ UNCHANGED <<table, index, today, history, synced>>

Next ==
  \/ \E f \in File : AppendFile(f)
  \/ \E old \in SUBSET files, f \in File : Compact(old, f)
  \/ \E r \in Ref(table.snapshots) : NameSnapshot(r)
  \/ \E r \in table.refs : DropRef(r)
  \/ Expire
  \/ NextDay
  \/ \E listed \in BOOLEAN, lost \in SUBSET Kept : Sync(listed, lost)
  \/ SyncFails
  \/ \E q \in Request : SimulateRetention(q)

Spec == Init /\ [][Next]_vars

-----------------------------------------------------------------------------
Metric ==
  [file_count : Nat, data_size : Nat, record_count : Nat,
   delete_file_count : Nat, snapshot_count : Nat, manifest_count : Nat,
   small : Nat]

TypeOfTable ==
  /\ table.head \in SnapshotId \cup {0}
  /\ table.snapshots \subseteq SnapshotId
  /\ table.day \in [SnapshotId -> Day]
  /\ \A s \in SnapshotId : table.manifests[s] \subseteq Manifest(SnapshotId)
  /\ table.refs \subseteq Ref(SnapshotId)
  /\ table.main_ages \in BOOLEAN

TypeOfIndex ==
  /\ index.metrics \in Metric
  /\ index.metrics.small <= index.metrics.file_count
  /\ index.snapshots \subseteq SnapshotId
  /\ index.day \in [index.snapshots -> Day]
  /\ \A r \in index.refs : r.snapshot \in SnapshotId
  /\ index.marks \subseteq {"parse_errors", "metadata_parse_error"}

(* Every variable has its type, and small files are data files (the count  *)
(* behind small_file_ratio, live_metadata.py:646-648).                     *)
TypeOK ==
  /\ TypeOfTable
  /\ index # None => TypeOfIndex
  /\ plan # None => plan.expiring \subseteq SnapshotId
  /\ today \in Day /\ files \subseteq used /\ used \subseteq File

(* The metrics and partition summaries of a set of files.                  *)
Counted(fs) ==
  LET data == {f \in fs : f.content = "DATA"} IN
  [file_count |-> Cardinality(data),
   data_size |-> SumFunction([f \in data |-> f.size]),
   record_count |-> SumFunction([f \in data |-> f.rows]),
   delete_file_count |-> Cardinality(fs \ data)]

SummedUp(partitions) ==
  [file_count |-> SumFunction([p \in partitions |-> p.file_count]),
   data_size |-> SumFunction([p \in partitions |-> p.total_size]),
   record_count |-> SumFunction([p \in partitions |-> p.record_count]),
   delete_file_count |->
     SumFunction([p \in partitions |-> p.delete_file_count])]

Shown(m) ==
  [file_count |-> m.file_count, data_size |-> m.data_size,
   record_count |-> m.record_count, delete_file_count |-> m.delete_file_count]

(* An index row without a mark counts exactly the files the table held     *)
(* when it was synced, although manifests are rewritten and list removed   *)
(* files; its partition summaries add up to its metrics; and it bears a    *)
(* mark exactly when the last sync could not read everything               *)
(* (live_metadata.py:204-248, iceberg/service.py:705-711).                 *)
IndexIsOneSnapshot ==
  index # None =>
    /\ SummedUp(index.partitions) = Shown(index.metrics)
    /\ index.marks = {} <=> synced.whole
    /\ synced.whole => Shown(index.metrics) = Counted(synced.files)

(* A simulated expiry is the whole of it: once applied, the same request   *)
(* finds nothing more, what remains and the earliest time travel are as    *)
(* shown, and the newest snapshots asked for survive                       *)
(* (retention/service.py:48-79). A negative retain_last keeps all but the  *)
(* oldest, and finds another one each time.                                *)
ExpiryKeepsItsPromise ==
  index # None =>
    \A q \in Request : q.retain_last >= 0 => ExpiryIsWhole(index, q)

(* A simulation may be applied later: whatever writers committed and       *)
(* named since, each snapshot of it that no tag and no protected branch    *)
(* holds now would still be found by the same request on a fresh index     *)
(* (retention/service.py:48-72). That is so while the snapshots the index  *)
(* showed are all there: when the index missed an expiry, fewer of them    *)
(* are newer than one it would expire, and a fresh index retains that one. *)
PlanStaysValid ==
  plan # None /\ plan.seen \subseteq table.snapshots =>
    LET fresh == Indexed(table, TRUE, {}) IN
    plan.expiring \ Protected(fresh)
      \subseteq SimulateExpire(fresh, plan.request).expiring

(* What may get worse about a table.                                       *)
Worse(m) ==
  {[m EXCEPT !.small = Least(@ + 1, m.file_count)],
   [m EXCEPT !.delete_file_count = @ + 1],
   [m EXCEPT !.manifest_count = @ + 105],
   [m EXCEPT !.snapshot_count = @ + 55],
   [m EXCEPT !.manifest_count = @ + 610, !.snapshot_count = @ + 460]}

(* Health follows the metrics: the score stays within 0 and 100, more      *)
(* small files, delete files, manifests or snapshots never raise it, and   *)
(* never take back a recommended operation (health/service.py:33-66).      *)
HealthFollowsMetrics ==
  index # None =>
    \A owned \in Owned, v \in FormatVersion :
      LET before == HealthScore(index.metrics, owned, v, 0)
          advised == Recommended(index.metrics, v)
      IN /\ before <= 100
         /\ \A m \in Worse(index.metrics) :
              /\ HealthScore(m, owned, v, 0) \in 0..before
              /\ advised \subseteq Recommended(m, v)

(* For all bounded metrics, and for those of the index, what-if            *)
(* projections stay in range and follow their target, and clustering       *)
(* advice says what the profile would show once it is applied              *)
(* (layout/whatif_service.py, advisor/service.py, tuning/service.py).      *)
AdviceIsConsistent ==
  index # None =>
    /\ AdviceHoldsOnShape
    /\ \/ [file_count |-> index.metrics.file_count,
           small |-> index.metrics.small,
           data_size |-> index.metrics.data_size] \in Shape
       \/ AdviceHolds(index.metrics)
=============================================================================
