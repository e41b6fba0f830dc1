-------------------------- MODULE OperationProofs ---------------------------
(***************************************************************************)
(* What reaches the queue and who decided it, for every registry of        *)
(* operations and every number of requests, threads, tables and backends.  *)
(* The invariant of the requests says what a thread may rely on between    *)
(* its first read and its commit: a stored request never changes, except   *)
(* that it may lose its table. Two reviewers may both load a pending       *)
(* approval and both commit; the row that is left is still one decision,   *)
(* because a handler that loaded a pending row writes both columns.        *)
(***************************************************************************)
EXTENDS ControlPlaneProofs

(* The engines that fit a request.                                         *)
FittingEngines(r) ==
  IF RequiresCompute(DescriptorOf(r))
  THEN {"spark", "trino"} ELSE {"internal_worker"}

(* What an execute handler found is still true when it commits, although   *)
(* everything it read may have changed; only the table may be gone, and    *)
(* then the request names none.                                            *)
HandlerHolds(x) ==
  /\ request[x.request].present
  /\ request[x.request].blocked = {}
  /\ "idempotent_retry" \in DescriptorOf(x.request).gates => x.key # NoKey
  /\ x.engine \in FittingEngines(x.request)
  /\ request[x.request].table \in {x.table, NoTable}

HandlersHold ==
  \A s \in Session :
    executing[s].request # NoRequest => HandlerHolds(executing[s])

(* What is true of a one-off job and its request for ever.                 *)
JobFits(j, r) ==
  /\ request[r].present
  /\ request[r].blocked = {}
  /\ ~DescriptorOf(r).approval_required
  /\ "idempotent_retry" \in DescriptorOf(r).gates => requested[j] # NoKey
  /\ run[j].engine \in FittingEngines(r)
  /\ DescriptorOf(r).restore_point_required /\ request[r].table # NoTable
       => /\ run[j].restore
          /\ \E p \in restore :
               p.job = j /\ p.request = r /\ p.table = request[r].table

OneOffsFit ==
  \A j \in JobId : OneOff(j) =>
    job[j].request \in RequestId /\ JobFits(j, job[j].request)

OperationInv == HandlersHold /\ OneOffsFit /\ NoDanglingTable

LEMMA InitOperationInv == Init => OperationInv
<1> SUFFICES ASSUME Init PROVE OperationInv
  OBVIOUS
<1>1. \A j \in JobId : ~OneOff(j)
  BY DEF Init, JobStoreInit, OneOff
<1>2. \A s \in Session : executing[s].request = NoRequest
  BY DEF Init, OperationsInit, NoExecution
<1>3. NoDanglingTable
  BY DEF Init, OperationsInit, NoDanglingTable
<1> QED
  BY <1>1, <1>2, <1>3 DEF OperationInv, HandlersHold, OneOffsFit

-----------------------------------------------------------------------------
(* A stored request keeps everything but its table.                        *)
RequestsKept ==
  \A r \in RequestId : request[r].present =>
    /\ request'[r].present
    /\ request'[r].operation = request[r].operation
    /\ request'[r].blocked = request[r].blocked
    /\ request'[r].pending = request[r].pending
    /\ request'[r].table \in {request[r].table, NoTable}

LEMMA StepKeepsRequests ==
  ASSUME TypeOK, [Next]_vars
  PROVE  RequestsKept
<1>1. request \in [RequestId -> Request]
  BY DEF TypeOK, OperationsTypeOK
<1>2. ASSUME NEW r \in RequestId, NEW o \in OperationId,
             NEW t \in Table \cup {NoTable}, NEW given \in R!TargetVersion,
             NEW foreign \in BOOLEAN, DryRun(r, o, t, given, foreign)
      PROVE  RequestsKept
  BY <1>1, <1>2 DEF DryRun, RequestsKept
<1>3. ASSUME NEW t \in Table, RemoveTableWithConnection(t)
      PROVE  RequestsKept
  BY <1>1, <1>3 DEF RemoveTableWithConnection, RequestsKept, Request
<1>4. CASE UNCHANGED request
  BY <1>4 DEF RequestsKept
<1>5. ASSUME SurroundingsStep
      PROVE  RequestsKept
  BY <1>3, <1>4, <1>5
  DEF SurroundingsStep, Sync, RemoveStaleTable, CreateBackend,
      UpdateBackend, DeleteBackend, BackendUnchanged, opVars
<1>6. ASSUME NEW s \in Session, NEW r \in RequestId,
             NEW confirmed \in BOOLEAN, NEW key \in Key \cup {NoKey},
             ExecuteBegin(s, r, confirmed, key)
      PROVE  RequestsKept
  BY <1>4, <1>6 DEF ExecuteBegin
<1>7. ASSUME NEW s \in Session, NEW a \in ApprovalId, NEW user \in User,
             NEW decision \in {"approved", "rejected"},
             DecideBegin(s, a, decision, user)
      PROVE  RequestsKept
  BY <1>4, <1>7 DEF DecideBegin
<1>8. ASSUME NEW s \in Session,
             Finish(s) \/ ExecuteAbort(s) \/ DecideAbort(s)
      PROVE  RequestsKept
  BY <1>4, <1>8
  DEF Finish, RequestApproval, QueueJob, DecideCommit, ExecuteAbort,
      DecideAbort
<1>9. CASE OperationsStep
  BY <1>2, <1>6, <1>7, <1>8, <1>9 DEF OperationsStep
<1>10. CASE CancelStep \/ WapStep \/ UNCHANGED vars
  BY <1>4, <1>10 DEF CancelStep, WapStep, vars, opVars
<1> QED
  BY <1>5, <1>9, <1>10 DEF Next

(* A queued one-off job keeps its request, its key and the engine and the  *)
(* restore point of its run; a new one comes from a thread that commits.   *)
OneOffsKept ==
  \A j \in JobId :
    /\ OneOff(j) =>
         /\ job'[j].kind = "oneoff"
         /\ job'[j].request = job[j].request
         /\ requested'[j] = requested[j]
         /\ run'[j].engine = run[j].engine
         /\ run'[j].restore = run[j].restore
    /\ OneOff(j)' => OneOff(j) \/ \E s \in Session : QueueJob(s, j)

LEMMA StepKeepsOneOffs ==
  ASSUME TypeOK, [Next]_vars
  PROVE  OneOffsKept
<1>1. /\ job \in [JobId -> Job] /\ run \in [JobId -> Run]
      /\ cancelling \in [Session -> JobId \cup {NoJob}]
      /\ requested \in [JobId -> Key \cup {NoKey}]
  BY DEF TypeOK, OperationsTypeOK, JobStoreTypeOK
<1>2. CASE UNCHANGED <<job, run, requested>>
  BY <1>2 DEF OneOffsKept, OneOff
<1>3. ASSUME NEW s \in Session, NEW i \in JobId, QueueJob(s, i)
      PROVE  OneOffsKept
  BY <1>1, <1>3 DEF QueueJob, InsertJob, Exists, OneOffsKept, OneOff
<1>4. ASSUME NEW s \in Session, NEW i \in JobId, WapCommit(s, i),
             UNCHANGED opVars
      PROVE  OneOffsKept
  BY <1>1, <1>4
  DEF WapCommit, InsertJob, Exists, OneOffsKept, OneOff, opVars
<1>5. ASSUME NEW s \in Session, CancelCommit(s), UNCHANGED opVars
      PROVE  OneOffsKept
  <2>1. PICK c \in JobId : c = cancelling[s]
    BY <1>1, <1>5 DEF CancelCommit
  <2>2. /\ job'[c].kind = job[c].kind /\ job'[c].request = job[c].request
        /\ run'[c].engine = run[c].engine
        /\ run'[c].restore = run[c].restore
        /\ \A i \in JobId \ {c} : job'[i] = job[i] /\ run'[i] = run[i]
    BY <1>1, <1>5, <2>1 DEF CancelCommit, Job, Run
  <2> QED
    BY <1>5, <2>2 DEF OneOffsKept, OneOff, opVars
<1>6. ASSUME NEW s \in Session, NEW r \in RequestId,
             NEW confirmed \in BOOLEAN, NEW key \in Key \cup {NoKey},
             ExecuteBegin(s, r, confirmed, key)
      PROVE  OneOffsKept
  BY <1>2, <1>6 DEF ExecuteBegin, jobVars
<1>7. ASSUME NEW s \in Session, NEW a \in ApprovalId, NEW user \in User,
             NEW decision \in {"approved", "rejected"},
             DecideBegin(s, a, decision, user)
      PROVE  OneOffsKept
  BY <1>2, <1>7 DEF DecideBegin, jobVars
<1>8. ASSUME NEW s \in Session,
             Finish(s) \/ ExecuteAbort(s) \/ DecideAbort(s)
      PROVE  OneOffsKept
  BY <1>2, <1>3, <1>8
  DEF Finish, RequestApproval, DecideCommit, ExecuteAbort, DecideAbort,
      jobVars
<1>9. ASSUME NEW r \in RequestId, NEW o \in OperationId,
             NEW t \in Table \cup {NoTable}, NEW given \in R!TargetVersion,
             NEW foreign \in BOOLEAN, DryRun(r, o, t, given, foreign)
      PROVE  OneOffsKept
  BY <1>2, <1>9 DEF DryRun, jobVars
<1>10. CASE OperationsStep
  BY <1>6, <1>7, <1>8, <1>9, <1>10 DEF OperationsStep
<1>11. CASE SurroundingsStep
  BY <1>2, <1>11
  DEF SurroundingsStep, Sync, RemoveTableWithConnection, RemoveStaleTable,
      CreateBackend, UpdateBackend, DeleteBackend, BackendUnchanged, opVars,
      jobVars
<1>12. CASE CancelStep
  BY <1>2, <1>5, <1>12
  DEF CancelStep, CancelBegin, CancelAbort, opVars
<1>13. CASE WapStep
  BY <1>2, <1>4, <1>13 DEF WapStep, WapBegin, WapAudit, WapAbort, opVars
<1>14. CASE UNCHANGED vars
  BY <1>2, <1>14 DEF vars, opVars
<1> QED
  BY <1>10, <1>11, <1>12, <1>13, <1>14 DEF Next

(* A thread that is executing keeps what it read, or starts anew.          *)
LEMMA StepKeepsHandlers ==
  ASSUME TypeOK, [Next]_vars, NEW s \in Session
  PROVE  \/ executing'[s] = executing[s]
         \/ executing'[s] = NoExecution
         \/ \E r \in RequestId, confirmed \in BOOLEAN,
               key \in Key \cup {NoKey} : ExecuteBegin(s, r, confirmed, key)
<1>1. executing \in [Session -> Execution]
  BY DEF TypeOK, OperationsTypeOK
<1>2. CASE UNCHANGED executing
  BY <1>2
<1>3. ASSUME NEW i \in Session, NEW r \in RequestId,
             NEW confirmed \in BOOLEAN, NEW key \in Key \cup {NoKey},
             ExecuteBegin(i, r, confirmed, key), i # s
      PROVE  executing'[s] = executing[s]
  BY <1>1, <1>3 DEF ExecuteBegin
<1>4. ASSUME NEW i \in Session, Finish(i) \/ ExecuteAbort(i) \/ DecideAbort(i)
      PROVE  executing'[s] \in {executing[s], NoExecution}
  BY <1>1, <1>4
  DEF Finish, RequestApproval, QueueJob, DecideCommit, ExecuteAbort,
      DecideAbort
<1>5. CASE OperationsStep
  <2>1. ASSUME NEW r \in RequestId, NEW o \in OperationId,
               NEW t \in Table \cup {NoTable}, NEW given \in R!TargetVersion,
               NEW foreign \in BOOLEAN, DryRun(r, o, t, given, foreign)
        PROVE  UNCHANGED executing
    BY <2>1 DEF DryRun
  <2>2. ASSUME NEW i \in Session, NEW a \in ApprovalId, NEW user \in User,
               NEW decision \in {"approved", "rejected"},
               DecideBegin(i, a, decision, user)
        PROVE  UNCHANGED executing
    BY <2>2 DEF DecideBegin
  <2> QED
    BY <1>2, <1>3, <1>4, <1>5, <2>1, <2>2 DEF OperationsStep
<1>6. CASE SurroundingsStep \/ CancelStep \/ WapStep \/ UNCHANGED vars
  BY <1>2, <1>6
  DEF SurroundingsStep, Sync, RemoveTableWithConnection, RemoveStaleTable,
      CreateBackend, UpdateBackend, DeleteBackend, BackendUnchanged,
      CancelStep, WapStep, vars, opVars
<1> QED
  BY <1>5, <1>6 DEF Next

(* A restore point stays, or no request names its table any more.          *)
RestorePointsKept ==
  \A p \in restore :
    p \in restore' \/ \A r \in RequestId : request'[r].table # p.table

LEMMA StepKeepsRestorePoints ==
  ASSUME TypeOK, [Next]_vars
  PROVE  RestorePointsKept
<1>1. CASE restore \subseteq restore'
  BY <1>1 DEF RestorePointsKept
<1>2. ASSUME NEW t \in Table, RemoveTableWithConnection(t)
      PROVE  RestorePointsKept
  <2>1. request \in [RequestId -> Request] /\ restore \subseteq RestorePoint
    BY DEF TypeOK, OperationsTypeOK
  <2>2. \A r \in RequestId : request'[r].table # t
    BY <1>2, <2>1, OperationsAssumption
    DEF RemoveTableWithConnection, Request
  <2> QED
    BY <1>2, <2>2 DEF RemoveTableWithConnection, RestorePointsKept
<1>3. ASSUME NEW s \in Session,
             Finish(s) \/ ExecuteAbort(s) \/ DecideAbort(s)
      PROVE  restore \subseteq restore'
  BY <1>3
  DEF Finish, RequestApproval, QueueJob, DecideCommit, ExecuteAbort,
      DecideAbort
<1>4. CASE OperationsStep
  BY <1>1, <1>3, <1>4 DEF OperationsStep, DryRun, ExecuteBegin, DecideBegin
<1>5. CASE SurroundingsStep
  BY <1>1, <1>2, <1>5
  DEF SurroundingsStep, Sync, RemoveStaleTable, CreateBackend,
      UpdateBackend, DeleteBackend, BackendUnchanged, opVars
<1>6. CASE CancelStep \/ WapStep \/ UNCHANGED vars
  BY <1>1, <1>6 DEF CancelStep, WapStep, vars, opVars
<1> QED
  BY <1>4, <1>5, <1>6 DEF Next

LEMMA NoDanglingStep ==
  ASSUME TypeOK, NoDanglingTable, [Next]_vars
  PROVE  NoDanglingTable'
<1>1. /\ request \in [RequestId -> Request] /\ restore \subseteq RestorePoint
      /\ table \in [Table -> TableRow]
  BY DEF TypeOK, OperationsTypeOK, TableIndexTypeOK
<1>2. CASE UNCHANGED <<table, request, restore>>
  BY <1>2 DEF NoDanglingTable
<1>3. ASSUME NEW r \in RequestId, NEW o \in OperationId,
             NEW t \in Table \cup {NoTable}, NEW given \in R!TargetVersion,
             NEW foreign \in BOOLEAN, DryRun(r, o, t, given, foreign)
      PROVE  NoDanglingTable'
  BY <1>1, <1>3 DEF DryRun, NoDanglingTable
<1>4. ASSUME NEW s \in Session, NEW j \in JobId, QueueJob(s, j)
      PROVE  NoDanglingTable'
  BY <1>1, <1>4 DEF QueueJob, NoDanglingTable
<1>5. ASSUME NEW t \in Table, Sync(t)
      PROVE  NoDanglingTable'
  <2>1. PICK row \in SyncedRow : table' = [table EXCEPT ![t] = row]
    BY <1>5 DEF Sync, SyncTable
  <2>2. \A u \in Table : table[u].present => table'[u].present
    BY <1>1, <2>1, TableIndexAssumption
  <2>3. UNCHANGED <<request, restore>>
    BY <1>5 DEF Sync, opVars
  <2> QED
    BY <1>1, <2>2, <2>3 DEF NoDanglingTable, Request, RestorePoint
<1>6. ASSUME NEW t \in Table, RemoveTableWithConnection(t)
      PROVE  NoDanglingTable'
  <2>1. \A u \in Table \ {t} : table'[u] = table[u]
    BY <1>1, <1>6 DEF RemoveTableWithConnection, RemoveTable
  <2>2. \A r \in RequestId :
          request'[r].table # NoTable =>
            /\ request'[r].table \in Table \ {t}
            /\ request'[r].table = request[r].table
    BY <1>1, <1>6 DEF RemoveTableWithConnection, Request
  <2>3. \A p \in restore' : p \in restore /\ p.table \in Table \ {t}
    BY <1>1, <1>6 DEF RemoveTableWithConnection, RestorePoint
  <2> QED
    BY <2>1, <2>2, <2>3 DEF NoDanglingTable
<1>7. ASSUME NEW t \in Table, RemoveStaleTable(t)
      PROVE  NoDanglingTable'
  <2>1. \A u \in Table \ {t} : table'[u] = table[u]
    BY <1>1, <1>7 DEF RemoveStaleTable, RemoveTable
  <2>2. UNCHANGED <<request, restore>>
    BY <1>7 DEF RemoveStaleTable, opVars
  <2> QED
    BY <1>1, <1>7, <2>1, <2>2
    DEF RemoveStaleTable, NoDanglingTable, Request, RestorePoint
<1>8. ASSUME NEW s \in Session,
             Finish(s) \/ ExecuteAbort(s) \/ DecideAbort(s)
      PROVE  NoDanglingTable'
  BY <1>2, <1>4, <1>8
  DEF Finish, RequestApproval, DecideCommit, ExecuteAbort, DecideAbort
<1>9. CASE OperationsStep
  BY <1>2, <1>3, <1>8, <1>9 DEF OperationsStep, ExecuteBegin, DecideBegin
<1>10. CASE SurroundingsStep
  BY <1>2, <1>5, <1>6, <1>7, <1>10
  DEF SurroundingsStep, CreateBackend, UpdateBackend, DeleteBackend,
      BackendUnchanged
<1>11. CASE CancelStep \/ UNCHANGED vars
  BY <1>2, <1>11 DEF CancelStep, vars, opVars
<1>12. CASE WapStep
  BY <1>2, <1>12
  DEF WapStep, WapBegin, WapAudit, WapCommit, WapAbort, opVars
<1> QED
  BY <1>9, <1>10, <1>11, <1>12 DEF Next

LEMMA HandlersHoldStep ==
  ASSUME TypeOK, OperationInv, [Next]_vars
  PROVE  HandlersHold'
<1> SUFFICES ASSUME NEW s \in Session, executing'[s].request # NoRequest
             PROVE  HandlerHolds(executing[s])'
  BY DEF HandlersHold
<1>1. executing[s] \in Execution /\ executing'[s] \in Execution
  BY NextTypes DEF TypeOK, OperationsTypeOK
<1>2. CASE executing'[s] = executing[s]
  <2>1. HandlerHolds(executing[s])
    BY <1>2 DEF OperationInv, HandlersHold
  <2>2. executing[s].request \in RequestId
    BY <1>1, <1>2 DEF Execution
  <2> QED
    BY <1>2, <2>1, <2>2, StepKeepsRequests
    DEF HandlerHolds, RequestsKept, FittingEngines, DescriptorOf
<1>3. ASSUME NEW r \in RequestId, NEW confirmed \in BOOLEAN,
             NEW key \in Key \cup {NoKey},
             ExecuteBegin(s, r, confirmed, key)
      PROVE  HandlerHolds(executing[s])'
  <2>1. PICK engine \in Runtime(r) :
          executing'[s] = [request |-> r, table |-> request[r].table,
                           engine |-> engine, key |-> key]
    BY <1>3 DEF ExecuteBegin, TypeOK, OperationsTypeOK
  <2>2. UNCHANGED request /\ Cleared(r, confirmed, key)
    BY <1>3 DEF ExecuteBegin
  <2>3. engine \in FittingEngines(r)
    BY RuntimeTypes DEF FittingEngines
  <2> QED
    BY <2>1, <2>2, <2>3
    DEF HandlerHolds, Cleared, FittingEngines, DescriptorOf
<1>4. executing'[s] # NoExecution
  BY DEF NoExecution
<1> QED
  BY <1>2, <1>3, <1>4, StepKeepsHandlers

(* A new job is as its handler found its request.                          *)
LEMMA QueuedJobFits ==
  ASSUME TypeOK, OperationInv, NEW s \in Session, NEW j \in JobId,
         QueueJob(s, j)
  PROVE  \E r \in RequestId : job'[j].request = r /\ JobFits(j, r)'
<1> DEFINE x == executing[s]
<1>1. PICK r \in RequestId : r = x.request
  BY DEF TypeOK, OperationsTypeOK, Execution, QueueJob
<1>2. HandlerHolds(x)
  BY <1>1 DEF OperationInv, HandlersHold, QueueJob
<1>3. /\ job'[j].request = r
      /\ requested'[j] = x.key
      /\ run'[j].engine = x.engine
      /\ run'[j].restore = NeedsRestorePoint(x)
  BY <1>1 DEF QueueJob, InsertJob, TypeOK, OperationsTypeOK, JobStoreTypeOK
<1>4. NeedsRestorePoint(x) =>
        [table |-> x.table, request |-> r, job |-> j] \in restore'
  BY <1>1 DEF QueueJob
<1>5. ASSUME DescriptorOf(r).restore_point_required,
             request[r].table # NoTable
      PROVE  NeedsRestorePoint(x) /\ request[r].table = x.table
  BY <1>1, <1>2, <1>5 DEF HandlerHolds, NeedsRestorePoint
<1>6. UNCHANGED request /\ ~DescriptorOf(r).approval_required
  BY <1>1 DEF QueueJob, NeedsApproval
<1>7. ASSUME DescriptorOf(r).restore_point_required,
             request[r].table # NoTable
      PROVE  /\ run'[j].restore
             /\ \E p \in restore' : /\ p.job = j /\ p.request = r
                                    /\ p.table = request[r].table
  BY <1>3, <1>4, <1>5, <1>7
<1>8. JobFits(j, r)'
  BY <1>1, <1>2, <1>3, <1>6, <1>7
  DEF HandlerHolds, JobFits, DescriptorOf, FittingEngines
<1> QED
  BY <1>3, <1>8

LEMMA OneOffsFitStep ==
  ASSUME TypeOK, OperationInv, [Next]_vars
  PROVE  OneOffsFit'
<1> SUFFICES ASSUME NEW j \in JobId, OneOff(j)'
             PROVE  \E r \in RequestId : job'[j].request = r /\ JobFits(j, r)'
  BY DEF OneOffsFit
<1>1. CASE OneOff(j)
  <2>1. PICK r \in RequestId : r = job[j].request /\ JobFits(j, r)
    BY <1>1 DEF OperationInv, OneOffsFit
  <2>2. /\ job'[j].request = r /\ requested'[j] = requested[j]
        /\ run'[j].engine = run[j].engine
        /\ run'[j].restore = run[j].restore
    BY <1>1, <2>1, StepKeepsOneOffs DEF OneOffsKept
  <2>3. /\ request'[r].present /\ request'[r].blocked = {}
        /\ request'[r].operation = request[r].operation
        /\ request'[r].table \in {request[r].table, NoTable}
    BY <2>1, StepKeepsRequests DEF RequestsKept, JobFits
  <2>4. ASSUME DescriptorOf(r).restore_point_required,
               request'[r].table # NoTable
        PROVE  /\ run[j].restore
               /\ \E p \in restore' : /\ p.job = j /\ p.request = r
                                      /\ p.table = request'[r].table
    BY <2>1, <2>3, <2>4, StepKeepsRestorePoints
    DEF RestorePointsKept, JobFits
  <2>5. JobFits(j, r)'
    BY <2>1, <2>2, <2>3, <2>4 DEF JobFits, DescriptorOf, FittingEngines
  <2> QED
    BY <2>2, <2>5
<1>2. CASE \E s \in Session : QueueJob(s, j)
  BY <1>2, QueuedJobFits
<1> QED
  BY <1>1, <1>2, StepKeepsOneOffs DEF OneOffsKept

LEMMA OperationInvariant == Spec => [](TypeOK /\ OperationInv)
<1>1. Init => TypeOK /\ OperationInv
  BY InitTypes, InitOperationInv
<1>2. TypeOK /\ OperationInv /\ [Next]_vars => (TypeOK /\ OperationInv)'
  <2> SUFFICES ASSUME TypeOK, OperationInv, [Next]_vars
               PROVE  (TypeOK /\ OperationInv)'
    OBVIOUS
  <2>1. HandlersHold'
    BY HandlersHoldStep
  <2>2. NoDanglingTable'
    BY NoDanglingStep DEF OperationInv
  <2> QED
    BY <2>1, <2>2, NextTypes, OneOffsFitStep DEF OperationInv
<1> QED
  BY <1>1, <1>2, PTL DEF Spec

(* Whatever the registry says of an operation, a job is only ever queued   *)
(* for a stored request that no gate blocks, whose descriptor asks for no  *)
(* approval, and with a key where the descriptor demands one.              *)
THEOREM QueuedWorkIsCleared == Spec => []OnlyClearedWorkIsQueued
<1>1. OperationInv => OnlyClearedWorkIsQueued
  BY DEF OperationInv, OneOffsFit, JobFits, FittingEngines,
         OnlyClearedWorkIsQueued
<1> QED
  BY <1>1, OperationInvariant, PTL

(* The engine of a queued run fits the operation, however the compute      *)
(* backends were created, changed and deleted while it was executed.       *)
THEOREM QueuedEngineFits == Spec => []EngineFitsOperation
<1>1. OperationInv => EngineFitsOperation
  BY DEF OperationInv, OneOffsFit, JobFits, FittingEngines,
         EngineFitsOperation
<1> QED
  BY <1>1, OperationInvariant, PTL

(* A job that needs a restore point has it for as long as its request has  *)
(* a table: the removal of a table takes both away in one transaction.     *)
THEOREM RestorePointAlwaysHeld == Spec => []RestorePointHeld
<1>1. OperationInv => RestorePointHeld
  BY DEF OperationInv, OneOffsFit, JobFits, FittingEngines,
         RestorePointHeld
<1> QED
  BY <1>1, OperationInvariant, PTL

(* No stored row ever names a table that is gone.                          *)
THEOREM TablesNeverDangle == Spec => []NoDanglingTable
BY OperationInvariant, PTL DEF OperationInv
-----------------------------------------------------------------------------
(* Decisions on approvals.                                                 *)

PendingHasNoReviewer ==
  \A a \in ApprovalId :
    approval[a].status = "pending" => approval[a].reviewer = NoUser

(* A decision in flight names a reviewer and an outcome, a row loaded as   *)
(* pending was loaded without a reviewer, and one loaded as decided has    *)
(* stayed decided.                                                         *)
DecisionsInFlight ==
  \A s \in Session : deciding[s].approval # NoApproval =>
    /\ deciding[s].decision \in {"approved", "rejected"}
    /\ deciding[s].user \in User
    /\ IF deciding[s].status = "pending"
       THEN /\ deciding[s].reviewer = NoUser
            /\ approval[deciding[s].approval].status # "none"
       ELSE approval[deciding[s].approval].status \in {"approved", "rejected"}

ApprovalInv ==
  PendingHasNoReviewer /\ DecisionsInFlight /\ FirstDecisionIsWhole

LEMMA InitApprovalInv == Init => ApprovalInv
BY DEF Init, OperationsInit, NoDecision, ApprovalInv, PendingHasNoReviewer,
       DecisionsInFlight, FirstDecisionIsWhole

LEMMA DecideBeginInv ==
  ASSUME TypeOK, ApprovalInv, NEW s \in Session, NEW a \in ApprovalId,
         NEW decision \in {"approved", "rejected"}, NEW user \in User,
         DecideBegin(s, a, decision, user)
  PROVE  ApprovalInv'
<1>1. deciding \in [Session -> Decision]
  BY DEF TypeOK, OperationsTypeOK
<1>2. approval[a].status \in ApprovalStatus
  BY DEF TypeOK, OperationsTypeOK, Approval
<1>3. DecisionsInFlight'
  BY <1>1, <1>2
  DEF DecideBegin, ApprovalInv, DecisionsInFlight, PendingHasNoReviewer,
      ApprovalStatus
<1> QED
  BY <1>3
  DEF DecideBegin, ApprovalInv, PendingHasNoReviewer, FirstDecisionIsWhole

LEMMA DecideCommitInv ==
  ASSUME TypeOK, ApprovalInv, NEW s \in Session, DecideCommit(s)
  PROVE  ApprovalInv'
<1> DEFINE x == deciding[s]
<1>1. /\ deciding \in [Session -> Decision]
      /\ approval \in [ApprovalId -> Approval]
      /\ decided \in [ApprovalId -> [status : ApprovalStatus,
                                     reviewer : User \cup {NoUser}]]
  BY DEF TypeOK, OperationsTypeOK
<1>2. PICK a \in ApprovalId : a = x.approval
  BY <1>1 DEF DecideCommit, Decision
<1>3. /\ x.decision \in {"approved", "rejected"} /\ x.user \in User
      /\ IF x.status = "pending" THEN x.reviewer = NoUser
         ELSE approval[a].status \in {"approved", "rejected"}
  BY <1>2, OperationsAssumption
  DEF ApprovalInv, DecisionsInFlight
<1>4. /\ approval'[a] = DecidedRow(x)
      /\ \A b \in ApprovalId \ {a} : /\ approval'[b] = approval[b]
                                     /\ decided'[b] = decided[b]
      /\ decided'[a] = [status |-> x.decision, reviewer |-> x.user]
      /\ redecided' = IF x.status = "pending" THEN redecided
                      ELSE redecided \cup {a}
  BY <1>1, <1>2 DEF DecideCommit
<1>5. /\ DecidedRow(x).status = IF x.decision # x.status THEN x.decision
                                ELSE approval[a].status
      /\ DecidedRow(x).reviewer = IF x.user # x.reviewer THEN x.user
                                  ELSE approval[a].reviewer
  BY <1>1, <1>2 DEF DecidedRow, Approval
<1>6. approval'[a].status \in {"approved", "rejected"}
  BY <1>3, <1>4, <1>5
<1>7. PendingHasNoReviewer' /\ DecisionsInFlight'
  <2>1. PendingHasNoReviewer'
    BY <1>4, <1>6 DEF ApprovalInv, PendingHasNoReviewer
  <2>2. \A i \in Session : deciding'[i] = deciding[i] \/ deciding'[i] = NoDecision
    BY <1>1 DEF DecideCommit
  <2>3. \A i \in Session :
          deciding[i].approval # NoApproval => deciding[i].approval \in ApprovalId
    BY <1>1 DEF Decision
  <2>4. DecisionsInFlight'
    <3> SUFFICES ASSUME NEW i \in Session, deciding'[i].approval # NoApproval
                 PROVE  /\ deciding'[i] = deciding[i]
                        /\ approval'[deciding[i].approval].status
                             \in {"approved", "rejected",
                                  approval[deciding[i].approval].status}
      BY DEF ApprovalInv, DecisionsInFlight
    <3> QED
      BY <1>4, <1>6, <2>2, <2>3 DEF NoDecision
  <2> QED
    BY <2>1, <2>4
<1>8. FirstDecisionIsWhole'
  <2>1. CASE x.status = "pending"
    <3>1. /\ approval'[a].status = decided'[a].status
          /\ approval'[a].reviewer = decided'[a].reviewer
      BY <1>3, <1>4, <1>5, <2>1, OperationsAssumption
    <3> QED
      BY <1>4, <2>1, <3>1 DEF ApprovalInv, FirstDecisionIsWhole
  <2>2. CASE x.status # "pending"
    BY <1>4, <2>2 DEF ApprovalInv, FirstDecisionIsWhole
  <2> QED
    BY <2>1, <2>2
<1> QED
  BY <1>7, <1>8 DEF ApprovalInv

LEMMA RequestApprovalInv ==
  ASSUME TypeOK, ApprovalInv, NEW s \in Session, NEW a \in ApprovalId,
         RequestApproval(s, a)
  PROVE  ApprovalInv'
<1>1. /\ approval \in [ApprovalId -> Approval]
      /\ deciding \in [Session -> Decision]
  BY DEF TypeOK, OperationsTypeOK
<1>2. /\ approval[a].status = "none"
      /\ approval'[a].status = "pending" /\ approval'[a].reviewer = NoUser
      /\ \A b \in ApprovalId \ {a} : approval'[b] = approval[b]
      /\ UNCHANGED <<deciding, decided, redecided>>
  BY <1>1 DEF RequestApproval
<1>3. DecisionsInFlight'
  <2>1. \A i \in Session : deciding[i].approval # NoApproval =>
          deciding[i].approval \in ApprovalId \ {a}
    BY <1>1, <1>2 DEF Decision, ApprovalInv, DecisionsInFlight
  <2> QED
    BY <1>2, <2>1 DEF ApprovalInv, DecisionsInFlight
<1> QED
  BY <1>2, <1>3 DEF ApprovalInv, PendingHasNoReviewer, FirstDecisionIsWhole

(* Only the handlers above touch an approval or a decision.                *)
ApprovalsUntouched == UNCHANGED <<approval, decided, redecided, deciding>>

LEMMA NextApprovalInv == TypeOK /\ ApprovalInv /\ [Next]_vars => ApprovalInv'
<1> SUFFICES ASSUME TypeOK, ApprovalInv, [Next]_vars
             PROVE  ApprovalInv'
  OBVIOUS
<1>1. CASE ApprovalsUntouched
  BY <1>1
  DEF ApprovalsUntouched, ApprovalInv, PendingHasNoReviewer,
      DecisionsInFlight, FirstDecisionIsWhole
<1>2. ASSUME NEW s \in Session, DecideAbort(s)
      PROVE  ApprovalInv'
  BY <1>2
  DEF DecideAbort, NoDecision, TypeOK, OperationsTypeOK, ApprovalInv,
      PendingHasNoReviewer, DecisionsInFlight, FirstDecisionIsWhole
<1>3. ASSUME NEW s \in Session, ExecuteAbort(s)
      PROVE  ApprovalsUntouched
  BY <1>3 DEF ExecuteAbort, ApprovalsUntouched
<1>4. ASSUME NEW s \in Session, NEW j \in JobId, QueueJob(s, j)
      PROVE  ApprovalsUntouched
  BY <1>4 DEF QueueJob, ApprovalsUntouched
<1>5. ASSUME NEW s \in Session, NEW r \in RequestId,
             NEW confirmed \in BOOLEAN, NEW key \in Key \cup {NoKey},
             ExecuteBegin(s, r, confirmed, key)
      PROVE  ApprovalsUntouched
  BY <1>5 DEF ExecuteBegin, ApprovalsUntouched
<1>6. ASSUME NEW r \in RequestId, NEW o \in OperationId,
             NEW t \in Table \cup {NoTable}, NEW given \in R!TargetVersion,
             NEW foreign \in BOOLEAN, DryRun(r, o, t, given, foreign)
      PROVE  ApprovalsUntouched
  BY <1>6 DEF DryRun, ApprovalsUntouched
<1>7. CASE OperationsStep
  BY <1>1, <1>2, <1>3, <1>4, <1>5, <1>6, <1>7, DecideBeginInv,
     DecideCommitInv, RequestApprovalInv
  DEF OperationsStep, Finish
<1>8. CASE SurroundingsStep
  BY <1>1, <1>8
  DEF SurroundingsStep, Sync, RemoveTableWithConnection, RemoveStaleTable,
      CreateBackend, UpdateBackend, DeleteBackend, BackendUnchanged, opVars,
      ApprovalsUntouched
<1>9. CASE CancelStep \/ WapStep \/ UNCHANGED vars
  BY <1>1, <1>9 DEF CancelStep, WapStep, vars, opVars, ApprovalsUntouched
<1> QED
  BY <1>7, <1>8, <1>9 DEF Next

LEMMA ApprovalInvariant == Spec => [](TypeOK /\ ApprovalInv)
<1>1. Init => TypeOK /\ ApprovalInv
  BY InitTypes, InitApprovalInv
<1>2. TypeOK /\ ApprovalInv /\ [Next]_vars => (TypeOK /\ ApprovalInv)'
  BY NextTypes, NextApprovalInv
<1> QED
  BY <1>1, <1>2, PTL DEF Spec

(* An approval that nobody decided twice holds one reviewer's decision, as *)
(* its audit event tells it, however many reviewers opened it at once.     *)
THEOREM FirstDecisionStaysWhole == Spec => []FirstDecisionIsWhole
BY ApprovalInvariant, PTL DEF ApprovalInv
-----------------------------------------------------------------------------
(* What an approval is worth.  The gate "approval_required" and the flag   *)
(* of that name are two fields of a descriptor: the dry run stores the     *)
(* gate, execute tests the flag.                                           *)

(* A stored request is pending for gates of its descriptor, and always for *)
(* approval when that gate is one of them.                                 *)
GatesStored ==
  \A r \in RequestId : request[r].present =>
    /\ request[r].pending \subseteq DescriptorOf(r).gates
    /\ "approval_required" \in DescriptorOf(r).gates =>
         "approval_required" \in request[r].pending

(* An approval was asked for a stored request whose descriptor is flagged. *)
ApprovalsFit ==
  \A a \in ApprovalId :
    IF approval[a].status = "none" THEN approval[a].request = NoRequest
    ELSE /\ approval[a].request \in RequestId
         /\ request[approval[a].request].present
         /\ DescriptorOf(approval[a].request).approval_required

GateInv == OperationInv /\ GatesStored /\ ApprovalsFit

LEMMA DryRunStoresGates ==
  ASSUME TypeOK, GatesStored, NEW r \in RequestId, NEW o \in OperationId,
         NEW t \in Table \cup {NoTable}, NEW given \in R!TargetVersion,
         NEW foreign \in BOOLEAN, DryRun(r, o, t, given, foreign)
  PROVE  GatesStored'
<1>1. request \in [RequestId -> Request]
  BY DEF TypeOK, OperationsTypeOK
<1>2. /\ request'[r].operation = o
      /\ request'[r].pending =
           PendingGates(Descriptors[o], t,
                        EffectiveTarget(Descriptors[o], given))
      /\ \A i \in RequestId \ {r} : request'[i] = request[i]
  BY <1>1 DEF DryRun
<1>3. /\ PendingGates(Descriptors[o], t,
                      EffectiveTarget(Descriptors[o], given))
           \subseteq Descriptors[o].gates
      /\ "approval_required" \in Descriptors[o].gates =>
           "approval_required" \in
             PendingGates(Descriptors[o], t,
                          EffectiveTarget(Descriptors[o], given))
  BY DEF PendingGates
<1> QED
  BY <1>2, <1>3 DEF GatesStored, DescriptorOf

LEMMA OnlyDryRunsStore ==
  ASSUME TypeOK, [Next]_vars
  PROVE  \/ \E r \in RequestId, o \in OperationId, t \in Table \cup {NoTable},
               given \in R!TargetVersion, foreign \in BOOLEAN :
              DryRun(r, o, t, given, foreign)
         \/ \A r \in RequestId : request'[r].present => request[r].present
<1>1. request \in [RequestId -> Request]
  BY DEF TypeOK, OperationsTypeOK
<1> DEFINE NothingStored ==
      \A r \in RequestId : request'[r].present => request[r].present
<1>2. ASSUME NEW t \in Table, RemoveTableWithConnection(t)
      PROVE  NothingStored
  BY <1>1, <1>2 DEF RemoveTableWithConnection, Request
<1>3. CASE UNCHANGED request
  BY <1>3
<1>4. CASE SurroundingsStep
  BY <1>2, <1>3, <1>4
  DEF SurroundingsStep, Sync, RemoveStaleTable, CreateBackend,
      UpdateBackend, DeleteBackend, BackendUnchanged, opVars
<1>5. CASE OperationsStep
  BY <1>3, <1>5
  DEF OperationsStep, ExecuteBegin, DecideBegin, Finish, RequestApproval,
      QueueJob, DecideCommit, ExecuteAbort, DecideAbort
<1>6. CASE CancelStep \/ WapStep \/ UNCHANGED vars
  BY <1>3, <1>6 DEF CancelStep, WapStep, vars, opVars
<1> QED
  BY <1>4, <1>5, <1>6 DEF Next

LEMMA GatesStoredStep ==
  ASSUME TypeOK, GatesStored, [Next]_vars
  PROVE  GatesStored'
<1>1. CASE \E r \in RequestId, o \in OperationId, t \in Table \cup {NoTable},
               given \in R!TargetVersion, foreign \in BOOLEAN :
             DryRun(r, o, t, given, foreign)
  BY <1>1, DryRunStoresGates
<1>2. CASE \A r \in RequestId : request'[r].present => request[r].present
  <2> SUFFICES ASSUME NEW r \in RequestId, request'[r].present
               PROVE  /\ request[r].present
                      /\ request'[r].operation = request[r].operation
                      /\ request'[r].pending = request[r].pending
    BY DEF GatesStored, DescriptorOf
  <2> QED
    BY <1>2, StepKeepsRequests DEF RequestsKept
<1> QED
  BY <1>1, <1>2, OnlyDryRunsStore

LEMMA OnlyTheseApprove ==
  ASSUME [Next]_vars
  PROVE  \/ UNCHANGED approval
         \/ \E s \in Session, a \in ApprovalId : RequestApproval(s, a)
         \/ \E s \in Session : DecideCommit(s)
<1>1. CASE OperationsStep
  BY <1>1
  DEF OperationsStep, DryRun, ExecuteBegin, DecideBegin, Finish, QueueJob,
      ExecuteAbort, DecideAbort
<1>2. CASE SurroundingsStep
  BY <1>2
  DEF SurroundingsStep, Sync, RemoveTableWithConnection, RemoveStaleTable,
      CreateBackend, UpdateBackend, DeleteBackend, BackendUnchanged, opVars
<1>3. CASE CancelStep \/ WapStep \/ UNCHANGED vars
  BY <1>3 DEF CancelStep, WapStep, vars, opVars
<1> QED
  BY <1>1, <1>2, <1>3 DEF Next

(* An approval is asked for once and keeps its request when it is decided. *)
LEMMA ApprovalsKeepTheirRequest ==
  ASSUME TypeOK, ApprovalInv, [Next]_vars, NEW a \in ApprovalId
  PROVE  \/ /\ approval'[a].status = "none" <=> approval[a].status = "none"
            /\ approval'[a].request = approval[a].request
         \/ /\ approval'[a].status # "none"
            /\ \E s \in Session : RequestApproval(s, a)
<1>1. /\ approval \in [ApprovalId -> Approval]
      /\ deciding \in [Session -> Decision]
  BY DEF TypeOK, OperationsTypeOK
<1>2. CASE UNCHANGED approval
  BY <1>2
<1>3. ASSUME NEW s \in Session, NEW b \in ApprovalId, RequestApproval(s, b)
      PROVE  approval'[a] = approval[a] \/ (b = a /\ approval'[a].status # "none")
  BY <1>1, <1>3 DEF RequestApproval
<1>4. ASSUME NEW s \in Session, DecideCommit(s)
      PROVE  /\ approval'[a].status = "none" <=> approval[a].status = "none"
             /\ approval'[a].request = approval[a].request
  <2>1. deciding[s].approval \in ApprovalId /\ deciding[s].approval # NoApproval
    BY <1>1, <1>4 DEF DecideCommit, Decision
  <2>2. /\ approval[deciding[s].approval].status # "none"
        /\ DecidedRow(deciding[s]).status # "none"
    BY <1>1, <2>1 DEF ApprovalInv, DecisionsInFlight, DecidedRow, Approval
  <2>3. DecidedRow(deciding[s]).request
          = approval[deciding[s].approval].request
    BY <1>1, <2>1 DEF DecidedRow, Approval
  <2>4. approval' = [approval EXCEPT ![deciding[s].approval] =
                                       DecidedRow(deciding[s])]
    BY <1>4 DEF DecideCommit
  <2> QED
    BY <1>1, <2>1, <2>2, <2>3, <2>4
<1> QED
  BY <1>2, <1>3, <1>4, OnlyTheseApprove

LEMMA ApprovalsFitStep ==
  ASSUME TypeOK, ApprovalInv, HandlersHold, ApprovalsFit, [Next]_vars
  PROVE  ApprovalsFit'
<1>1. approval \in [ApprovalId -> Approval]
  BY DEF TypeOK, OperationsTypeOK
<1> SUFFICES ASSUME NEW a \in ApprovalId
             PROVE  IF approval'[a].status = "none"
                    THEN approval'[a].request = NoRequest
                    ELSE /\ approval'[a].request \in RequestId
                         /\ request[approval'[a].request].present
                         /\ DescriptorOf(approval'[a].request).approval_required
  BY StepKeepsRequests DEF ApprovalsFit, RequestsKept, DescriptorOf
<1>2. CASE /\ approval'[a].status = "none" <=> approval[a].status = "none"
           /\ approval'[a].request = approval[a].request
  BY <1>2 DEF ApprovalsFit
<1>3. CASE /\ approval'[a].status # "none"
           /\ \E s \in Session : RequestApproval(s, a)
  <2>1. PICK s \in Session : RequestApproval(s, a)
    BY <1>3
  <2>2. executing[s].request \in RequestId
    BY <2>1 DEF RequestApproval, TypeOK, OperationsTypeOK, Execution
  <2>3. approval'[a].request = executing[s].request
    BY <1>1, <2>1 DEF RequestApproval
  <2> QED
    BY <1>3, <2>1, <2>2, <2>3
    DEF RequestApproval, NeedsApproval, HandlersHold, HandlerHolds
<1> QED
  BY <1>2, <1>3, ApprovalsKeepTheirRequest

LEMMA GateInvariant == Spec => []GateInv
<1>1. Init => GatesStored /\ ApprovalsFit
  BY DEF Init, OperationsInit, GatesStored, ApprovalsFit
<1>2. /\ TypeOK /\ OperationInv /\ ApprovalInv /\ GatesStored /\ ApprovalsFit
      /\ [Next]_vars
      => (GatesStored /\ ApprovalsFit)'
  BY GatesStoredStep, ApprovalsFitStep DEF OperationInv
<1> QED
  BY <1>1, <1>2, OperationInvariant, ApprovalInvariant, PTL DEF Spec, GateInv

(* execute answers with an approval or with a job, by the flag of the      *)
(* descriptor (service.py:233-264): a request for which an approval was    *)
(* ever asked never gets a job, so an approval that is granted never runs  *)
(* anything, whatever the registry, the reviewers and the retries.         *)
ApprovedOrQueued ==
  \A a \in ApprovalId, j \in JobId :
    approval[a].status # "none" /\ OneOff(j) =>
      job[j].request # approval[a].request

THEOREM ApprovedNeverQueued == Spec => []ApprovedOrQueued
<1>1. GateInv => ApprovedOrQueued
  BY DEF GateInv, OperationInv, OneOffsFit, JobFits, ApprovalsFit,
         ApprovedOrQueued
<1> QED
  BY <1>1, GateInvariant, PTL

(* The steps of RequestLifecycle that the commits of the handlers are.     *)
Stored == {r \in RequestId : request[r].present}

Asked ==
  [a \in ApprovalId |-> [status |-> approval[a].status,
                         request |-> approval[a].request]]

Work == [j \in JobId |-> IF OneOff(j) THEN job[j].request ELSE NoRequest]

LEMMA WorkKept ==
  ASSUME TypeOK, [Next]_vars, \A s \in Session, j \in JobId : ~QueueJob(s, j)
  PROVE  UNCHANGED Work
<1>1. ASSUME NEW j \in JobId
      PROVE  Work[j]' = Work[j]
  <2>1. OneOff(j) => OneOff(j)' /\ job'[j].request = job[j].request
    BY StepKeepsOneOffs DEF OneOffsKept, OneOff
  <2>2. OneOff(j)' => OneOff(j)
    BY StepKeepsOneOffs DEF OneOffsKept
  <2> QED
    BY <2>1, <2>2 DEF Work
<1> QED
  BY <1>1 DEF Work

LEMMA StoredKept ==
  ASSUME TypeOK, [Next]_vars,
         \A r \in RequestId : request'[r].present => request[r].present
  PROVE  UNCHANGED Stored
BY StepKeepsRequests DEF RequestsKept, Stored

LEMMA StoreOfDryRun ==
  ASSUME TypeOK, NEW r \in RequestId, NEW o \in OperationId,
         NEW t \in Table \cup {NoTable}, NEW given \in R!TargetVersion,
         NEW foreign \in BOOLEAN, DryRun(r, o, t, given, foreign)
  PROVE  Requests!Store(r)
<1>1. request \in [RequestId -> Request]
  BY DEF TypeOK, OperationsTypeOK
<1>2. /\ ~request[r].present /\ request'[r].present
      /\ \A i \in RequestId \ {r} : request'[i] = request[i]
      /\ UNCHANGED <<approval, job>>
  BY <1>1 DEF DryRun, jobVars
<1>3. r \notin Stored /\ Stored' = Stored \cup {r}
  BY <1>2 DEF Stored
<1>4. UNCHANGED <<Asked, Work>>
  BY <1>2 DEF Asked, Work, OneOff
<1> QED
  BY <1>3, <1>4 DEF Requests!Store, Stored, Asked, Work

LEMMA QueueOfCommit ==
  ASSUME TypeOK, GateInv, NEW s \in Session, NEW j \in JobId, QueueJob(s, j)
  PROVE  Requests!Queue(executing[s].request, j)
<1> DEFINE r == executing[s].request
<1>1. r \in RequestId /\ r # NoRequest
  BY DEF TypeOK, OperationsTypeOK, Execution, QueueJob
<1>2. request[r].present /\ ~DescriptorOf(r).approval_required
  BY <1>1
  DEF GateInv, OperationInv, HandlersHold, HandlerHolds, QueueJob,
      NeedsApproval
<1>3. \A a \in ApprovalId : Asked[a].request # r
  BY <1>1, <1>2 DEF GateInv, ApprovalsFit, Asked
<1>4. /\ job \in [JobId -> Job] /\ ~OneOff(j)
      /\ job' = [job EXCEPT ![j] = [kind |-> "oneoff", status |-> "queued",
                                    request |-> r]]
      /\ UNCHANGED <<request, approval>>
  BY DEF TypeOK, OperationsTypeOK, JobStoreTypeOK, QueueJob, InsertJob,
         Exists, OneOff
<1>5. Work[j] = NoRequest /\ Work' = [Work EXCEPT ![j] = r]
  BY <1>4 DEF Work, OneOff
<1>6. r \in Stored /\ UNCHANGED <<Stored, Asked>>
  BY <1>1, <1>2, <1>4 DEF Stored, Asked
<1> QED
  BY <1>3, <1>5, <1>6
  DEF Requests!Queue, Requests!UnderReview, Stored, Asked, Work

LEMMA AskOfCommit ==
  ASSUME TypeOK, GateInv, NEW s \in Session, NEW a \in ApprovalId,
         RequestApproval(s, a)
  PROVE  Requests!Ask(executing[s].request, a)
<1> DEFINE r == executing[s].request
<1>1. r \in RequestId /\ r # NoRequest
  BY DEF TypeOK, OperationsTypeOK, Execution, RequestApproval
<1>2. request[r].present /\ DescriptorOf(r).approval_required
  BY <1>1
  DEF GateInv, OperationInv, HandlersHold, HandlerHolds, RequestApproval,
      NeedsApproval
<1>3. \A j \in JobId : Work[j] # r
  BY <1>1, <1>2 DEF GateInv, OperationInv, OneOffsFit, JobFits, Work
<1>4. /\ approval \in [ApprovalId -> Approval] /\ approval[a].status = "none"
      /\ approval' = [approval EXCEPT ![a] =
                        [status |-> "pending", reviewer |-> NoUser,
                         request |-> r]]
      /\ UNCHANGED <<request, job>>
  BY DEF TypeOK, OperationsTypeOK, RequestApproval, jobVars
<1>5. /\ Asked[a].status = "none"
      /\ Asked' = [Asked EXCEPT ![a] = [status |-> "pending", request |-> r]]
  BY <1>4 DEF Asked
<1>6. r \in Stored /\ UNCHANGED <<Stored, Work>>
  BY <1>1, <1>2, <1>4 DEF Stored, Work, OneOff
<1> QED
  BY <1>3, <1>5, <1>6
  DEF Requests!Ask, Requests!HasWork, Stored, Asked, Work

LEMMA DecideOfCommit ==
  ASSUME TypeOK, ApprovalInv, NEW s \in Session, DecideCommit(s),
         NEW a \in ApprovalId, a = deciding[s].approval
  PROVE  Requests!Decide(a)
<1>1. approval \in [ApprovalId -> Approval] /\ a # NoApproval
  BY DEF TypeOK, OperationsTypeOK, Decision, DecideCommit
<1>2. /\ approval[a].status # "none"
      /\ DecidedRow(deciding[s]).status \in {"approved", "rejected"}
  BY <1>1 DEF ApprovalInv, DecisionsInFlight, DecidedRow, Approval
<1>3. /\ approval' = [approval EXCEPT ![a] = DecidedRow(deciding[s])]
      /\ UNCHANGED <<request, job>>
  BY DEF DecideCommit, jobVars
<1>4. DecidedRow(deciding[s]).request = approval[a].request
  BY <1>1 DEF DecidedRow, Approval
<1>5. /\ Asked[a].status # "none"
      /\ Asked' = [Asked EXCEPT ![a].status = DecidedRow(deciding[s]).status]
  BY <1>1, <1>2, <1>3, <1>4 DEF Asked
<1>6. UNCHANGED <<Stored, Work>>
  BY <1>3 DEF Stored, Work, OneOff
<1> QED
  BY <1>2, <1>5, <1>6 DEF Requests!Decide, Stored, Asked, Work

(* The control plane implements RequestLifecycle: each step stores one     *)
(* request, queues one job of a request that no reviewer has before him,   *)
(* asks for one approval of a request without work, decides one approval,  *)
(* or changes none of the three.                                           *)
THEOREM ImplementsRequestLifecycle == Spec => RefinesRequestLifecycle
<1>1. Init => Requests!Init
  BY DEF Init, OperationsInit, JobStoreInit, Requests!Init, OneOff
<1>2. ASSUME TypeOK, GateInv, ApprovalInv, [Next]_vars
      PROVE  [Requests!Next]_<<Stored, Asked, Work>>
  <2>1. CASE \E r \in RequestId, o \in OperationId, t \in Table \cup {NoTable},
                 given \in R!TargetVersion, foreign \in BOOLEAN :
               DryRun(r, o, t, given, foreign)
    BY <1>2, <2>1, StoreOfDryRun DEF Requests!Next
  <2>2. CASE \E s \in Session, j \in JobId : QueueJob(s, j)
    <3>1. PICK s \in Session, j \in JobId : QueueJob(s, j)
      BY <2>2
    <3>2. executing[s].request \in RequestId
      BY <1>2, <3>1 DEF TypeOK, OperationsTypeOK, Execution, QueueJob
    <3> QED
      BY <1>2, <3>1, <3>2, QueueOfCommit DEF Requests!Next
  <2>3. CASE \E s \in Session, a \in ApprovalId : RequestApproval(s, a)
    <3>1. PICK s \in Session, a \in ApprovalId : RequestApproval(s, a)
      BY <2>3
    <3>2. executing[s].request \in RequestId
      BY <1>2, <3>1 DEF TypeOK, OperationsTypeOK, Execution, RequestApproval
    <3> QED
      BY <1>2, <3>1, <3>2, AskOfCommit DEF Requests!Next
  <2>4. CASE \E s \in Session : DecideCommit(s)
    <3>1. PICK s \in Session : DecideCommit(s)
      BY <2>4
    <3>2. PICK a \in ApprovalId : a = deciding[s].approval
      BY <1>2, <3>1 DEF TypeOK, OperationsTypeOK, Decision, DecideCommit
    <3>3. Requests!Decide(a)
      BY <1>2, <3>1, <3>2, DecideOfCommit
    <3> QED
      BY <3>3 DEF Requests!Next
  <2>5. CASE /\ \A r \in RequestId : request'[r].present => request[r].present
             /\ \A s \in Session, j \in JobId : ~QueueJob(s, j)
             /\ UNCHANGED approval
    <3>1. UNCHANGED <<Stored, Work>>
      BY <1>2, <2>5, StoredKept, WorkKept
    <3>2. UNCHANGED Asked
      BY <2>5 DEF Asked
    <3> QED
      BY <3>1, <3>2
  <2> QED
    BY <1>2, <2>1, <2>2, <2>3, <2>4, <2>5, OnlyDryRunsStore, OnlyTheseApprove
<1> QED
  BY <1>1, <1>2, GateInvariant, ApprovalInvariant, TypeCorrect, PTL
  DEF Spec, RefinesRequestLifecycle, Requests!Spec, Requests!vars, Stored,
      Asked, Work

(* Only a descriptor with the gate and without the flag lets a job run     *)
(* while its stored gate "Approval must be granted before execution."      *)
(* (service.py:454) is pending, and no approval is ever asked for it.      *)
UngatedOnlyByFlag ==
  \A j \in JobId : OneOff(j) =>
    LET r == job[j].request IN
    "approval_required" \in request[r].pending
      <=> "approval_required" \in DescriptorOf(r).gates
          /\ ~DescriptorOf(r).approval_required

THEOREM GatesEscapedByFlag == Spec => []UngatedOnlyByFlag
<1>1. GateInv => UngatedOnlyByFlag
  BY DEF GateInv, OperationInv, OneOffsFit, JobFits, GatesStored,
         UngatedOnlyByFlag
<1> QED
  BY <1>1, GateInvariant, PTL

(* With a registry in which every descriptor that has the gate also has    *)
(* the flag, the stored approval gate is never passed.                     *)
THEOREM ConsistentRegistryHonoursGate ==
  ASSUME \A o \in OperationId :
           "approval_required" \in Descriptors[o].gates =>
             Descriptors[o].approval_required
  PROVE  Spec => []ApprovalGateHonoured
<1>1. TypeOK /\ GateInv => ApprovalGateHonoured
  <2> SUFFICES ASSUME TypeOK, GateInv, NEW j \in JobId, OneOff(j)
               PROVE  "approval_required" \notin request[job[j].request].pending
    BY DEF ApprovalGateHonoured
  <2> DEFINE r == job[j].request
  <2>1. /\ r \in RequestId /\ request[r].present
        /\ ~DescriptorOf(r).approval_required
        /\ request[r].pending \subseteq DescriptorOf(r).gates
    BY DEF GateInv, OperationInv, OneOffsFit, JobFits, GatesStored
  <2>2. request[r].operation \in OperationId
    BY <2>1 DEF TypeOK, OperationsTypeOK, Request
  <2> QED
    BY <2>1, <2>2 DEF DescriptorOf
<1> QED
  BY <1>1, GateInvariant, TypeCorrect, PTL

(* What op() and its overrides give: the gate comes with the flag in every *)
(* descriptor but one.                                                     *)
GateFlagged(d) == "approval_required" \in d.gates => d.approval_required

LEMMA RegistryGates ==
  \A o \in DOMAIN R!Registry :
    GateFlagged(R!Registry[o]) \/ o = "rewrite_table_path"
<1>1. /\ GateFlagged(R!create_namespace)
      /\ GateFlagged(R!alter_namespace_location)
      /\ GateFlagged(R!drop_namespace)
  BY DEF GateFlagged, R!Op, R!DefaultGates,
         R!create_namespace, R!alter_namespace_location, R!drop_namespace
<1>2. /\ GateFlagged(R!upgrade_format)
      /\ GateFlagged(R!set_default)
      /\ GateFlagged(R!insert_into)
      /\ GateFlagged(R!rollback_to_snapshot)
  BY DEF GateFlagged, R!Op, R!DefaultGates,
         R!upgrade_format, R!set_default, R!insert_into, R!rollback_to_snapshot
<1>3. /\ GateFlagged(R!rewrite_data_files)
      /\ GateFlagged(R!expire_snapshots)
      /\ GateFlagged(R!remove_orphan_files)
  BY DEF GateFlagged, R!Op, R!DefaultGates,
         R!rewrite_data_files, R!expire_snapshots, R!remove_orphan_files
<1>4. /\ GateFlagged(R!backfill_default)
  BY DEF GateFlagged, R!Op, R!DefaultGates,
         R!backfill_default
<1> QED
  BY <1>1, <1>2, <1>3, <1>4 DEF R!Registry

(* In the registry as it is, rewrite_table_path is the operation that      *)
(* escapes (registry.py): a job of any other never had the gate pending.   *)
THEOREM OnlyRewriteTablePathEscapes ==
  ASSUME OperationId \subseteq DOMAIN R!Registry,
         Descriptors = [o \in OperationId |-> R!Registry[o]]
  PROVE  Spec => [](\A j \in JobId :
           /\ OneOff(j)
           /\ "approval_required" \in request[job[j].request].pending
           => request[job[j].request].operation = "rewrite_table_path")
<1> DEFINE Escapes(j) ==
      /\ OneOff(j)
      /\ "approval_required" \in request[job[j].request].pending
<1>1. TypeOK /\ GateInv =>
        \A j \in JobId : Escapes(j) =>
          request[job[j].request].operation = "rewrite_table_path"
  <2> SUFFICES ASSUME TypeOK, GateInv, NEW j \in JobId, Escapes(j)
               PROVE  request[job[j].request].operation = "rewrite_table_path"
    OBVIOUS
  <2> DEFINE o == request[job[j].request].operation
  <2>1. /\ job[j].request \in RequestId
        /\ request[job[j].request].present
        /\ ~Descriptors[o].approval_required
        /\ "approval_required" \in Descriptors[o].gates
    BY DEF GateInv, OperationInv, OneOffsFit, JobFits, GatesStored,
           DescriptorOf
  <2>2. o \in OperationId
    BY <2>1 DEF TypeOK, OperationsTypeOK, Request
  <2>3. o \in DOMAIN R!Registry /\ Descriptors[o] = R!Registry[o]
    BY <2>2
  <2> QED
    BY <2>1, <2>3, RegistryGates DEF GateFlagged
<1> QED
  BY <1>1, GateInvariant, TypeCorrect, PTL
=============================================================================
