------------------------- MODULE ControlPlaneProofs -------------------------
(***************************************************************************)
(* The control plane, for every value of the constants: type correctness,  *)
(* which the other proofs start from, and the life of a job. Jobs and      *)
(* their runs agree, an end is final but for the time it is recorded with, *)
(* a Write-Audit-Publish verdict stands, and the control plane implements  *)
(* JobLifecycle.                                                           *)
(***************************************************************************)
EXTENDS ControlPlane, TLAPS

(* The initial state: the constant sets that rows are chosen from are not  *)
(* empty.                                                                  *)
LEMMA InitTypes == Init => TypeOK
<1> SUFFICES ASSUME Init PROVE TypeOK
  OBVIOUS
<1>1. TableIndexTypeOK
  BY TableIndexAssumption DEF Init, TableIndexInit, TableIndexTypeOK
<1>2. JobStoreTypeOK
  BY DEF Init, JobStoreInit, JobStoreTypeOK, Job, Run, Status, Engine
<1>3. OperationsTypeOK
  <2>1. backend \in [Backend -> [present : BOOLEAN, environment : Environment,
                                 type : BackendType, enabled : BOOLEAN]]
    BY OperationsAssumption, TableIndexAssumption DEF Init, OperationsInit
  <2>2. request \in [RequestId -> Request]
    BY OperationsAssumption
    DEF Init, OperationsInit, Request, R!NotGiven, R!TargetVersion
  <2>3. approval \in [ApprovalId -> Approval]
    BY DEF Init, OperationsInit, Approval, ApprovalStatus
  <2>4. executing \in [Session -> Execution]
    BY DEF Init, OperationsInit, NoExecution, Execution, Engine
  <2>5. deciding \in [Session -> Decision]
    BY DEF Init, OperationsInit, NoDecision, Decision, ApprovalStatus
  <2> QED
    BY <1>1, <1>2, <2>1, <2>2, <2>3, <2>4, <2>5
    DEF Init, OperationsInit, OperationsTypeOK, ApprovalStatus
<1>4. WapTypeOK
  BY TableIndexAssumption DEF Init, WapInit, WapIdle, WapPhase, WapTypeOK
<1> QED
  BY <1>3, <1>4 DEF TypeOK

(* The gates a dry run leaves pending or blocked are gates, and the target *)
(* it stores is a target: the descriptor is well formed.                   *)
LEMMA DryRunTypes ==
  ASSUME TypeOK, NEW r \in RequestId, NEW o \in OperationId,
         NEW t \in Table \cup {NoTable}, NEW given \in R!TargetVersion,
         NEW foreign \in BOOLEAN, DryRun(r, o, t, given, foreign)
  PROVE  OperationsTypeOK'
<1>1. Descriptors[o] \in R!Descriptor
  BY OperationsAssumption
<1>2. EffectiveTarget(Descriptors[o], given) \in R!TargetVersion
  BY <1>1 DEF EffectiveTarget, R!Descriptor
<1>3. \A x : /\ PendingGates(Descriptors[o], t, x) \subseteq R!Gate
             /\ BlockedGates(Descriptors[o], t, x) \subseteq R!Gate
  BY <1>1 DEF PendingGates, BlockedGates, R!Descriptor
<1>4. request' \in [RequestId -> Request]
  BY <1>2, <1>3
  DEF DryRun, TypeOK, OperationsTypeOK, Request, R!NotGiven, R!TargetVersion
<1> QED
  BY <1>4
  DEF DryRun, TypeOK, OperationsTypeOK, TableIndexTypeOK, JobStoreTypeOK,
      jobVars

(* The engine of a runtime is one a run may have: the backends that are    *)
(* eligible are Spark and Trino backends.                                  *)
LEMMA RuntimeTypes ==
  ASSUME TypeOK, NEW r \in RequestId
  PROVE  Runtime(r) \subseteq
           IF RequiresCompute(DescriptorOf(r))
           THEN {"spark", "trino"} ELSE {"internal_worker"}
BY DEF Runtime, Newest, Eligible

LEMMA ExecuteTypes ==
  ASSUME TypeOK, NEW s \in Session,
         \/ \E r \in RequestId, confirmed \in BOOLEAN,
               key \in Key \cup {NoKey} : ExecuteBegin(s, r, confirmed, key)
         \/ \E a \in ApprovalId : RequestApproval(s, a)
         \/ \E j \in JobId : QueueJob(s, j)
         \/ ExecuteAbort(s)
  PROVE  OperationsTypeOK'
<1>1. NoExecution \in Execution
  BY DEF NoExecution, Execution, Engine
<1>2. ASSUME NEW r \in RequestId, NEW confirmed \in BOOLEAN,
             NEW key \in Key \cup {NoKey}, ExecuteBegin(s, r, confirmed, key)
      PROVE  OperationsTypeOK'
  <2>1. PICK engine \in Runtime(r) :
          executing' = [executing EXCEPT ![s] =
            [request |-> r, table |-> request[r].table, engine |-> engine,
             key |-> key]]
    BY <1>2 DEF ExecuteBegin
  <2>2. engine \in Engine
    BY RuntimeTypes DEF Engine
  <2>3. executing' \in [Session -> Execution]
    BY <2>1, <2>2 DEF TypeOK, OperationsTypeOK, Execution, Request
  <2> QED
    BY <1>2, <2>3
    DEF ExecuteBegin, TypeOK, OperationsTypeOK, TableIndexTypeOK,
        JobStoreTypeOK, jobVars
<1>3. ASSUME NEW a \in ApprovalId, RequestApproval(s, a)
      PROVE  OperationsTypeOK'
  <2>1. approval' \in [ApprovalId -> Approval]
    BY <1>3
    DEF RequestApproval, TypeOK, OperationsTypeOK, Execution, Approval,
        ApprovalStatus
  <2> QED
    BY <1>1, <1>3, <2>1
    DEF RequestApproval, TypeOK, OperationsTypeOK, TableIndexTypeOK,
        JobStoreTypeOK, jobVars
<1>4. ASSUME NEW j \in JobId, QueueJob(s, j)
      PROVE  OperationsTypeOK'
  <2> DEFINE x == executing[s]
  <2>1. x \in Execution
    BY DEF TypeOK, OperationsTypeOK
  <2>2. NeedsRestorePoint(x) \in BOOLEAN
    BY <2>1, OperationsAssumption
    DEF NeedsRestorePoint, DescriptorOf, Execution, R!Descriptor, QueueJob,
        TypeOK, OperationsTypeOK, Request
  <2>3. job' \in [JobId -> Job] /\ run' \in [JobId -> Run]
    BY <1>4, <2>1, <2>2
    DEF QueueJob, InsertJob, TypeOK, OperationsTypeOK, JobStoreTypeOK, Job,
        Run, Status, Execution
  <2>4. restore' \subseteq RestorePoint
    BY <1>4, <2>1
    DEF QueueJob, NeedsRestorePoint, TypeOK, OperationsTypeOK, RestorePoint,
        Execution
  <2>5. requested' \in [JobId -> Key \cup {NoKey}]
    BY <1>4, <2>1 DEF QueueJob, TypeOK, OperationsTypeOK, Execution
  <2> QED
    BY <1>1, <1>4, <2>3, <2>4, <2>5
    DEF QueueJob, TypeOK, OperationsTypeOK, TableIndexTypeOK,
        JobStoreTypeOK
<1>5. ASSUME ExecuteAbort(s)
      PROVE  OperationsTypeOK'
  BY <1>1, <1>5
  DEF ExecuteAbort, TypeOK, OperationsTypeOK, TableIndexTypeOK,
      JobStoreTypeOK, jobVars
<1> QED
  BY <1>2, <1>3, <1>4, <1>5

LEMMA DecideTypes ==
  ASSUME TypeOK, NEW s \in Session,
         \/ \E a \in ApprovalId, user \in User,
               decision \in {"approved", "rejected"} :
              DecideBegin(s, a, decision, user)
         \/ DecideCommit(s)
         \/ DecideAbort(s)
  PROVE  OperationsTypeOK'
<1>1. NoDecision \in Decision
  BY DEF NoDecision, Decision, ApprovalStatus
<1>2. deciding[s] \in Decision
  BY DEF TypeOK, OperationsTypeOK
<1>3. ASSUME NEW a \in ApprovalId, NEW user \in User,
             NEW decision \in {"approved", "rejected"},
             DecideBegin(s, a, decision, user)
      PROVE  OperationsTypeOK'
  <2>1. deciding' \in [Session -> Decision]
    BY <1>3
    DEF DecideBegin, TypeOK, OperationsTypeOK, Decision, Approval,
        ApprovalStatus
  <2> QED
    BY <1>3, <2>1
    DEF DecideBegin, TypeOK, OperationsTypeOK, TableIndexTypeOK,
        JobStoreTypeOK, jobVars
<1>4. ASSUME DecideCommit(s)
      PROVE  OperationsTypeOK'
  <2>1. deciding[s].approval \in ApprovalId
    BY <1>2, <1>4 DEF DecideCommit, Decision
  <2>2. DecidedRow(deciding[s]) \in Approval
    <3>1. approval[deciding[s].approval] \in Approval
      BY <2>1 DEF TypeOK, OperationsTypeOK
    <3>2. /\ deciding[s].decision \in ApprovalStatus
          /\ deciding[s].user \in User \cup {NoUser}
      BY <1>2 DEF Decision
    <3> QED
      BY <3>1, <3>2 DEF DecidedRow, Approval
  <2>3. /\ approval' \in [ApprovalId -> Approval]
        /\ decided' \in [ApprovalId -> [status : ApprovalStatus,
                                        reviewer : User \cup {NoUser}]]
        /\ redecided' \subseteq ApprovalId
    BY <1>2, <1>4, <2>1, <2>2
    DEF DecideCommit, TypeOK, OperationsTypeOK, Decision
  <2> QED
    BY <1>1, <1>4, <2>3
    DEF DecideCommit, TypeOK, OperationsTypeOK, TableIndexTypeOK,
        JobStoreTypeOK, jobVars
<1>5. ASSUME DecideAbort(s)
      PROVE  OperationsTypeOK'
  BY <1>1, <1>5
  DEF DecideAbort, TypeOK, OperationsTypeOK, TableIndexTypeOK,
      JobStoreTypeOK, jobVars
<1> QED
  BY <1>3, <1>4, <1>5

LEMMA TableStepTypes ==
  ASSUME TypeOK, NEW t \in Table, SyncTable(t) \/ RemoveTable(t)
  PROVE  TableIndexTypeOK'
<1>1. table \in [Table -> TableRow]
  BY DEF TypeOK, OperationsTypeOK, TableIndexTypeOK
<1>2. CASE SyncTable(t)
  BY <1>1, <1>2, TableIndexAssumption DEF SyncTable, TableIndexTypeOK
<1>3. CASE RemoveTable(t)
  <2>1. [table[t] EXCEPT !.present = FALSE] \in TableRow
    BY <1>1 DEF TableRow
  <2> QED
    BY <1>1, <1>3, <2>1 DEF RemoveTable, TableIndexTypeOK
<1> QED
  BY <1>2, <1>3

LEMMA BackendTypes ==
  ASSUME TypeOK, NEW b \in Backend,
         \/ \E e \in Environment, type \in BackendType :
              \/ CreateBackend(b, e, type)
              \/ \E enabled \in BOOLEAN : UpdateBackend(b, e, type, enabled)
         \/ DeleteBackend(b)
  PROVE  OperationsTypeOK'
<1>1. CASE \E e \in Environment, type \in BackendType :
             CreateBackend(b, e, type)
  BY <1>1
  DEF CreateBackend, BackendUnchanged, jobVars, TypeOK, OperationsTypeOK,
      TableIndexTypeOK, JobStoreTypeOK
<1>2. CASE \E e \in Environment, type \in BackendType, enabled \in BOOLEAN :
             UpdateBackend(b, e, type, enabled)
  BY <1>2
  DEF UpdateBackend, BackendUnchanged, jobVars, TypeOK, OperationsTypeOK,
      TableIndexTypeOK, JobStoreTypeOK
<1>3. CASE DeleteBackend(b)
  BY <1>3
  DEF DeleteBackend, BackendUnchanged, jobVars, TypeOK, OperationsTypeOK,
      TableIndexTypeOK, JobStoreTypeOK
<1> QED
  BY <1>1, <1>2, <1>3

LEMMA SurroundingsTypes ==
  ASSUME TypeOK, SurroundingsStep
  PROVE  OperationsTypeOK'
<1>1. ASSUME NEW t \in Table, Sync(t) \/ RemoveStaleTable(t)
      PROVE  OperationsTypeOK'
  <2>1. TableIndexTypeOK'
    BY <1>1, TableStepTypes DEF Sync, RemoveStaleTable
  <2>2. UNCHANGED <<jobVars, opVars>>
    BY <1>1 DEF Sync, RemoveStaleTable
  <2> QED
    BY <2>1, <2>2
    DEF opVars, jobVars, TypeOK, OperationsTypeOK, JobStoreTypeOK
<1>2. ASSUME NEW t \in Table, RemoveTableWithConnection(t)
      PROVE  OperationsTypeOK'
  <2>1. TableIndexTypeOK'
    BY <1>2, TableStepTypes DEF RemoveTableWithConnection
  <2>2. request' \in [RequestId -> Request]
    <3>1. ASSUME NEW r \in RequestId
          PROVE  /\ request[r] \in Request
                 /\ [request[r] EXCEPT !.table = NoTable] \in Request
      BY DEF TypeOK, OperationsTypeOK, Request
    <3> QED
      BY <1>2, <3>1 DEF RemoveTableWithConnection
  <2> QED
    BY <1>2, <2>1, <2>2
    DEF RemoveTableWithConnection, jobVars, TypeOK, OperationsTypeOK,
        JobStoreTypeOK
<1> QED
  BY <1>1, <1>2, BackendTypes DEF SurroundingsStep

LEMMA CancelTypes ==
  ASSUME TypeOK, CancelStep
  PROVE  OperationsTypeOK'
<1>1. PICK s \in Session : \/ \E j \in JobId : CancelBegin(s, j)
                           \/ CancelCommit(s)
                           \/ CancelAbort(s)
  BY DEF CancelStep
<1>2. JobStoreTypeOK
  BY DEF TypeOK, OperationsTypeOK
<1>3. CASE \E j \in JobId : CancelBegin(s, j)
  BY <1>2, <1>3
  DEF CancelBegin, CancelStep, opVars, TypeOK, OperationsTypeOK,
      TableIndexTypeOK, JobStoreTypeOK
<1>4. CASE CancelCommit(s)
  <2>1. cancelling[s] \in JobId
    BY <1>2, <1>4 DEF CancelCommit, JobStoreTypeOK
  <2>2. job' \in [JobId -> Job] /\ run' \in [JobId -> Run]
    <3>1. \A x \in Job : [x EXCEPT !.status = "cancelled"] \in Job
      BY DEF Job, Status
    <3>2. ASSUME NEW x \in Run
          PROVE  [x EXCEPT !.status = "cancelled",
                           !.ended = x.ended + 1] \in Run
      <4>1. x.ended + 1 \in Nat /\ "cancelled" \in Status
        BY DEF Run, Status
      <4> QED
        BY <4>1 DEF Run
    <3>3. job' \in [JobId -> Job]
      BY <1>2, <1>4, <2>1, <3>1 DEF CancelCommit, JobStoreTypeOK
    <3>4. run' \in [JobId -> Run]
      BY <1>2, <1>4, <2>1, <3>2 DEF CancelCommit, JobStoreTypeOK
    <3> QED
      BY <3>3, <3>4
  <2> QED
    BY <1>2, <1>4, <2>2
    DEF CancelCommit, CancelStep, opVars, TypeOK, OperationsTypeOK,
        TableIndexTypeOK, JobStoreTypeOK
<1>5. CASE CancelAbort(s)
  BY <1>2, <1>5
  DEF CancelAbort, CancelStep, opVars, TypeOK, OperationsTypeOK,
      TableIndexTypeOK, JobStoreTypeOK
<1> QED
  BY <1>1, <1>3, <1>4, <1>5

LEMMA WapTypes ==
  ASSUME TypeOK, WapStep
  PROVE  TypeOK'
<1>1. PICK s \in Session : \/ \E t \in Table, p \in Payload : WapBegin(s, t, p)
                           \/ WapAudit(s)
                           \/ \E j \in JobId : WapCommit(s, j)
                           \/ WapAbort(s)
  BY DEF WapStep
<1>2. auditing[s] \in [phase : WapPhase, table : Table, green : BOOLEAN,
                      payload : Payload \cup {NoPayload}]
  BY DEF TypeOK, WapTypeOK
<1>3. CASE \E t \in Table, p \in Payload : WapBegin(s, t, p)
  BY <1>3
  DEF WapBegin, WapStep, WapPhase, opVars, TypeOK, WapTypeOK,
      OperationsTypeOK, TableIndexTypeOK, JobStoreTypeOK
<1>4. CASE WapAudit(s)
  BY <1>2, <1>4
  DEF WapAudit, Green, WapStep, WapPhase, opVars, TypeOK, WapTypeOK,
      OperationsTypeOK, TableIndexTypeOK, JobStoreTypeOK
<1>5. CASE \E j \in JobId : WapCommit(s, j)
  <2>1. PICK j \in JobId : WapCommit(s, j)
    BY <1>5
  <2> DEFINE verdict == Verdict(auditing[s].green, auditing[s].payload)
  <2>2. verdict \in {"held", "requires_approval", "published"}
    BY DEF Verdict
  <2>3. WapStatus(verdict) \in Status
    BY DEF WapStatus, Status
  <2>4. job' \in [JobId -> Job] /\ run' \in [JobId -> Run]
    BY <2>1, <2>3
    DEF WapCommit, InsertJob, TypeOK, OperationsTypeOK, JobStoreTypeOK, Job,
        Run, Engine
  <2>5. published' \in [JobId -> {"none", "held", "requires_approval",
                                 "published"}]
    BY <2>1, <2>2 DEF WapCommit, TypeOK, WapTypeOK
  <2>6. WapIdle \in [phase : WapPhase, table : Table, green : BOOLEAN,
                    payload : Payload \cup {NoPayload}]
    BY TableIndexAssumption DEF WapIdle, WapPhase
  <2> QED
    BY <2>1, <2>4, <2>5, <2>6
    DEF WapCommit, WapStep, opVars, TypeOK, WapTypeOK, OperationsTypeOK,
        TableIndexTypeOK, JobStoreTypeOK
<1>6. CASE WapAbort(s)
  <2>1. WapIdle \in [phase : WapPhase, table : Table, green : BOOLEAN,
                    payload : Payload \cup {NoPayload}]
    BY TableIndexAssumption DEF WapIdle, WapPhase
  <2> QED
    BY <1>6, <2>1
    DEF WapAbort, WapStep, opVars, TypeOK, WapTypeOK, OperationsTypeOK,
        TableIndexTypeOK, JobStoreTypeOK
<1> QED
  BY <1>1, <1>3, <1>4, <1>5, <1>6

LEMMA OperationsStepTypes ==
  ASSUME TypeOK, OperationsStep
  PROVE  OperationsTypeOK'
BY DryRunTypes, ExecuteTypes, DecideTypes DEF OperationsStep, Finish

LEMMA NextTypes == TypeOK /\ [Next]_vars => TypeOK'
<1>1. ASSUME TypeOK, UNCHANGED vars
      PROVE  TypeOK'
  BY <1>1
  DEF vars, opVars, wapVars, TypeOK, WapTypeOK, OperationsTypeOK,
      TableIndexTypeOK, JobStoreTypeOK
<1>2. ASSUME TypeOK,
             OperationsStep \/ SurroundingsStep \/ CancelStep,
             UNCHANGED wapVars
      PROVE  TypeOK'
  <2>1. OperationsTypeOK'
    BY <1>2, OperationsStepTypes, SurroundingsTypes, CancelTypes
  <2> QED
    BY <1>2, <2>1 DEF wapVars, TypeOK, WapTypeOK
<1> QED
  BY <1>1, <1>2, WapTypes DEF Next

(* Every row the handlers write, and what every thread has read, keeps its *)
(* type for ever, whatever the constants: in particular a run only ever    *)
(* has an engine that exists and a job a status that exists.               *)
THEOREM TypeCorrect == Spec => []TypeOK
BY InitTypes, NextTypes, PTL DEF Spec
-----------------------------------------------------------------------------
(* The life of a job.                                                      *)

(* No handler commits a job as running or failed.                          *)
StatusIsReached ==
  \A j \in JobId : job[j].status \in {"queued", "succeeded", "cancelled"}

(* What a cancel handler holds was waiting when it was loaded, and another *)
(* cancel handler is all that can have changed it since.                   *)
CancelsWaitingJob ==
  \A s \in Session : cancelling[s] # NoJob =>
    /\ Exists(cancelling[s])
    /\ job[cancelling[s]].status \in {"queued", "cancelled"}

JobInv ==
  /\ RunFollowsJob
  /\ StatusIsReached
  /\ CancelsWaitingJob
  /\ VerdictStands

LEMMA InitJobInv == Init => JobInv
BY DEF Init, JobStoreInit, JobInv, RunFollowsJob, StatusIsReached,
       CancelsWaitingJob, VerdictStands, Terminal

(* Only four kinds of step touch a job.                                    *)
JobsUntouched == UNCHANGED <<job, run, cancelling, published>>

LEMMA JobSteps ==
  ASSUME [Next]_vars
  PROVE  \/ JobsUntouched
         \/ \E s \in Session, j \in JobId : QueueJob(s, j) /\ UNCHANGED wapVars
         \/ CancelStep /\ UNCHANGED wapVars
         \/ \E s \in Session, j \in JobId : WapCommit(s, j)
<1>1. CASE UNCHANGED vars
  BY <1>1 DEF vars, opVars, wapVars, JobsUntouched
<1>2. CASE OperationsStep /\ UNCHANGED wapVars
  <2>1. ASSUME NEW r \in RequestId, NEW o \in OperationId,
               NEW t \in Table \cup {NoTable}, NEW given \in R!TargetVersion,
               NEW foreign \in BOOLEAN, DryRun(r, o, t, given, foreign)
        PROVE  JobsUntouched
    BY <1>2, <2>1 DEF DryRun, jobVars, wapVars, JobsUntouched
  <2>2. ASSUME NEW s \in Session, NEW r \in RequestId,
               NEW confirmed \in BOOLEAN, NEW key \in Key \cup {NoKey},
               ExecuteBegin(s, r, confirmed, key)
        PROVE  JobsUntouched
    BY <1>2, <2>2 DEF ExecuteBegin, jobVars, wapVars, JobsUntouched
  <2>3. ASSUME NEW s \in Session, NEW a \in ApprovalId,
               RequestApproval(s, a)
        PROVE  JobsUntouched
    BY <1>2, <2>3 DEF RequestApproval, jobVars, wapVars, JobsUntouched
  <2>4. ASSUME NEW s \in Session, NEW a \in ApprovalId, NEW user \in User,
               NEW decision \in {"approved", "rejected"},
               DecideBegin(s, a, decision, user)
        PROVE  JobsUntouched
    BY <1>2, <2>4 DEF DecideBegin, jobVars, wapVars, JobsUntouched
  <2>5. ASSUME NEW s \in Session,
               DecideCommit(s) \/ DecideAbort(s) \/ ExecuteAbort(s)
        PROVE  JobsUntouched
    BY <1>2, <2>5
    DEF DecideCommit, DecideAbort, ExecuteAbort, jobVars, wapVars,
        JobsUntouched
  <2> QED
    BY <1>2, <2>1, <2>2, <2>3, <2>4, <2>5 DEF OperationsStep, Finish
<1>3. CASE SurroundingsStep /\ UNCHANGED wapVars
  BY <1>3
  DEF SurroundingsStep, Sync, RemoveTableWithConnection, RemoveStaleTable,
      CreateBackend, UpdateBackend, DeleteBackend, BackendUnchanged, jobVars,
      wapVars, JobsUntouched
<1>4. CASE WapStep
  BY <1>4 DEF WapStep, WapBegin, WapAudit, WapAbort, JobsUntouched
<1> QED
  BY <1>1, <1>2, <1>3, <1>4 DEF Next

LEMMA QueueJobInv ==
  ASSUME TypeOK, JobInv, NEW s \in Session, NEW j \in JobId, QueueJob(s, j),
         UNCHANGED wapVars
  PROVE  JobInv'
<1>1. /\ job \in [JobId -> Job] /\ run \in [JobId -> Run]
      /\ cancelling \in [Session -> JobId \cup {NoJob}]
  BY DEF TypeOK, OperationsTypeOK, JobStoreTypeOK
<1>2. /\ ~Exists(j)
      /\ \A i \in JobId \ {j} : job'[i] = job[i] /\ run'[i] = run[i]
      /\ job'[j].kind = "oneoff" /\ job'[j].status = "queued"
      /\ run'[j].status = "queued" /\ run'[j].ended = 0
      /\ UNCHANGED <<cancelling, published>>
  BY <1>1 DEF QueueJob, InsertJob, wapVars
<1>3. RunFollowsJob' /\ StatusIsReached'
  BY <1>2 DEF JobInv, RunFollowsJob, StatusIsReached, Terminal
<1>4. CancelsWaitingJob'
  BY <1>1, <1>2 DEF JobInv, CancelsWaitingJob, Exists
<1>5. VerdictStands'
  BY <1>2 DEF JobInv, VerdictStands
<1> QED
  BY <1>3, <1>4, <1>5 DEF JobInv

LEMMA WapCommitInv ==
  ASSUME TypeOK, JobInv, NEW s \in Session, NEW j \in JobId, WapCommit(s, j)
  PROVE  JobInv'
<1>1. /\ job \in [JobId -> Job] /\ run \in [JobId -> Run]
      /\ cancelling \in [Session -> JobId \cup {NoJob}]
      /\ published \in [JobId -> {"none", "held", "requires_approval",
                                  "published"}]
  BY DEF TypeOK, OperationsTypeOK, JobStoreTypeOK, WapTypeOK
<1> DEFINE verdict == Verdict(auditing[s].green, auditing[s].payload)
<1>2. /\ ~Exists(j)
      /\ \A i \in JobId \ {j} : /\ job'[i] = job[i] /\ run'[i] = run[i]
                                /\ published'[i] = published[i]
      /\ job'[j].status = WapStatus(verdict)
      /\ run'[j].status = WapStatus(verdict)
      /\ run'[j].command = (verdict = "published")
      /\ run'[j].ended = IF verdict = "published" THEN 1 ELSE 0
      /\ published'[j] = verdict
      /\ UNCHANGED cancelling
  BY <1>1 DEF WapCommit, InsertJob
<1>3. WapStatus(verdict) = IF verdict = "published" THEN "succeeded"
                           ELSE "queued"
  BY DEF WapStatus
<1>4. RunFollowsJob' /\ StatusIsReached'
  BY <1>2, <1>3 DEF JobInv, RunFollowsJob, StatusIsReached, Terminal
<1>5. CancelsWaitingJob'
  BY <1>1, <1>2 DEF JobInv, CancelsWaitingJob, Exists
<1>6. VerdictStands'
  BY <1>2, <1>3 DEF JobInv, VerdictStands
<1> QED
  BY <1>4, <1>5, <1>6 DEF JobInv

LEMMA CancelInv ==
  ASSUME TypeOK, JobInv, CancelStep, UNCHANGED wapVars
  PROVE  JobInv'
<1>1. /\ job \in [JobId -> Job] /\ run \in [JobId -> Run]
      /\ cancelling \in [Session -> JobId \cup {NoJob}]
  BY DEF TypeOK, OperationsTypeOK, JobStoreTypeOK
<1>2. UNCHANGED published
  BY DEF wapVars
<1>3. ASSUME NEW s \in Session, NEW j \in JobId, CancelBegin(s, j)
      PROVE  JobInv'
  <2>1. UNCHANGED <<job, run>> /\ Exists(j) /\ job[j].status = "queued"
    BY <1>3 DEF CancelBegin, JobInv, StatusIsReached, Terminal
  <2>2. CancelsWaitingJob'
    BY <1>1, <1>3, <2>1 DEF CancelBegin, JobInv, CancelsWaitingJob, Exists
  <2> QED
    BY <1>2, <2>1, <2>2
    DEF JobInv, RunFollowsJob, StatusIsReached, VerdictStands
<1>4. ASSUME NEW s \in Session, CancelCommit(s)
      PROVE  JobInv'
  <2> DEFINE c == cancelling[s]
  <2>1. c \in JobId /\ job[c].status \in {"queued", "cancelled"}
    BY <1>1, <1>4 DEF CancelCommit, JobInv, CancelsWaitingJob
  <2>2. /\ \A i \in JobId \ {c} : job'[i] = job[i] /\ run'[i] = run[i]
        /\ job'[c].status = "cancelled" /\ job'[c].kind = job[c].kind
        /\ run'[c].status = "cancelled" /\ run'[c].ended # 0
        /\ run'[c].command = run[c].command
    <3>1. run[c] \in Run /\ job[c] \in Job
      BY <1>1, <2>1
    <3>2. /\ job' = [job EXCEPT ![c].status = "cancelled"]
          /\ run' = [run EXCEPT ![c].status = "cancelled",
                                ![c].ended = @ + 1]
      BY <1>4 DEF CancelCommit
    <3>3. /\ \A i \in JobId \ {c} : job'[i] = job[i] /\ run'[i] = run[i]
          /\ job'[c] = [job[c] EXCEPT !.status = "cancelled"]
          /\ run'[c] = [run[c] EXCEPT !.status = "cancelled",
                                     !.ended = run[c].ended + 1]
      BY <1>1, <2>1, <3>2
    <3> QED
      BY <3>1, <3>3 DEF Job, Run
  <2>3. RunFollowsJob' /\ StatusIsReached'
    BY <2>1, <2>2 DEF JobInv, RunFollowsJob, StatusIsReached, Terminal
  <2>4. CancelsWaitingJob'
    BY <1>1, <1>4, <2>1, <2>2
    DEF CancelCommit, JobInv, CancelsWaitingJob, Exists
  <2>5. VerdictStands'
    BY <1>2, <2>1, <2>2 DEF JobInv, VerdictStands
  <2> QED
    BY <2>3, <2>4, <2>5 DEF JobInv
<1>5. ASSUME NEW s \in Session, CancelAbort(s)
      PROVE  JobInv'
  BY <1>1, <1>2, <1>5
  DEF CancelAbort, JobInv, RunFollowsJob, StatusIsReached, CancelsWaitingJob,
      VerdictStands, Exists
<1> QED
  BY <1>3, <1>4, <1>5 DEF CancelStep

LEMMA NextJobInv == TypeOK /\ JobInv /\ [Next]_vars => JobInv'
<1> SUFFICES ASSUME TypeOK, JobInv, [Next]_vars
             PROVE  JobInv'
  OBVIOUS
<1>1. CASE JobsUntouched
  BY <1>1
  DEF JobsUntouched, JobInv, RunFollowsJob, StatusIsReached,
      CancelsWaitingJob, VerdictStands, Exists
<1> QED
  BY <1>1, JobSteps, QueueJobInv, WapCommitInv, CancelInv

LEMMA JobInvariant == Spec => [](TypeOK /\ JobInv)
<1>1. Init => TypeOK /\ JobInv
  BY InitTypes, InitJobInv
<1>2. TypeOK /\ JobInv /\ [Next]_vars => (TypeOK /\ JobInv)'
  BY NextTypes, NextJobInv
<1> QED
  BY <1>1, <1>2, PTL DEF Spec

(* A job and its run always have the same status, and the run has ended    *)
(* exactly when that status is final, although the two rows are written by *)
(* different loops of different handlers.                                  *)
THEOREM RunAlwaysFollowsJob == Spec => []RunFollowsJob
BY JobInvariant, PTL DEF JobInv

(* What a Write-Audit-Publish run told its client stays true of its job:   *)
(* no interleaving of cancel handlers takes a published run back or        *)
(* publishes a held one.                                                   *)
THEOREM VerdictAlwaysStands == Spec => []VerdictStands
BY JobInvariant, PTL DEF JobInv

(* No step takes back an end: every cancel handler that is still to commit *)
(* loaded its job while it was waiting, and a job leaves that state only   *)
(* to be cancelled, so what such a handler rewrites is the time.           *)
THEOREM EndedStaysFinal == Spec => EndedIsFinal
<1> DEFINE Redated(j) ==
             /\ job[j].status = "cancelled"
             /\ \E s \in Session : cancelling[s] = j
             /\ run'[j] = [run[j] EXCEPT !.ended = @ + 1]
           Final(j) == job'[j] = job[j] /\ (run'[j] = run[j] \/ Redated(j))
<1>1. ASSUME TypeOK, JobInv, [Next]_vars, NEW j \in JobId, Exists(j),
             job[j].status \in Terminal
      PROVE  Final(j)
  <2>1. /\ job \in [JobId -> Job] /\ run \in [JobId -> Run]
        /\ cancelling \in [Session -> JobId \cup {NoJob}]
    BY <1>1 DEF TypeOK, OperationsTypeOK, JobStoreTypeOK
  <2>2. CASE JobsUntouched
    BY <2>2 DEF JobsUntouched
  <2>3. CASE \E s \in Session, i \in JobId : QueueJob(s, i) \/ WapCommit(s, i)
    BY <1>1, <2>1, <2>3 DEF QueueJob, WapCommit, InsertJob
  <2>4. ASSUME NEW s \in Session, CancelCommit(s)
        PROVE  Final(j)
    <3> DEFINE c == cancelling[s]
    <3>1. c \in JobId /\ job[c].status \in {"queued", "cancelled"}
      BY <1>1, <2>1, <2>4 DEF CancelCommit, JobInv, CancelsWaitingJob
    <3>2. CASE j # c
      BY <2>1, <2>4, <3>1, <3>2 DEF CancelCommit
    <3>3. CASE j = c
      <4>1. job[c].status = "cancelled" /\ run[c].status = "cancelled"
        BY <1>1, <3>1, <3>3 DEF JobInv, RunFollowsJob, Terminal
      <4>2. job'[c] = job[c]
        BY <2>1, <2>4, <3>1, <4>1 DEF CancelCommit, Job
      <4>3. run'[c] = [run[c] EXCEPT !.ended = @ + 1]
        <5>1. run[c] \in Run
          BY <2>1, <3>1
        <5>2. run' = [run EXCEPT ![c].status = "cancelled",
                                 ![c].ended = @ + 1]
          BY <2>4 DEF CancelCommit
        <5>3. run'[c] = [run[c] EXCEPT !.status = "cancelled",
                                       !.ended = run[c].ended + 1]
          BY <2>1, <3>1, <5>2
        <5> QED
          BY <4>1, <5>1, <5>3 DEF Run
      <4> QED
        BY <3>3, <4>1, <4>2, <4>3
    <3> QED
      BY <3>2, <3>3
  <2>5. CASE CancelStep
    BY <2>4, <2>5 DEF CancelStep, CancelBegin, CancelAbort
  <2> QED
    BY <1>1, <2>2, <2>3, <2>5, JobSteps
<1>2. TypeOK /\ JobInv /\ [Next]_vars =>
        [\A j \in JobId :
           Exists(j) /\ job[j].status \in Terminal =>
             /\ job'[j] = job[j]
             /\ \/ run'[j] = run[j]
                \/ /\ job[j].status = "cancelled"
                   /\ \E s \in Session : cancelling[s] = j
                   /\ run'[j] = [run[j] EXCEPT !.ended = @ + 1]]_<<job, run>>
  BY <1>1
<1> QED
  BY <1>2, JobInvariant, PTL DEF Spec, EndedIsFinal

-----------------------------------------------------------------------------
(* The steps of JobLifecycle that the commits of the handlers are.         *)
LEMMA PhaseOfSubmit ==
  ASSUME TypeOK, JobInv, NEW s \in Session, NEW j \in JobId,
         QueueJob(s, j) \/ WapCommit(s, j)
  PROVE  Lifecycle!Submit(j)
<1>1. job \in [JobId -> Job] /\ run \in [JobId -> Run]
  BY DEF TypeOK, OperationsTypeOK, JobStoreTypeOK
<1>2. /\ ~Exists(j) /\ Exists(j)'
      /\ \A i \in JobId \ {j} : job'[i] = job[i] /\ run'[i] = run[i]
      /\ job'[j].status \in {"queued", "succeeded"}
      /\ run'[j].status = job'[j].status
  BY <1>1 DEF QueueJob, WapCommit, InsertJob, WapStatus, Exists
<1>3. /\ Phase(j) = "absent" /\ Phase(j)' \in {"waiting", "done"}
      /\ \A i \in JobId \ {j} : Phase(i)' = Phase(i)
  BY <1>2 DEF Phase, Exists
<1> QED
  BY <1>3 DEF Lifecycle!Submit

LEMMA PhaseOfCancel ==
  ASSUME TypeOK, JobInv, NEW s \in Session, CancelCommit(s),
         NEW c \in JobId, c = cancelling[s]
  PROVE  \/ Lifecycle!Cancel(c)
         \/ \A i \in JobId : Phase(i)' = Phase(i)
<1>1. /\ job \in [JobId -> Job] /\ run \in [JobId -> Run]
      /\ job[c].status \in {"queued", "cancelled"} /\ Exists(c)
      /\ run[c].status = job[c].status
  BY DEF TypeOK, OperationsTypeOK, JobStoreTypeOK, CancelCommit, JobInv,
         CancelsWaitingJob, RunFollowsJob
<1>2. /\ \A i \in JobId \ {c} : job'[i] = job[i] /\ run'[i] = run[i]
      /\ job'[c].status = "cancelled" /\ job'[c].kind = job[c].kind
      /\ run'[c].status = "cancelled"
  BY <1>1 DEF CancelCommit, Job, Run
<1>3. /\ Phase(c)' = "cancelled"
      /\ Phase(c) \in {"waiting", "cancelled"}
      /\ \A i \in JobId \ {c} : Phase(i)' = Phase(i)
  BY <1>1, <1>2 DEF Phase, Exists
<1> QED
  BY <1>1, <1>3 DEF Lifecycle!Cancel

(* The control plane implements JobLifecycle: under the mapping that reads *)
(* a job and its run as one phase, every step of every handler submits one *)
(* job, cancels one waiting job or changes nothing.                        *)
THEOREM ImplementsJobLifecycle == Spec => RefinesJobLifecycle
<1>1. Init => Lifecycle!Init
  BY DEF Init, JobStoreInit, Lifecycle!Init, Phase, Exists
<1>2. ASSUME TypeOK, JobInv, [Next]_vars
      PROVE  [Lifecycle!Next]_[j \in JobId |-> Phase(j)]
  <2>1. CASE \E s \in Session, j \in JobId : QueueJob(s, j) \/ WapCommit(s, j)
    BY <1>2, <2>1, PhaseOfSubmit DEF Lifecycle!Next
  <2>2. CASE JobsUntouched
    BY <2>2 DEF JobsUntouched, Phase, Exists
  <2>3. CASE CancelStep
    <3>1. ASSUME NEW s \in Session, CancelCommit(s)
          PROVE  [Lifecycle!Next]_[j \in JobId |-> Phase(j)]
      <4>1. cancelling[s] \in JobId
        BY <1>2, <3>1
        DEF TypeOK, OperationsTypeOK, JobStoreTypeOK, CancelCommit
      <4> QED
        BY <1>2, <3>1, <4>1, PhaseOfCancel DEF Lifecycle!Next
    <3>2. CASE UNCHANGED <<job, run>>
      BY <3>2 DEF Phase, Exists
    <3> QED
      BY <2>3, <3>1, <3>2 DEF CancelStep, CancelBegin, CancelAbort
  <2> QED
    BY <1>2, <2>1, <2>2, <2>3, JobSteps
<1> QED
  BY <1>1, <1>2, JobInvariant, PTL
  DEF Spec, RefinesJobLifecycle, Lifecycle!Spec
=============================================================================
