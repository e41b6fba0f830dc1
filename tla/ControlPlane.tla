---------------------------- MODULE ControlPlane ----------------------------
(***************************************************************************)
(* The control plane as one system: operations, approvals, Write-Audit-    *)
(* Publish runs and cancellation over one job table, one table index and   *)
(* one set of compute backends.                                            *)
(***************************************************************************)
EXTENDS Operations, WriteAuditPublish

wapVars == <<auditing, published>>
vars == <<table, job, run, cancelling, opVars, wapVars>>

TypeOK == OperationsTypeOK /\ WapTypeOK

Init == TableIndexInit /\ JobStoreInit /\ OperationsInit /\ WapInit

(* A thread serves one request at a time.                                  *)
Idle(s) ==
  /\ executing[s].request = NoRequest
  /\ deciding[s].approval = NoApproval
  /\ cancelling[s] = NoJob
  /\ auditing[s].phase = "idle"

(* The steps of a handler in flight: its commit, or its end by failure.    *)
Finish(s) ==
  \/ \E a \in ApprovalId : RequestApproval(s, a)
  \/ \E j \in JobId : QueueJob(s, j)
  \/ DecideCommit(s)

OperationsStep ==
  \/ \E r \in RequestId, o \in OperationId, t \in Table \cup {NoTable},
        given \in R!TargetVersion, foreign \in BOOLEAN :
       DryRun(r, o, t, given, foreign)
  \/ \E s \in Session, r \in RequestId, confirmed \in BOOLEAN,
        key \in Key \cup {NoKey} : Idle(s) /\ ExecuteBegin(s, r, confirmed, key)
  \/ \E s \in Session, a \in ApprovalId, user \in User,
        decision \in {"approved", "rejected"} :
       Idle(s) /\ DecideBegin(s, a, decision, user)
  \/ \E s \in Session : Finish(s) \/ ExecuteAbort(s) \/ DecideAbort(s)

SurroundingsStep ==
  \/ \E t \in Table : \/ Sync(t)
                      \/ RemoveTableWithConnection(t)
                      \/ RemoveStaleTable(t)
  \/ \E b \in Backend, e \in Environment, type \in BackendType :
       \/ CreateBackend(b, e, type)
       \/ \E enabled \in BOOLEAN : UpdateBackend(b, e, type, enabled)
  \/ \E b \in Backend : DeleteBackend(b)

CancelStep ==
  /\ \E s \in Session : \/ \E j \in JobId : Idle(s) /\ CancelBegin(s, j)
                        \/ CancelCommit(s)
                        \/ CancelAbort(s)
  /\ UNCHANGED <<table, opVars>>

WapStep ==
  /\ \E s \in Session : \/ \E t \in Table, p \in Payload :
                             Idle(s) /\ WapBegin(s, t, p)
                        \/ WapAudit(s)
                        \/ \E j \in JobId : WapCommit(s, j)
                        \/ WapAbort(s)
  /\ UNCHANGED opVars

Next ==
  \/ (OperationsStep \/ SurroundingsStep \/ CancelStep) /\ UNCHANGED wapVars
  \/ WapStep

Spec == Init /\ [][Next]_vars

(* The thread pool runs every handler it started to its end, and a client  *)
(* that wants its request executed asks again.                             *)
FairSpec ==
  /\ Spec
  /\ \A s \in Session : WF_vars(Finish(s) /\ UNCHANGED wapVars)
  /\ \A r \in RequestId :
       WF_vars(\E s \in Session, key \in Key :
                 /\ Idle(s)
                 /\ ExecuteBegin(s, r, TRUE, key)
                 /\ UNCHANGED wapVars)

-----------------------------------------------------------------------------
(* A job and its run are seen as one phase; the two disagreeing is none.   *)
Phase(j) ==
  IF ~Exists(j) THEN "absent"
  ELSE IF run[j].status # job[j].status THEN "torn"
  ELSE IF job[j].status = "queued" THEN "waiting"
  ELSE IF job[j].status = "succeeded" THEN "done"
  ELSE IF job[j].status = "cancelled" THEN "cancelled"
  ELSE "other"

Lifecycle == INSTANCE JobLifecycle WITH phase <- [j \in JobId |-> Phase(j)]

(* Every step of every handler is a step of the job life cycle: jobs are   *)
(* submitted once, wait, are cancelled, and never come back, however the   *)
(* handlers interleave.                                                    *)
RefinesJobLifecycle == Lifecycle!Spec

Requests ==
  INSTANCE RequestLifecycle WITH
    stored <- {r \in RequestId : request[r].present},
    asked <- [a \in ApprovalId |-> [status |-> approval[a].status,
                                   request |-> approval[a].request]],
    work <- [j \in JobId |-> IF OneOff(j) THEN job[j].request ELSE NoRequest]

(* Every step of every handler is a step of the life cycle of requests:    *)
(* work never runs ahead of a reviewer who was asked about it, however     *)
(* executions, retries and decisions interleave                            *)
(* (operations/service.py:233-264, approvals/router.py:38-60).             *)
RefinesRequestLifecycle == Requests!Spec
=============================================================================
