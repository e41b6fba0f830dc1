----------------------------- MODULE Operations -----------------------------
(***************************************************************************)
(* Dry runs, execution, approvals and restore points: OperationService     *)
(* (operations/service.py) and the decision handler (approvals/router.py), *)
(* with the two things they depend on that others change meanwhile: the    *)
(* table index and the compute backends.                                   *)
(*                                                                         *)
(* Every handler is one transaction, committed at its end.  A handler that *)
(* uses at its commit what it read before is two steps, and the process    *)
(* may die between them.  Foreign keys are enforced, as in PostgreSQL.     *)
(* A request the service refuses (4xx, or an answer "blocked") changes     *)
(* nothing and is no step.                                                 *)
(***************************************************************************)
EXTENDS Naturals, TableIndex, JobStore

CONSTANTS
  OperationId,  \* identifiers of operation descriptors
  Descriptors,  \* the descriptor of each operation
  ApprovalId,   \* identifiers of approval requests
  Backend,      \* identifiers of compute backends, in creation order
  BackendType,  \* the types of compute backend in use
  User,         \* users of the workspace
  Key,          \* idempotency keys a client may send
  NoTable, NoKey, NoUser, NoApproval

R == INSTANCE OperationRegistry

ASSUME OperationsAssumption ==
  /\ Descriptors \in [OperationId -> R!Descriptor]
  /\ Backend \subseteq Nat
  /\ BackendType \subseteq {"spark", "trino", "other"}
  /\ BackendType # {}
  /\ OperationId # {}
  /\ NoTable \notin Table
  /\ NoKey \notin Key
  /\ NoUser \notin User
  /\ NoApproval \notin ApprovalId

(* An OperationRequest row.  `pending` and `blocked` are the gates with    *)
(* that result in gate_results; the other gates of the operation passed.   *)
(* Of the parameters only target_version is kept, where a gate reads it.   *)
Request ==
  [present : BOOLEAN, operation : OperationId, table : Table \cup {NoTable},
   target : R!TargetVersion, pending : SUBSET R!Gate,
   blocked : SUBSET R!Gate]

ApprovalStatus == {"none", "pending", "approved", "rejected"}

(* An ApprovalRequest row; status "none" means that it does not exist.     *)
Approval ==
  [status : ApprovalStatus, reviewer : User \cup {NoUser},
   request : RequestId \cup {NoRequest}]

(* A RestorePoint row; its name is derived from the job.                   *)
RestorePoint == [table : Table, request : RequestId, job : JobId]

(* What an execute handler has read: the request, its table and, when a    *)
(* compute backend is needed, the engine; and the key it was given.        *)
Execution ==
  [request : RequestId \cup {NoRequest}, table : Table \cup {NoTable},
   engine : Engine, key : Key \cup {NoKey}]

(* What a decision handler has read, and what it was asked.                *)
Decision ==
  [approval : ApprovalId \cup {NoApproval}, decision : ApprovalStatus,
   user : User \cup {NoUser}, status : ApprovalStatus,
   reviewer : User \cup {NoUser}]

VARIABLES
  backend,    \* the compute_backend table
  request,    \* the operation_request table
  approval,   \* the approval_request table
  restore,    \* the restore_point table
  requested,  \* idempotency key in the audit event of each job
  decided,    \* status and reviewer in the last audit event of an approval
  redecided,  \* approvals written by a handler that had loaded a decision
  executing,  \* the execute handler on each thread
  deciding    \* the decision handler on each thread

opVars == <<backend, request, approval, restore, requested, decided,
            redecided, executing, deciding>>

OperationsTypeOK ==
  /\ TableIndexTypeOK
  /\ JobStoreTypeOK
  /\ backend \in [Backend -> [present : BOOLEAN, environment : Environment,
                              type : BackendType, enabled : BOOLEAN]]
  /\ request \in [RequestId -> Request]
  /\ approval \in [ApprovalId -> Approval]
  /\ restore \subseteq RestorePoint
  /\ requested \in [JobId -> Key \cup {NoKey}]
  /\ decided \in [ApprovalId -> [status : ApprovalStatus,
                                 reviewer : User \cup {NoUser}]]
  /\ redecided \subseteq ApprovalId
  /\ executing \in [Session -> Execution]
  /\ deciding \in [Session -> Decision]

NoExecution ==
  [request |-> NoRequest, table |-> NoTable, engine |-> "internal_worker",
   key |-> NoKey]

NoDecision ==
  [approval |-> NoApproval, decision |-> "none", user |-> NoUser,
   status |-> "none", reviewer |-> NoUser]

OperationsInit ==
  /\ backend = [b \in Backend |->
                  [present |-> FALSE,
                   environment |-> CHOOSE e \in Environment : TRUE,
                   type |-> CHOOSE type \in BackendType : TRUE,
                   enabled |-> FALSE]]
  /\ request = [r \in RequestId |->
                  [present |-> FALSE,
                   operation |-> CHOOSE o \in OperationId : TRUE,
                   table |-> NoTable, target |-> R!NotGiven,
                   pending |-> {}, blocked |-> {}]]
  /\ approval = [a \in ApprovalId |->
                   [status |-> "none", reviewer |-> NoUser,
                    request |-> NoRequest]]
  /\ restore = {}
  /\ requested = [j \in JobId |-> NoKey]
  /\ decided = [a \in ApprovalId |-> [status |-> "none", reviewer |-> NoUser]]
  /\ redecided = {}
  /\ executing = [s \in Session |-> NoExecution]
  /\ deciding = [s \in Session |-> NoDecision]

jobVars == <<job, run, cancelling>>

-----------------------------------------------------------------------------
(* Dry run.                                                                *)

(* _params_with_defaults: the value of target_version after the default.   *)
EffectiveTarget(d, given) ==
  IF given = R!NotGiven THEN d.target_default ELSE given

(* _evaluate_gates.  The version is compared with the number 3.            *)
PendingGates(d, t, target) ==
  {g \in d.gates :
     \/ g = "approval_required"
     \/ /\ g = "reader_compatibility_check"
        /\ t # NoTable
        /\ target = "number 3"
        /\ ~table[t].v3
     \/ g = "protected_ref_check" /\ t # NoTable /\ table[t].protected}

(* foreign: the parameter location names another storage authority than    *)
(* the table's.                                                            *)
BlockedGates(d, t, foreign) ==
  {g \in d.gates : g = "path_authority_check" /\ t # NoTable /\ foreign}

(* dry_run stores what it found.  It is one step: the foreign key makes    *)
(* its insert fail when the table it read is gone.                         *)
DryRun(r, o, t, given, foreign) ==
  LET d == Descriptors[o]
      target == EffectiveTarget(d, given)
  IN  /\ ~request[r].present
      /\ d.requires_table => t # NoTable
      /\ t # NoTable => table[t].present
      /\ d.target_options # {} => target \in d.target_options
      /\ request' = [request EXCEPT ![r] =
                       [present |-> TRUE, operation |-> o, table |-> t,
                        target |->
                          IF "reader_compatibility_check" \in d.gates
                          THEN target ELSE R!NotGiven,
                        pending |-> PendingGates(d, t, target),
                        blocked |-> BlockedGates(d, t, foreign)]]
      /\ UNCHANGED <<table, jobVars, backend, approval, restore, requested,
                     decided, redecided, executing, deciding>>

-----------------------------------------------------------------------------
(* Execute.                                                                *)

DescriptorOf(r) == Descriptors[request[r].operation]

RequiresCompute(d) ==
  \/ d.spark_required
  \/ d.writes_data /\ ~d.native_metadata
  \/ d.safety_class \in {"REWRITE", "DESTRUCTIVE"}

(* A wrong filter: the type of the backend is forgotten.                   *)
EligibleOfAnyType(t) ==
  {b \in Backend : /\ backend[b].present
                   /\ backend[b].environment = table[t].environment
                   /\ backend[b].enabled}

(* The backends that can run work on the table, and the newest of them.    *)
Eligible(t) ==
  {b \in Backend : /\ backend[b].present
                   /\ backend[b].environment = table[t].environment
                   /\ backend[b].enabled
                   /\ backend[b].type \in {"spark", "trino"}}

Newest(B) == {b \in B : \A c \in B : c <= b}

(* _resolve_runtime: the engine it answers with, none when it blocks.      *)
Runtime(r) ==
  LET t == request[r].table IN
  IF ~RequiresCompute(DescriptorOf(r)) THEN {"internal_worker"}
  ELSE IF t = NoTable \/ ~table[t].present THEN {}
  ELSE {backend[b].type : b \in Newest(Eligible(t))}

(* A wrong check: the stored gate results are not consulted.               *)
ClearedWithoutGates(r, confirmed, key) ==
  /\ request[r].present
  /\ DescriptorOf(r).safety_class = "DESTRUCTIVE" => confirmed
  /\ "idempotent_retry" \in DescriptorOf(r).gates => key # NoKey

(* The checks of execute before it resolves the runtime.  The gate results *)
(* are those the dry run stored.                                           *)
Cleared(r, confirmed, key) ==
  /\ request[r].present
  /\ request[r].blocked = {}
  /\ DescriptorOf(r).safety_class = "DESTRUCTIVE" => confirmed
  /\ "idempotent_retry" \in DescriptorOf(r).gates => key # NoKey

(* execute up to its first write.                                          *)
ExecuteBegin(s, r, confirmed, key) ==
  /\ executing[s].request = NoRequest
  /\ Cleared(r, confirmed, key)
  /\ \E engine \in Runtime(r) :
       executing' = [executing EXCEPT ![s] =
         [request |-> r, table |-> request[r].table, engine |-> engine,
          key |-> key]]
  /\ UNCHANGED <<table, jobVars, backend, request, approval, restore,
                 requested, decided, redecided, deciding>>

(* A wrong rule: a request that was put before a reviewer once goes on,    *)
(* while the reviewer thinks and even after a rejection.                   *)
NeedsApprovalOnce(r) ==
  /\ DescriptorOf(r).approval_required
  /\ \A a \in ApprovalId : approval[a].request # r

NeedsApproval(r) == DescriptorOf(r).approval_required

(* The operation needs approval: a new pending approval, and no job.       *)
RequestApproval(s, a) ==
  LET r == executing[s].request IN
  /\ r # NoRequest
  /\ NeedsApproval(r)
  /\ approval[a].status = "none"
  /\ approval' = [approval EXCEPT ![a] =
                    [status |-> "pending", reviewer |-> NoUser,
                     request |-> r]]
  /\ executing' = [executing EXCEPT ![s] = NoExecution]
  /\ UNCHANGED <<table, jobVars, backend, request, restore, requested,
                 decided, redecided, deciding>>

(* A wrong rule: only the class decides whether a restore point is due.    *)
NeedsRestorePointByClass(x) ==
  /\ DescriptorOf(x.request).safety_class \in {"REWRITE", "DESTRUCTIVE"}
  /\ x.table # NoTable

NeedsRestorePoint(x) ==
  DescriptorOf(x.request).restore_point_required /\ x.table # NoTable

(* A job is queued, with its run and its restore point.  The foreign key   *)
(* of the restore point needs the table.                                   *)
QueueJob(s, j) ==
  LET x == executing[s] IN
  /\ x.request # NoRequest
  /\ ~NeedsApproval(x.request)
  /\ NeedsRestorePoint(x) => table[x.table].present
  /\ InsertJob(j,
       [kind |-> "oneoff", status |-> "queued", request |-> x.request],
       [status |-> "queued", engine |-> x.engine, command |-> TRUE,
        restore |-> NeedsRestorePoint(x), ended |-> 0])
  /\ restore' = IF NeedsRestorePoint(x)
                THEN restore \cup
                       {[table |-> x.table, request |-> x.request,
                         job |-> j]}
                ELSE restore
  /\ requested' = [requested EXCEPT ![j] = x.key]
  /\ executing' = [executing EXCEPT ![s] = NoExecution]
  /\ UNCHANGED <<table, cancelling, backend, request, approval, decided,
                 redecided, deciding>>

(* The handler fails or the process dies: the session is rolled back.      *)
ExecuteAbort(s) ==
  /\ executing[s].request # NoRequest
  /\ executing' = [executing EXCEPT ![s] = NoExecution]
  /\ UNCHANGED <<table, jobVars, backend, request, approval, restore,
                 requested, decided, redecided, deciding>>

-----------------------------------------------------------------------------
(* Decisions.                                                              *)

(* decide_approval loads the row, whatever its status.                     *)
DecideBegin(s, a, decision, user) ==
  /\ deciding[s].approval = NoApproval
  /\ approval[a].status # "none"
  /\ deciding' = [deciding EXCEPT ![s] =
                    [approval |-> a, decision |-> decision, user |-> user,
                     status |-> approval[a].status,
                     reviewer |-> approval[a].reviewer]]
  /\ UNCHANGED <<table, jobVars, backend, request, approval, restore,
                 requested, decided, redecided, executing>>

(* A wrong flush: the first reviewer is kept.                              *)
DecidedRowKeepingReviewer(x) ==
  [approval[x.approval] EXCEPT
     !.status = x.decision,
     !.reviewer = IF @ = NoUser THEN x.user ELSE @]

(* The columns that the flush writes are those whose value differs from    *)
(* the loaded one; the others keep what the row holds by then.             *)
DecidedRow(x) ==
  [approval[x.approval] EXCEPT
     !.status = IF x.decision # x.status THEN x.decision ELSE @,
     !.reviewer = IF x.user # x.reviewer THEN x.user ELSE @]

DecideCommit(s) ==
  LET x == deciding[s] IN
  /\ x.approval # NoApproval
  /\ approval' = [approval EXCEPT ![x.approval] = DecidedRow(x)]
  /\ decided' = [decided EXCEPT ![x.approval] =
                   [status |-> x.decision, reviewer |-> x.user]]
  /\ redecided' = IF x.status = "pending" THEN redecided
                  ELSE redecided \cup {x.approval}
  /\ deciding' = [deciding EXCEPT ![s] = NoDecision]
  /\ UNCHANGED <<table, jobVars, backend, request, restore, requested,
                 executing>>

DecideAbort(s) ==
  /\ deciding[s].approval # NoApproval
  /\ deciding' = [deciding EXCEPT ![s] = NoDecision]
  /\ UNCHANGED <<table, jobVars, backend, request, approval, restore,
                 requested, decided, redecided, executing>>
-----------------------------------------------------------------------------
(* What changes under the operations: the index and the backends.          *)

Sync(t) ==
  /\ SyncTable(t)
  /\ UNCHANGED <<jobVars, opVars>>

(* ConnectionService._delete_tables, when a catalog or an environment is   *)
(* removed: restore points go, requests lose their table.                  *)
RemoveTableWithConnection(t) ==
  /\ RemoveTable(t)
  /\ restore' = {p \in restore : p.table # t}
  /\ request' = [r \in RequestId |->
                   IF request[r].table = t
                   THEN [request[r] EXCEPT !.table = NoTable]
                   ELSE request[r]]
  /\ UNCHANGED <<jobVars, backend, approval, requested, decided, redecided,
                 executing, deciding>>

(* A wrong removal: the restore points stay behind.                        *)
RemoveStaleTableUnchecked(t) ==
  /\ RemoveTable(t)
  /\ UNCHANGED <<jobVars, opVars>>

(* IcebergService._delete_table_rows, when a sync no longer finds the      *)
(* table: the rows that name it are left, and its foreign keys refuse.     *)
RemoveStaleTable(t) ==
  /\ RemoveTable(t)
  /\ \A r \in RequestId : request[r].table # t
  /\ \A p \in restore : p.table # t
  /\ UNCHANGED <<jobVars, opVars>>

BackendUnchanged ==
  UNCHANGED <<table, jobVars, request, approval, restore, requested, decided,
              redecided, executing, deciding>>

(* create_compute_backend: it is enabled, and newer than every other.      *)
CreateBackend(b, e, type) ==
  /\ ~backend[b].present
  /\ \A c \in Backend : backend[c].present => c < b
  /\ backend' = [backend EXCEPT ![b] = [present |-> TRUE, environment |-> e,
                                        type |-> type, enabled |-> TRUE]]
  /\ BackendUnchanged

UpdateBackend(b, e, type, enabled) ==
  /\ backend[b].present
  /\ backend' = [backend EXCEPT ![b] = [present |-> TRUE, environment |-> e,
                                        type |-> type, enabled |-> enabled]]
  /\ BackendUnchanged

DeleteBackend(b) ==
  /\ backend[b].present
  /\ backend' = [backend EXCEPT ![b].present = FALSE]
  /\ BackendUnchanged

-----------------------------------------------------------------------------
OneOff(j) == job[j].kind = "oneoff"

(* Work reaches the queue only for a request that was dry run, that no     *)
(* stored gate blocks and whose descriptor asks for no approval, and with  *)
(* a key where one is demanded: the request is read at the start of        *)
(* execute, the job is written at its end (service.py:192-264).            *)
OnlyClearedWorkIsQueued ==
  \A j \in JobId : OneOff(j) =>
    LET r == job[j].request IN
    /\ request[r].present
    /\ request[r].blocked = {}
    /\ ~DescriptorOf(r).approval_required
    /\ "idempotent_retry" \in DescriptorOf(r).gates => requested[j] # NoKey

(* Work that needs compute is queued for Spark or Trino and other work for *)
(* the internal worker, whatever happened to the backends between the      *)
(* resolution of the runtime and the commit (service.py:332-389).          *)
EngineFitsOperation ==
  \A j \in JobId : OneOff(j) =>
    run[j].engine \in IF RequiresCompute(DescriptorOf(job[j].request))
                      THEN {"spark", "trino"} ELSE {"internal_worker"}

(* A job whose operation demands a restore point has one on the table of   *)
(* its request for as long as the request has a table, and its run refers  *)
(* to it, although tables are removed concurrently (service.py:268-289).   *)
RestorePointHeld ==
  \A j \in JobId :
    LET r == job[j].request IN
    /\ OneOff(j)
    /\ DescriptorOf(r).restore_point_required
    /\ request[r].table # NoTable
    => /\ run[j].restore
       /\ \E p \in restore :
            p.job = j /\ p.request = r /\ p.table = request[r].table

(* No request and no restore point names a table that is gone, whichever   *)
(* component removed it (connections/service.py:533, iceberg:889).         *)
NoDanglingTable ==
  /\ \A r \in RequestId :
       request[r].table # NoTable => table[request[r].table].present
  /\ \A p \in restore : table[p.table].present

(* Two reviewers who both open a pending approval leave one whole          *)
(* decision, that of the last commit, as the audit trail tells it.  It is  *)
(* claimed only for approvals nobody re-decided (approvals/router.py:44).  *)
FirstDecisionIsWhole ==
  \A a \in ApprovalId \ redecided :
    approval[a].status \in {"approved", "rejected"} =>
      /\ approval[a].status = decided[a].status
      /\ approval[a].reviewer = decided[a].reviewer

-----------------------------------------------------------------------------
(* What the repository says and the code does not do.                      *)

(* "Approval must be granted before execution." (service.py:454): a job    *)
(* whose dry run left that gate pending has an approved approval.          *)
ApprovalGateHonoured ==
  \A j \in JobId :
    OneOff(j) /\ "approval_required" \in request[job[j].request].pending =>
      \E a \in ApprovalId : /\ approval[a].request = job[j].request
                            /\ approval[a].status = "approved"

(* "approving runs this exact request." (Governance.tsx:135)               *)
ApprovedRequestRuns ==
  \A a \in ApprovalId :
    approval[a].status = "approved" ~>
      \E j \in JobId : OneOff(j) /\ job[j].request = approval[a].request
=============================================================================
