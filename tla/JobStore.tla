------------------------------ MODULE JobStore ------------------------------
(***************************************************************************)
(* Jobs and their runs, and the cancel handler (jobs/router.py).  A job is *)
(* created with exactly one run, in the transaction that creates it.  A    *)
(* handler is two steps: the statements that read, and the commit.         *)
(***************************************************************************)

EXTENDS Naturals

CONSTANTS
  JobId,      \* identifiers of jobs
  RequestId,  \* identifiers of operation requests
  Session,    \* threads, each with the database session of its request
  NoJob, NoRequest

ASSUME JobStoreAssumption == NoJob \notin JobId /\ NoRequest \notin RequestId

Status == {"queued", "running", "succeeded", "failed", "cancelled"}
Terminal == {"succeeded", "failed", "cancelled"}
Engine == {"internal_worker", "spark", "trino", "control-plane"}

(* A row of kind "none" has not been inserted.                             *)
Job ==
  [kind : {"none", "oneoff", "wap"}, status : Status,
   request : RequestId \cup {NoRequest}]

(* `command` says whether compiled_command is not empty, `restore` whether *)
(* pre_op_restore_ref is set.  `ended` counts how often ended_at, and with *)
(* it the updated_at of the job, has been written to record an end.        *)
Run ==
  [status : Status, engine : Engine, command : BOOLEAN, restore : BOOLEAN,
   ended : Nat]

VARIABLES
  job,        \* the job table
  run,        \* the job_run table: the run of each job
  cancelling  \* the job loaded by the cancel handler on each thread

JobStoreTypeOK ==
  /\ job \in [JobId -> Job]
  /\ run \in [JobId -> Run]
  /\ cancelling \in [Session -> JobId \cup {NoJob}]

JobStoreInit ==
  /\ job = [j \in JobId |->
              [kind |-> "none", status |-> "queued", request |-> NoRequest]]
  /\ run = [j \in JobId |->
              [status |-> "queued", engine |-> "internal_worker",
               command |-> FALSE, restore |-> FALSE, ended |-> 0]]
  /\ cancelling = [s \in Session |-> NoJob]

Exists(j) == job[j].kind # "none"

(* A handler inserts a job and its run and commits.                        *)
InsertJob(j, jobRow, runRow) ==
  /\ ~Exists(j)
  /\ job' = [job EXCEPT ![j] = jobRow]
  /\ run' = [run EXCEPT ![j] = runRow]

-----------------------------------------------------------------------------
(* A wrong guard: a job that has ended is cancelled too.                   *)
CancelBeginEnded(s, j) ==
  /\ cancelling[s] = NoJob
  /\ Exists(j)
  /\ cancelling' = [cancelling EXCEPT ![s] = j]
  /\ UNCHANGED <<job, run>>

(* cancel_job reads the job and answers at once when it is missing or has  *)
(* ended.                                                                  *)
CancelBegin(s, j) ==
  /\ cancelling[s] = NoJob
  /\ Exists(j)
  /\ job[j].status \notin Terminal
  /\ cancelling' = [cancelling EXCEPT ![s] = j]
  /\ UNCHANGED <<job, run>>

(* A wrong commit: the run gets no end time.                               *)
CancelCommitUnended(s) ==
  /\ cancelling[s] # NoJob
  /\ job' = [job EXCEPT ![cancelling[s]].status = "cancelled"]
  /\ run' = [run EXCEPT ![cancelling[s]].status = "cancelled"]
  /\ cancelling' = [cancelling EXCEPT ![s] = NoJob]

(* The job and its run are written whatever they became since the read,    *)
(* with a new time.                                                        *)
CancelCommit(s) ==
  /\ cancelling[s] # NoJob
  /\ job' = [job EXCEPT ![cancelling[s]].status = "cancelled"]
  /\ run' = [run EXCEPT ![cancelling[s]].status = "cancelled",
                        ![cancelling[s]].ended = @ + 1]
  /\ cancelling' = [cancelling EXCEPT ![s] = NoJob]

(* The handler dies before its commit; its session is rolled back.         *)
CancelAbort(s) ==
  /\ cancelling[s] # NoJob
  /\ cancelling' = [cancelling EXCEPT ![s] = NoJob]
  /\ UNCHANGED <<job, run>>

-----------------------------------------------------------------------------
(* A job and its run have the same status, and the run has an end time     *)
(* exactly when that status is final: two rows written by two loops of two *)
(* handlers (wap/service.py:69-72, jobs/router.py:119-123).                *)
RunFollowsJob ==
  \A j \in JobId :
    /\ run[j].status = job[j].status
    /\ run[j].ended # 0 <=> job[j].status \in Terminal

(* A job that has ended stays as it is: cancel handlers that loaded it     *)
(* before find it cancelled if anything, and rewrite only the time of its  *)
(* end (jobs/router.py:117-123).                                           *)
EndedIsFinal ==
  [][\A j \in JobId :
       Exists(j) /\ job[j].status \in Terminal =>
         /\ job'[j] = job[j]
         /\ \/ run'[j] = run[j]
            \/ /\ job[j].status = "cancelled"
               /\ \E s \in Session : cancelling[s] = j
               /\ run'[j] = [run[j] EXCEPT !.ended = @ + 1]]_<<job, run>>
=============================================================================
