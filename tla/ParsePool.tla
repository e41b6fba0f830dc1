----------------------------- MODULE ParsePool -----------------------------
(***************************************************************************)
(* Reading the metadata of many tables with a pool of threads:             *)
(* IcebergIndexService._parse_metadata_jobs.  The calling thread submits   *)
(* every job, reads the clock once for each future, and then loops: it     *)
(* waits for at most a second, takes the futures that are done, and gives  *)
(* up on each that is still pending table_timeout_seconds after its own    *)
(* reading.  A thread that reads from an object store may hang for ever.   *)
(***************************************************************************)
EXTENDS Naturals, Sequences, FiniteSets

CONSTANTS
  JobCount,     \* how many tables are to be parsed
  WorkerCount,  \* threads of the pool
  Timeout,      \* table_timeout_seconds
  MaxTime       \* bound on the clock, for model checking

ASSUME ParsePoolAssumption ==
  /\ JobCount \in Nat /\ WorkerCount \in Nat \ {0}
  /\ Timeout \in Nat /\ MaxTime \in Nat /\ Timeout < MaxTime

Job == 1..JobCount

VARIABLES
  now,      \* the monotonic clock, in seconds
  future,   \* the state of each future; the pool takes jobs in order
  started,  \* started_at: the clock as it was read for each future so far
  pc,       \* where the calling thread is
  since,    \* when its last wait began
  pending,  \* the futures it still waits for
  results   \* what it has recorded, in order

vars == <<now, future, started, pc, since, pending, results>>

FutureState == {"queued", "running", "parsed", "raised", "cancelled"}
Finished == {"parsed", "raised"}

Result == [job : Job, kind : {"parsed", "raised", "timed out"}]

TypeOK ==
  /\ now \in Nat
  /\ future \in [Job -> FutureState]
  /\ started \in Seq(Nat) /\ Len(started) <= JobCount
  /\ pc \in {"stamping", "waiting", "checking", "ended"}
  /\ since \in Nat
  /\ pending \subseteq Job
  /\ results \in Seq(Result)

Init ==
  /\ now = 0
  /\ future = [j \in Job |-> "queued"]
  /\ started = <<>>
  /\ pc = IF JobCount = 0 THEN "ended" ELSE "stamping"
  /\ since = 0
  /\ pending = Job
  /\ results = <<>>

(* The clock of a loop that has ended does not matter.  The bound leaves   *)
(* every future the time to its deadline.                                  *)
Tick ==
  /\ pc # "ended"
  /\ now < MaxTime
  /\ pc = "stamping" => now + Timeout < MaxTime
  /\ now' = now + 1
  /\ UNCHANGED <<future, started, pc, since, pending, results>>

Running == {j \in Job : future[j] = "running"}

(* A thread of the pool takes the first job that is still queued.          *)
Start(j) ==
  /\ future[j] = "queued"
  /\ \A i \in Job : i < j => future[i] # "queued"
  /\ Cardinality(Running) < WorkerCount
  /\ future' = [future EXCEPT ![j] = "running"]
  /\ UNCHANGED <<now, started, pc, since, pending, results>>

Finish(j) ==
  /\ future[j] = "running"
  /\ \E end \in Finished : future' = [future EXCEPT ![j] = end]
  /\ UNCHANGED <<now, started, pc, since, pending, results>>

(* The jobs of S, recorded in any order: the code iterates over a set.     *)
Orders(S) ==
  {q \in [1..Cardinality(S) -> S] : \A i, j \in DOMAIN q : i # j => q[i] # q[j]}

(* A wrong choice: a thread at work counts as done.                        *)
DoneOrRunning == {j \in pending : future[j] \in Finished \cup {"running"}}

Done == {j \in pending : future[j] \in Finished}

(* The loop ends when nothing is pending.                                  *)
WaitBegin(rest) ==
  /\ pc' = IF rest = {} THEN "ended" ELSE "waiting"
  /\ since' = now

(* The clock is read for one future after another, in the order of their   *)
(* submission; the pool may be at work already.                            *)
Stamp ==
  /\ pc = "stamping"
  /\ started' = Append(started, now)
  /\ IF Len(started') = JobCount THEN WaitBegin(pending)
     ELSE UNCHANGED <<pc, since>>
  /\ UNCHANGED <<now, future, pending, results>>

(* wait(timeout=1, return_when=FIRST_COMPLETED) returns, and what it found *)
(* done is recorded.                                                       *)
Collect ==
  /\ pc = "waiting"
  /\ Done # {} \/ now >= since + 1
  /\ \E q \in Orders(Done) :
       results' = results \o
         [i \in DOMAIN q |-> [job |-> q[i], kind |-> future[q[i]]]]
  /\ pending' = pending \ Done
  /\ pc' = "checking"
  /\ UNCHANGED <<now, future, started, since>>

(* The futures whose own time is over.                                     *)
Late == {j \in DOMAIN started : now >= started[j] + Timeout}

(* A wrong clock: only a job that a thread has started can time out.       *)
TimedOutWhileRunning == {j \in pending \cap Late : future[j] # "queued"}

(* A wrong clock: the reading for the first future counts for all.         *)
TimedOutTogether == IF 1 \in Late THEN pending ELSE {}

TimedOut == pending \cap Late

(* A wrong removal: the job stays pending.                                 *)
KeptPending(late) == pending

StillPending(late) == pending \ late

(* A wrong cancel: the future is left to the pool.                         *)
LeftAlone(late) == future

(* future.cancel() stops a job no thread has taken, and no other.          *)
Cancelled(late) ==
  [j \in Job |-> IF j \in late /\ future[j] = "queued" THEN "cancelled"
                 ELSE future[j]]

(* The futures that took too long are given up, even one that finished     *)
(* since the wait.  When the loop ends, shutdown(wait=False,               *)
(* cancel_futures=True) finds nothing left to cancel.                      *)
Check ==
  /\ pc = "checking"
  /\ \E q \in Orders(TimedOut) :
       results' = results \o
         [i \in DOMAIN q |-> [job |-> q[i], kind |-> "timed out"]]
  /\ future' = Cancelled(TimedOut)
  /\ pending' = StillPending(TimedOut)
  /\ WaitBegin(StillPending(TimedOut))
  /\ UNCHANGED <<now, started>>

Next ==
  \/ Tick
  \/ \E j \in Job : Start(j) \/ Finish(j)
  \/ Stamp
  \/ Collect
  \/ Check

Spec == Init /\ [][Next]_vars

(* Time passes and the calling thread runs; a thread of the pool may hang. *)
FairSpec ==
  /\ Spec
  /\ WF_vars(Tick) /\ WF_vars(Stamp) /\ WF_vars(Collect) /\ WF_vars(Check)

-----------------------------------------------------------------------------
Recorded(j) == {i \in DOMAIN results : results[i].job = j}

(* Every table gets exactly one result by the time the loop ends, although *)
(* a job may finish between the wait and the check of the clock            *)
(* (iceberg/service.py:397-424).                                           *)
OneResultPerTable ==
  /\ \A j \in Job : Cardinality(Recorded(j)) = IF j \in pending THEN 0 ELSE 1
  /\ pc = "ended" => pending = {}

(* Metadata is recorded only for a job that parsed it, and an error of the *)
(* reader only for one that raised it (iceberg/service.py:399-404).        *)
ResultsAreTrue ==
  \A i \in DOMAIN results :
    results[i].kind # "timed out" => future[results[i].job] = results[i].kind

(* A job that was given up while it waited for a thread never takes one    *)
(* later, from a sync that does not want it (iceberg/service.py:413).      *)
GivenUpNeverStarts ==
  [][\A j \in Job :
       Recorded(j) # {} /\ future[j] # "running" => future'[j] = future[j]]_vars

(* The pool and the loop keep what a sync promises of each table: one      *)
(* verdict for good, that of its read, or giving up after the deadline of  *)
(* this table, which it may reach in a later turn than others              *)
(* (iceberg/service.py:389-424).                                           *)
Reading == INSTANCE TableReading WITH
  Table <- Job,
  late <- Late,
  read <- future,
  said <- [j \in Job |-> {results[i].kind : i \in Recorded(j)}]

RefinesTableReading == Reading!Spec

(* A sync does not hang with an object store: the loop ends, whatever the  *)
(* threads of the pool do (iceberg/service.py:406-424).                    *)
LoopEnds == <>(pc = "ended")
=============================================================================
