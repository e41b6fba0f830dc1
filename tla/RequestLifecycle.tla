-------------------------- MODULE RequestLifecycle --------------------------
(***************************************************************************)
(* What the control plane promises about an operation request: a dry run   *)
(* stores it, and its executions queue jobs or ask for approvals.  Work    *)
(* never runs ahead of a reviewer: a request that was put before one has   *)
(* no job queued unless one of its approvals says approved, and is not put *)
(* before one after its work was queued without asking.  A decision is     *)
(* about one approval, may be taken again, and queues nothing by itself.   *)
(***************************************************************************)

CONSTANTS RequestId, ApprovalId, JobId, NoRequest

VARIABLES
  stored,  \* the requests that a dry run has stored
  asked,   \* the status of each approval and the request it is about
  work     \* the request each job was queued for, if any

vars == <<stored, asked, work>>

Init ==
  /\ stored = {}
  /\ asked = [a \in ApprovalId |-> [status |-> "none", request |-> NoRequest]]
  /\ work = [j \in JobId |-> NoRequest]

Store(r) ==
  /\ r \notin stored
  /\ stored' = stored \cup {r}
  /\ UNCHANGED <<asked, work>>

UnderReview(r) == \E a \in ApprovalId : asked[a].request = r

Cleared(r) ==
  \E a \in ApprovalId : asked[a] = [status |-> "approved", request |-> r]

HasWork(r) == \E j \in JobId : work[j] = r

Queue(r, j) ==
  /\ r \in stored
  /\ UnderReview(r) => Cleared(r)
  /\ work[j] = NoRequest
  /\ work' = [work EXCEPT ![j] = r]
  /\ UNCHANGED <<stored, asked>>

Ask(r, a) ==
  /\ r \in stored
  /\ HasWork(r) => Cleared(r)
  /\ asked[a].status = "none"
  /\ asked' = [asked EXCEPT ![a] = [status |-> "pending", request |-> r]]
  /\ UNCHANGED <<stored, work>>

Decide(a) ==
  /\ asked[a].status # "none"
  /\ \E verdict \in {"approved", "rejected"} :
       asked' = [asked EXCEPT ![a].status = verdict]
  /\ UNCHANGED <<stored, work>>

Next ==
  \/ \E r \in RequestId : \/ Store(r)
                          \/ \E j \in JobId : Queue(r, j)
                          \/ \E a \in ApprovalId : Ask(r, a)
  \/ \E a \in ApprovalId : Decide(a)

Spec == Init /\ [][Next]_vars
=============================================================================
