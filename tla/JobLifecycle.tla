---------------------------- MODULE JobLifecycle ----------------------------
(***************************************************************************)
(* What the control plane promises about a job: it appears once, waiting   *)
(* or done; waiting work can only be cancelled, because no component runs  *)
(* queued jobs; nothing else ever happens to it.                           *)
(***************************************************************************)

CONSTANT JobId

VARIABLE phase

Init == phase = [j \in JobId |-> "absent"]

Submit(j) ==
  /\ phase[j] = "absent"
  /\ \E p \in {"waiting", "done"} : phase' = [phase EXCEPT ![j] = p]

Cancel(j) ==
  /\ phase[j] = "waiting"
  /\ phase' = [phase EXCEPT ![j] = "cancelled"]

Next == \E j \in JobId : Submit(j) \/ Cancel(j)

Spec == Init /\ [][Next]_phase
=============================================================================
