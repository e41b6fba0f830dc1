---------------------------- MODULE TableReading ----------------------------
(***************************************************************************)
(* What a sync promises about the tables it reads in parallel: of each it  *)
(* says one thing, once.  That is how its read ended or, not before the    *)
(* deadline of this table has passed, that it was given up; and the read   *)
(* of a table that was given up does not begin any more.                   *)
(***************************************************************************)

CONSTANT Table

VARIABLES
  late,  \* the tables whose deadline has passed
  read,  \* how far the read of each table is
  said   \* what has been said of each table

vars == <<late, read, said>>

Unsettled == {t \in Table : said[t] = {}}

Init ==
  /\ late = {}
  /\ read = [t \in Table |-> "queued"]
  /\ said = [t \in Table |-> {}]

Deadline(S) ==
  /\ late' = late \cup S
  /\ UNCHANGED <<read, said>>

Begin(t) ==
  /\ read[t] = "queued"
  /\ read' = [read EXCEPT ![t] = "running"]
  /\ UNCHANGED <<late, said>>

End(t) ==
  /\ read[t] = "running"
  /\ \E end \in {"parsed", "raised"} : read' = [read EXCEPT ![t] = end]
  /\ UNCHANGED <<late, said>>

(* Reads that ended are reported as they ended.                            *)
Report(S) ==
  /\ S \subseteq Unsettled
  /\ \A t \in S : read[t] \in {"parsed", "raised"}
  /\ said' = [t \in Table |-> IF t \in S THEN {read[t]} ELSE said[t]]
  /\ UNCHANGED <<late, read>>

(* Late ones, as many as are noticed at once, are given up as they are.    *)
GiveUp(S) ==
  /\ S \subseteq Unsettled \cap late
  /\ said' = [t \in Table |-> IF t \in S THEN {"timed out"} ELSE said[t]]
  /\ read' = [t \in Table |-> IF t \in S /\ read[t] = "queued"
                              THEN "cancelled" ELSE read[t]]
  /\ UNCHANGED late

Next ==
  \/ \E t \in Table : Begin(t) \/ End(t)
  \/ \E S \in SUBSET Table : Deadline(S) \/ Report(S) \/ GiveUp(S)

Spec == Init /\ [][Next]_vars
=============================================================================
