--------------------------- MODULE MCControlPlane ---------------------------
(* Small instances of ControlPlane for TLC. *)
EXTENDS ControlPlane, TLC

MCDescriptors == [o \in OperationId |-> R!Registry[o]]

Row(v3, protected, files) ==
  [present |-> TRUE, environment |-> "prod", v3 |-> v3,
   protected |-> protected, files |-> files, commit |-> "fresh"]

MCOperationRows == {Row(FALSE, TRUE, 1), Row(TRUE, FALSE, 1)}
MCRows == {Row(FALSE, TRUE, 0), Row(FALSE, FALSE, 1)}

MCPayloads ==
  {[checks |-> {[type |-> "rowcount", min |-> 1]}, publish |-> p] :
     p \in {"auto_if_green", "require_approval"}}

MCSymmetry == Permutations(JobId) \cup Permutations(RequestId)
              \cup Permutations(ApprovalId) \cup Permutations(Session)
              \cup Permutations(User)
=============================================================================
