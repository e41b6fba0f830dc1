-------------------------- MODULE MCTableLifecycle --------------------------
(* An instance of TableLifecycle for TLC: small and large data files in    *)
(* two partitions and a delete file.                                       *)
EXTENDS TableLifecycle

DataFile(i, size, part) ==
  [id |-> i, content |-> "DATA", size |-> size, rows |-> size + i,
   part |-> part]

MCFile ==
  {DataFile(1, 1, "p1"), DataFile(2, 4, "p2"),
   [id |-> 3, content |-> "POSITION_DELETES", size |-> 1, rows |-> 1,
    part |-> "p1"]}

(* A tag and a protected branch; main, with a maximal age, is neither.     *)
MCNamed ==
  {[ref_type |-> "tag", snapshot |-> 1, aged |-> FALSE],
   [ref_type |-> "branch", snapshot |-> 2, aged |-> FALSE]}

(* A negative number slices from the other end.                            *)
MCRetainLast == {-1, 1, 2}
=============================================================================
