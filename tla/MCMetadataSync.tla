--------------------------- MODULE MCMetadataSync ---------------------------
(***************************************************************************)
(* Small instances of MetadataSync for TLC: one table, which overlapping   *)
(* first syncs may give two rows.                                          *)
(***************************************************************************)
EXTENDS MetadataSync, TLC

(* Each version has the snapshot of the commit before and its own: an      *)
(* expiry follows each commit, and the first and third share none.         *)
MCSnapshots == [v \in Version |-> {v, v + 1}]

MCSymmetry == Permutations(RowId) \cup Permutations(Session)
=============================================================================
