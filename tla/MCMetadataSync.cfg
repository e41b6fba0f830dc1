SPECIFICATION Spec
CONSTANTS
  Name = {"orders"}
  MaxVersion = 3
  SnapshotId = {1, 2, 3, 4}
  Snapshots <- MCSnapshots
  RowId = {r1, r2}
  Session = {s1, s2}
  Forces = {FALSE}
  NoName = NoName
  NoRow = NoRow
SYMMETRY MCSymmetry
INVARIANTS
  TypeOK
  WholeParses
PROPERTIES
  AloneSyncSettles
CHECK_DEADLOCK FALSE
