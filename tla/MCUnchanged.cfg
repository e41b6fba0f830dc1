SPECIFICATION Spec
CONSTANTS
  Name = {"orders"}
  MaxVersion = 2
  SnapshotId = {1, 2, 3}
  Snapshots <- MCSnapshots
  RowId = {r1, r2}
  Session = {s1}
  Forces = {FALSE}
  NoName = NoName
  NoRow = NoRow
PROPERTIES
  UnchangedIsSkipped
CHECK_DEADLOCK FALSE
