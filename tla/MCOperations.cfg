SPECIFICATION Spec
CONSTANTS
  Table = {t1}
  Environment = {"prod"}
  FileCount = {1}
  SyncedRow <- MCOperationRows
  JobId = {j1, j2}
  RequestId = {r1}
  Session = {s1, s2}
  NoJob = NoJob
  NoRequest = NoRequest
  OperationId = {"rewrite_data_files", "backfill_default", "expire_snapshots", "rewrite_table_path"}
  Descriptors <- MCDescriptors
  ApprovalId = {a1}
  Backend = {1}
  BackendType = {"spark", "other"}
  User = {u1, u2}
  Key = {k1}
  NoTable = NoTable
  NoKey = NoKey
  NoUser = NoUser
  NoApproval = NoApproval
  Payload = {}
  NoPayload = NoPayload
SYMMETRY MCSymmetry
INVARIANTS
  TypeOK
  OnlyClearedWorkIsQueued
  EngineFitsOperation
  RestorePointHeld
  NoDanglingTable
  FirstDecisionIsWhole
PROPERTIES
  RefinesRequestLifecycle
CHECK_DEADLOCK FALSE
