SPECIFICATION FairSpec
CONSTANTS
  Table = {t1}
  Environment = {"prod"}
  FileCount = {0, 1}
  SyncedRow <- MCRows
  JobId = {j1}
  RequestId = {r1}
  Session = {s1}
  NoJob = NoJob
  NoRequest = NoRequest
  OperationId = {"expire_snapshots"}
  Descriptors <- MCDescriptors
  ApprovalId = {a1}
  Backend = {1}
  BackendType = {"spark", "other"}
  User = {u1}
  Key = {k1}
  NoTable = NoTable
  NoKey = NoKey
  NoUser = NoUser
  NoApproval = NoApproval
  Payload = {}
  NoPayload = NoPayload
PROPERTIES
  ApprovedRequestRuns
CHECK_DEADLOCK FALSE
