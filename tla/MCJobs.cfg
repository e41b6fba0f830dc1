SPECIFICATION Spec
CONSTANTS
  Table = {t1}
  Environment = {"prod"}
  FileCount = {0, 1}
  SyncedRow <- MCRows
  JobId = {j1, j2}
  RequestId = {r1}
  Session = {s1, s2}
  NoJob = NoJob
  NoRequest = NoRequest
  OperationId = {"create_namespace"}
  Descriptors <- MCDescriptors
  ApprovalId = {}
  Backend = {}
  BackendType = {"spark", "other"}
  User = {}
  Key = {k1}
  NoTable = NoTable
  NoKey = NoKey
  NoUser = NoUser
  NoApproval = NoApproval
  Payload <- MCPayloads
  NoPayload = NoPayload
SYMMETRY MCSymmetry
INVARIANTS
  RunFollowsJob
  VerdictStands
PROPERTIES
  RefinesJobLifecycle
CHECK_DEADLOCK FALSE
