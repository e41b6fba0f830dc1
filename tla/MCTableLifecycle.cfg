SPECIFICATION Spec
CONSTANTS
  None = None
  File <- MCFile
  Target = 4
  MaxCommits = 3
  MaxDay = 1
  OlderThan = {1}
  MaxRefs = 1
  Named <- MCNamed
  RetainLast <- MCRetainLast
  Owned = {FALSE}
  FormatVersion = {2, 3}
  MainAges = {TRUE}
CHECK_DEADLOCK FALSE
INVARIANTS
  TypeOK
  IndexIsOneSnapshot
  ExpiryKeepsItsPromise
  PlanStaysValid
  HealthFollowsMetrics
  AdviceIsConsistent
