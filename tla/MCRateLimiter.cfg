SPECIFICATION Spec
CONSTANTS
  Attempt = {a1, a2, a3, a4}
  Client = {"office"}
  MaxAttempts = 2
  Window = 2
  MaxTime = 5
SYMMETRY MCSymmetry
INVARIANTS
  TypeOK
  WithinLimit
PROPERTIES
  DenialHasCause
CHECK_DEADLOCK FALSE
