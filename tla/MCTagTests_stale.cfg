SPECIFICATION Spec
CONSTANTS
  DtaLength = 20
  MwLength = 20
  Tests <- T2TWrite
  MaxSessions = 2
CHECK_DEADLOCK FALSE
INVARIANT
  NextTestUndisturbed
