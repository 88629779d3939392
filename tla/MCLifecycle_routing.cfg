SPECIFICATION Spec
CONSTANTS
  Params <- HceFAndP2p
  MaxFaults = 0
CHECK_DEADLOCK FALSE
INVARIANT
  HceFRoutingKept
