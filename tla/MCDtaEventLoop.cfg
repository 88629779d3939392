SPECIFICATION FairSpec
CONSTANTS
  DtaLength = 2
  MwLength = 12
  Protocols <- AllProtocols
  LlcpPattern = TRUE
  MaxSessions = 2
  MaxReleased = 1
  MaxFrames = 2
CHECK_DEADLOCK FALSE
INVARIANTS
  TypeOK
  SessionSeparation
  QuietMeansDiscovering
PROPERTIES
  LoopReturns
  ThreadExitsUnlessNested
