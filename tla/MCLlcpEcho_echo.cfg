SPECIFICATION FairSpec
CONSTANTS
  DtaLength = 3
  BacklogLength = 3
  MaxPdus = 3
  MaxJams = 2
  MaxLinks = 2
CHECK_DEADLOCK FALSE
INVARIANTS
  TypeOK
  EchoedOnce
  NoLostWakeup
  BacklogOfThisLink
PROPERTY
  BacklogSent
