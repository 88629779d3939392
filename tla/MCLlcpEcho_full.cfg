SPECIFICATION FairSpec
CONSTANTS
  DtaLength = 1
  BacklogLength = 15
  MaxPdus = 16
  MaxJams = 1
  MaxLinks = 1
CHECK_DEADLOCK FALSE
PROPERTY
  BacklogSent
