SPECIFICATION FairSpec
CONSTANTS
  DtaLength = 3
  MwLength = 8
  Tests <- AllKinds
  MaxSessions = 2
CHECK_DEADLOCK FALSE
INVARIANTS
  TypeOK
  NdefWhole
  ReleasedAfterTest
  RestartedClean
PROPERTY
  TestsEnd
