SPECIFICATION FairSpec
CONSTANTS
  Discoveries <- OtherPairs
  SelectP2p = FALSE
  ChooseIsoDep = FALSE
  MaxRounds = 1
  MaxLate = 0
CHECK_DEADLOCK FALSE
PROPERTY SelectsDetected
