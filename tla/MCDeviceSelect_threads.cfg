SPECIFICATION FairSpec
CONSTANTS
  Discoveries <- KnownPairs
  SelectP2p = FALSE
  ChooseIsoDep = FALSE
  MaxRounds = 2
  MaxLate = 1
CHECK_DEADLOCK FALSE
INVARIANT TypeOK
PROPERTIES
  SelectsOfThisDiscovery
  ThreadServes
