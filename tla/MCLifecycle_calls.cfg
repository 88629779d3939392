SPECIFICATION Spec
CONSTANTS
  Params <- Tests
  MaxFaults = 1
CHECK_DEADLOCK FALSE
INVARIANTS
  TypeOK
  ConfiguredAsAsked
  NothingLeftWhenDisabled
  DeInitReleases
  OneOfEach
  FlagsTruthful
  NoUseAfterDestroy
