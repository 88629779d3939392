SPECIFICATION FairSpec
CONSTANTS
  p1 = p1
  p2 = p2
  c1 = c1
  f1 = f1
  o1 = o1
  o2 = o2
  o3 = o3
  NULL = NULL
  QLength = 2
  Mode = "NO_OVERWRITE"
  Pushers <- TwoPushers
  Pullers <- OnePuller
  Flushers <- None
  Objects <- ThreeObjects
  PushTimeouts <- InfiniteOrMillis
  PullTimeouts <- Seconds
  Interrupts = FALSE
INVARIANTS
  TypeOK
  TokenAccounting
  SingleOwner
  MutexInsideOnly
PROPERTIES
  UnderflowMeansEmpty
  ImplementsFifo
  PushReturns
  Delivered
