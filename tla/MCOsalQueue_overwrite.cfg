SPECIFICATION Spec
CONSTANTS
  p1 = p1
  p2 = p2
  c1 = c1
  f1 = f1
  o1 = o1
  o2 = o2
  o3 = o3
  NULL = NULL
  QLength = 2
  Mode = "OVERWRITE_OLDEST"
  Pushers <- TwoPushers
  Pullers <- OnePuller
  Flushers <- OneFlusher
  Objects <- ThreeObjects
  PushTimeouts <- InfiniteOrSeconds
  PullTimeouts <- InfiniteOrSeconds
  Interrupts = TRUE
SYMMETRY Symmetry
INVARIANTS
  GrantedPullFinds
CHECK_DEADLOCK FALSE
