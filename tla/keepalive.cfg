SPECIFICATION FairSpec
CONSTANTS
  Threads = {t1, t2}
  Owner = owner
  MaxTokens = 2
  MaxLifetimes = 2
INVARIANTS
  JoinedMeansReleased
  WeakRefKept
PROPERTIES
  NeverRevived
  UsesBaton
  JoinReturns
