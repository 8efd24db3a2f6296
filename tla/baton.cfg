SPECIFICATION FairSpec
CONSTANTS
  Posters = {p1, p2}
  MaxLifetimes = 3
INVARIANTS
  WaiterAsserts
  MemoryReleased
  NoLostWakeup
PROPERTY PostedWaitReturns
