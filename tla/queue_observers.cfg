SPECIFICATION FairSpec
CONSTANTS
  Producers = {p1, p2}
  Workers = {w1, w2}
  Collectors = {c1, c2}
  Priorities <- TwoPriorities
  NumPriorities = {1, 3}
  MaxAdds = 2
  Null = Null
  NoOne = NoOne
INVARIANTS
  CollectedAlive
  SameObserver
  DeletedOnce
PROPERTY LeavingExits
CHECK_DEADLOCK FALSE
