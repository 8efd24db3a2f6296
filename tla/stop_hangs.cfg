SPECIFICATION FairSpec
CONSTANTS
  Workers = {w1, w2, w3}
  Producers = {}
  Manager = manager
  Tasks = {}
  KATasks = {}
  Observers = {o1}
  NumThreads = 3
  MinThreads = 2
  Sizes = {1}
  MaxResizes = 1
  ShutdownKinds = {"stop"}
  Timeouts = TRUE
  NoOne = NoOne
  NoTask = NoTask
  Poison = Poison
PROPERTY ShutdownReturns
CHECK_DEADLOCK FALSE
