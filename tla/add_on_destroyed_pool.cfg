SPECIFICATION Spec
CONSTANTS
  Workers = {w1}
  Producers = {p1, p2}
  Manager = manager
  Tasks = {t1, t2}
  KATasks = {t1}
  Observers = {}
  NumThreads = 1
  MinThreads = 1
  Sizes = {}
  MaxResizes = 0
  ShutdownKinds = {"stop"}
  Timeouts = FALSE
  NoOne = NoOne
  NoTask = NoTask
  Poison = Poison
INVARIANT AddOnLivePool
