SPECIFICATION FairSpec
CONSTANTS
  Workers = {w1, w2}
  Producers = {p1}
  Manager = manager
  Tasks = {t1}
  KATasks = {}
  Observers = {}
  NumThreads = 1
  MinThreads = 1
  Sizes = {0, 1}
  MaxResizes = 2
  ShutdownKinds = {"stop"}
  Timeouts = FALSE
  NoOne = NoOne
  NoTask = NoTask
  Poison = Poison
PROPERTY EveryTaskRuns
CHECK_DEADLOCK FALSE
