SPECIFICATION Spec
CONSTANTS
  Workers = {w1}
  Producers = {p1}
  Manager = manager
  Tasks = {t1}
  KATasks = {}
  Observers = {}
  NumThreads = 1
  MinThreads = 1
  Sizes = {}
  MaxResizes = 0
  ShutdownKinds = {"join"}
  Timeouts = TRUE
  NoOne = NoOne
  NoTask = NoTask
  Poison = Poison
INVARIANT JoinDrains
