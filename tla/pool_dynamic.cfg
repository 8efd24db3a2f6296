SPECIFICATION FairSpec
CONSTANTS
  Workers = {w1, w2}
  Producers = {p1}
  Manager = manager
  Tasks = {t1, t2, t3}
  KATasks = {t1}
  Observers = {}
  NumThreads = 2
  MinThreads = 0
  Sizes = {}
  MaxResizes = 0
  ShutdownKinds = {"stop", "join", "destroy"}
  Timeouts = TRUE
  NoOne = NoOne
  NoTask = NoTask
  Poison = Poison
INVARIANTS
  TokenPerItem
  ThreadAccounting
  StopChecks
PROPERTIES
  EveryTaskRuns
  ShutdownReturns
