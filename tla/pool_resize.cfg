SPECIFICATION Spec
CONSTANTS
  Workers = {w1, w2, w3}
  Producers = {p1, p2}
  Manager = manager
  Tasks = {t1, t2}
  KATasks = {t1}
  Observers = {o1}
  NumThreads = 1
  MinThreads = 1
  Sizes = {1, 2}
  MaxResizes = 2
  ShutdownKinds = {"stop", "join"}
  Timeouts = FALSE
  NoOne = NoOne
  NoTask = NoTask
  Poison = Poison
SYMMETRY Symmetry
INVARIANTS
  TypeOK
  JoinLedger
  JoinDrainsFresh
  WithinMax
  KeepAliveProtects
  StatsOffByStopping
  ObserversSeeAll
