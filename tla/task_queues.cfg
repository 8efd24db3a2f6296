SPECIFICATION FairSpec
CONSTANTS
  Producers = {p1, p2}
  Consumers = {c1, c2}
  Kinds = {"THROW", "BLOCK", "UNBOUNDED"}
  NumPriorities = 2
  Priorities <- PrioritiesUsed
  Capacity = 1
  MaxItems = 2
INVARIANTS
  PrioritiesAgree
  DequeueSucceeds
  NoInversion
PROPERTY EveryItemTaken
CHECK_DEADLOCK FALSE
