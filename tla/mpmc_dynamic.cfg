SPECIFICATION FairSpec
CONSTANTS
  w1 = w1
  w2 = w2
  r1 = r1
  Writers = {w1, w2}
  Readers = {r1}
  MinCapacity = 1
  Capacity = 3
  Multiplier = 2
  Ways <- WaysOfThreads
  MaxFailures = 1
  MaxTickets = 3
  Nothing = Nothing
INVARIANTS
  HomeStable
  PromiseKept
PROPERTY IsFifo
PROPERTY AdmittedReadReturns
CHECK_DEADLOCK FALSE
