SPECIFICATION Spec
CONSTANTS
  Writers = {w1, w2}
  Readers = {r1, r2}
  Capacity = 3
  TurnSpan = 16
  Scenarios <- TwoScenarios
  Nothing = Nothing
SYMMETRY Symmetry
INVARIANTS
  SlotExclusive
  ReadyNeverWaits
  PromiseKept
  StrideSpreads
PROPERTY IsFifo
PROPERTY RefusalJustified
PROPERTY SizeLinearizable
CHECK_DEADLOCK FALSE
