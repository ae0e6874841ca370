SPECIFICATION Spec
CONSTANTS
  p1 = p1
  sA = sA
  sB = sB
  Plans = {p1, p2}
  Symbols = {sA, sB}
  Candidate <- MCCandidate
  Cost <- TwoEntries
  Ticks <- SlotTicks
  SessionLength = 3
  Horizon = 4
  NoOrder = NoOrder
  NoPosition = NoPosition
SYMMETRY PlanSymmetry
INVARIANTS
  TypeOK
  SlotExclusive
  IntentsMatchBook
  DailyEntryLimit
  DailyRiskContained
PROPERTIES
  SlotKept
CHECK_DEADLOCK FALSE
