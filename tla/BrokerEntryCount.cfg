SPECIFICATION Spec
CONSTANTS
  p1 = p1
  sA = sA
  sB = sB
  Plans = {p1}
  Symbols = {sA}
  Candidate <- OnlyA
  Cost <- OneEntry
  Ticks <- AllTicks
  SessionLength = 5
  Horizon = 5
  NoOrder = NoOrder
  NoPosition = NoPosition
PROPERTIES
  EntryConsumesLimit
CHECK_DEADLOCK FALSE
