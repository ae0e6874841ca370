SPECIFICATION FairCrashSpec
CONSTANTS
  p1 = p1
  sA = sA
  sB = sB
  Plans = {p1}
  Symbols = {sA}
  Candidate <- OnlyA
  Cost <- ThreeShares
  Ticks <- CrashTicks
  SessionLength = 3
  Horizon = 4
  MaxCrashes = 1
  NoOrder = NoOrder
  NoPosition = NoPosition
INVARIANTS
  TargetsMatchRemaining
  CashMatchesLedger
  OrderFunded
  SavedIsCurrent
  LedgerLeads
  StopFollowsFirstTarget
  LeavingHasNoOrder
PROPERTIES
  OrderResolved
CHECK_DEADLOCK FALSE
