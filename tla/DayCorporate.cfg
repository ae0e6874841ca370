SPECIFICATION DaySpec
CONSTANTS
  p1 = p1
  p2 = p2
  sA = sA
  sB = sB
  PlanIds = {p1, p2}
  Symbols = {sA, sB}
  Approved <- MCApproved
  Days = {today}
  Codes = {c1}
  MaxVersion = 2
  MaxIssues = 2
  Ttl = 0
  Deadline = 0
  NoCode = NoCode
  NoPlan = NoPlan
  MaxRestarts = 0
PROPERTIES
  NoEntryOnceCancelled
CHECK_DEADLOCK FALSE
