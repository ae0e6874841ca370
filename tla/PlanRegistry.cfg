SPECIFICATION RegistrySpec
CONSTANTS
  PlanIds = {p1, p2, p3}
  Days = {kr, us}
  Codes = {c1, c2}
  MaxVersion = 3
  MaxIssues = 3
  Ttl = 1
  Deadline = 2
  NoCode = NoCode
  NoPlan = NoPlan
SYMMETRY Interchangeable
INVARIANTS
  RegistryTypeOK
  ActiveIsLatest
  VersionsIncrease
  OneApprovalPerCode
CHECK_DEADLOCK FALSE
