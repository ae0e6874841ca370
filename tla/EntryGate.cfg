SPECIFICATION GateSpec
CONSTANTS
  BridgeKinds <- MCBridgeKinds
  PollKinds <- MCPollKinds
  LateKinds <- MCLateKinds
  Cooldown = 3
  MaxAge = 0
  Tolerance = 1
  Lag = 0
  Lead = 1
  Mode = "any"
  ConfirmTicks = 2
  HoldTime = 1
  CrossCooldown = 2
  MaxConnections = 2
  MaxSequence = 5
  Horizon = 3
  NoFeed = NoFeed
INVARIANTS
  GateTypeOK
  EntryAfterWarmup
  EntryInOrder
  HeldBeforeConfirmation
PROPERTIES
  ConfirmedOncePerCrossing
  
CHECK_DEADLOCK FALSE
