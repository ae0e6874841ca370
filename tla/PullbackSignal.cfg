SPECIFICATION StrategySpec
CONSTANTS
  Ticks <- MCTicks
  OpeningHigh = 10
  ConfirmTicks = 2
  HoldTime = 1
  MinDepth = 20
  MaxDepth = 60
  MinMinutes = 1
  MaxMinutes = 2
  MaxRatio = 70
  SampleSize = 2
  MaxConnections = 2
  MaxCount = 3
  Horizon = 4
  NoTick = NoTick
PROPERTIES
  SubmittedOnConditions
CHECK_DEADLOCK FALSE
