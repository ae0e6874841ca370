SPECIFICATION FairFeedSpec
CONSTANTS
  Symbols = {s}
  Traded = s
  PerDay = 3
  Days = 2
  Opening = 1
  Sizes = {1}
  MaxRows = 2
  MaxTrades = 4
  MaxPending = 2
  MaxTicks = 1
  MaxChanges = 2
  MaxFaults = 1
INVARIANTS
  FeedTypeOK
  SessionIsBars
  DiskIsCompleted
  VolumeExact
PROPERTIES
  TicksNumbered
  PostedBarsStay
  SubscriptionsFollow
CHECK_DEADLOCK FALSE
