\* Late and repeated batches, every kind of event, and people mapped to what they use.
CONSTANTS
  Hosts = {"h"}
  Limits <- MCLimits
  Window = 1
  Warmup = 1
  DayLength = 2
  DailySignalCap = 1
  Caps <- MCCaps
  ByEmail <- MCByEmail
  Identities <- MCIdentities
  SeatRows <- MCSeatRows
  UsageRows <- MCUsageRows
  OrphanServers = {"mcp-fs"}
  NameOf <- MCNameOf
  GenericUsers = {}
  Today = 2
  Thresholds <- MCThresholds
SPECIFICATION InventorySpec
CHECK_DEADLOCK FALSE

 
INVARIANT MappedCounts
INVARIANT SavingsWithinSpend
PROPERTY FirstSeenExact
