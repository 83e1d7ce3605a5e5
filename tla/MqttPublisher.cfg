SPECIFICATION Spec
CONSTANTS
  GRP_COUNT = 2
  TIER_COUNT = 1
  group_tier <- OneTier
  group_enabled <- FirstTwo
  tier_interval <- EveryTick
  MinWatchdog = 4
  MaxPass = 1
  MaxValues <- TwoValues
  MaxFaults = 1
INVARIANTS TypeOK TopicOfOwnGroup FlushIsNewer FlagOnBroker OnlineOnlyWithData
