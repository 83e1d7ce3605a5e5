SPECIFICATION LiveSpec
CONSTANTS
  GRP_COUNT = 3
  TIER_COUNT = 2
  group_tier <- LastTierForZero
  group_enabled <- FirstTwo
  tier_interval <- LastOff
  MinWatchdog = 4
  MaxPass = 1
  MaxValues <- TwoForOne
  MaxFaults = 1
PROPERTIES SilenceFlagged ShownOnlineAgain
