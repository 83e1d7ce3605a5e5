SPECIFICATION LiveSpec
CONSTANTS
  RECONNECT_THROTTLE = 2
  CONNECT_GUARD = 2
  HA_DISCOVERY_PER_TICK = 1
  MAX_CACHED_VALS = 2
  EntityKey <- SharedKey
  home_enabled = TRUE
  MaxDrops = 2
  MaxRejects = 1
INVARIANTS TypeOK
PROPERTIES InFlightNotOverlapped Reconnects BirthWins EverythingAnnounced DiscoveryRetried
