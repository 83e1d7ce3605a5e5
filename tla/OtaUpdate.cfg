SPECIFICATION Spec
CONSTANTS
  windowSeconds = 2
  CONNECT_ATTEMPT_TIMEOUT_MS = 1
  WIFI_CHECK_INTERVAL_MS = 2
  Wrap = 7
  MaxLag = 1
  MaxArmed = 2
INVARIANTS TypeOK ArmingHonoured
PROPERTIES WindowCloses WifiRetried
CHECK_DEADLOCK FALSE
