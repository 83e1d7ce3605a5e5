SPECIFICATION Spec
CONSTANTS
  Viewer = {v1, v2}
  Task = {sniffer, loop}
  Lengths = {1, 2}
  kBufferBytes = 10
  kMaxLineBytes = 2
  kMaxLines = 2
  HeaderBytes = 2
  Ttl = 2
  Nobody = Nobody
  MaxLogged = 3
  MaxSessions = 2
INVARIANTS TypeOK NothingSkipped
PROPERTIES AbandonedCaptureEnds
CHECK_DEADLOCK FALSE
