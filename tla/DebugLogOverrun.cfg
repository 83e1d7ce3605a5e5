SPECIFICATION Spec
CONSTANTS
  Viewer = {v1, v2}
  Task = {sniffer, loop}
  Lengths = {1, 2}
  kBufferBytes = 10
  kMaxLineBytes = 2
  kMaxLines = 1
  HeaderBytes = 2
  Ttl = 2
  Nobody = Nobody
  MaxLogged = 4
  MaxSessions = 2
INVARIANT NewestReadable
CHECK_DEADLOCK FALSE
