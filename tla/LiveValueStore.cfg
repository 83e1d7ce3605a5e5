SPECIFICATION Spec
CONSTANTS
  Id = {a, b, c}
  NoId = NoId
  MAX_LIVE_CACHED_VALS = 2
  Wrap = 2
  MaxPublished = 3
  MaxPolls = 3
  MaxWaiting = 2
  MaxBoots = 2
SYMMETRY Registers
INVARIANTS TypeOK CaughtUp
CHECK_DEADLOCK FALSE
