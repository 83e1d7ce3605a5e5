SPECIFICATION Spec
CONSTANTS
  Slave = {s1, s2}
  Window <- MCWindow
  List <- MCList
  KnownRegs <- MCKnownRegs
  KnownBlocks <- MCKnownBlocks
  Enabled = {"meter", "info"}
  MAX_PENDING_REQUESTS = 2
  MAX_PENDING_H41_REQUESTS = 1
  MaxFrameLen = 3
  Timeout = 1
  Wrap = 32
  NoAsk = NoAsk
  MaxTime = 4
  MaxFrames = 4
  MaxBacklog = 1
INVARIANTS TypeOK OwnWindow MissingExplained FedInOrder
SYMMETRY Slaves
CHECK_DEADLOCK FALSE
