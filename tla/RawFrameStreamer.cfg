SPECIFICATION LiveSpec
CONSTANTS
  Capacity = 2
  MaxSeq = 5
  MaxFrame = 2
  MaxFlaps = 3
  Lengths <- MCLengths
INVARIANTS TypeOK RingHoldsNewest Accounted
PROPERTIES NewerEachTime DropsCounted ImplementsLossyFifo Drains
