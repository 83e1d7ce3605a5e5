SPECIFICATION Spec
CONSTANTS
  Requests = {a, b, c, d}
  Parts = 2
  Optional = {1}
  Needs <- MCNeeds
  MaxPowerCuts = 1
  MaxFaults = 2
INVARIANTS TypeOK LastSaveRecoverable MemoryIsDurable NeverOlder
SYMMETRY AnyRequest
