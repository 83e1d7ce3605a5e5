SPECIFICATION Spec
CONSTANTS
  Requests = {a, b}
  Parts = 1
  Optional = {}
  Needs = {}
  MaxPowerCuts = 1
  MaxFaults = 0
INVARIANTS NeverBackToDefaults
