SPECIFICATION Spec
CONSTANTS
  HoldOff = 3
  Purge = 2
  MaxFaults = 1
  MaxRenewals = 0
INVARIANT NoDuplicate
