SPECIFICATION Spec
CONSTANTS
  XApp = {x1, x2}
  MaxFaults = 0
INVARIANT MissingHasCause
