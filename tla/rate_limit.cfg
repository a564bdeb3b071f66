SPECIFICATION Spec
CONSTANTS
  Capacity = 3
  Second = 2
  MaxTime = 14
INVARIANTS LimiterTypeOK WindowBounded
PROPERTY NoStarvation
