SPECIFICATION Spec
CONSTANTS
  Byte = 3
  MinGap = 2
  Interval = 6
  MaxSnaps = 2
INVARIANTS
  CountDrift SlopeMeasured
\* The bounds are reached.
CHECK_DEADLOCK FALSE
