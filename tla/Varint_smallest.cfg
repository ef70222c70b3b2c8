SPECIFICATION Spec
CONSTANTS
  Bits = 10
  HalfBits = 5
  Group = 3
INVARIANTS
  VarlongComesBack
CHECK_DEADLOCK FALSE
