SPECIFICATION Spec
CONSTANTS
  Bodies <- PairBodies
  STACK = 16
INVARIANT
  StrictIsStrict
CHECK_DEADLOCK FALSE
