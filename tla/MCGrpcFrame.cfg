SPECIFICATION Spec
CONSTANTS
  Base = 2
  MaxLen = 8
INVARIANT WholeBody
CHECK_DEADLOCK FALSE
