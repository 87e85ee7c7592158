SPECIFICATION Spec
CONSTANTS
  Tasks = 2
  Numbers = {2}
  MaxSweeps = 2
  MaxForeign = 1
INVARIANT GreenMeansCancelled
CHECK_DEADLOCK FALSE
