SPECIFICATION Spec
CONSTANTS
  Tasks = 2
  Numbers = {2}
  MaxSweeps = 2
  MaxForeign = 1
INVARIANTS TypeOK OwnRows GreenIsEarned RecursionBounded NothingLeft
CHECK_DEADLOCK FALSE
