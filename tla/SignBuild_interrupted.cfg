SPECIFICATION Spec
CONSTANTS
  MaxEdits = 2
  MaxSegments = 2
INVARIANT StampedIsWhole
