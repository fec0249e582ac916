SPECIFICATION Spec
CONSTANTS
  DefaultLimit = 2
  MaxLimit = 3
  Limits = {0, 1, 2, 3, 4}
  Rows = {r1, r2, r3, r4}
  MaxTime = 3
SYMMETRY Symmetry
CHECK_DEADLOCK FALSE
INVARIANTS TypeOK ShownOnceUnlessInserted NothingMissed NothingSkipped
