\* a < b + c < d
CONSTANTS
  MaxOps = 3
  UsedOps = {"+", "<"}
SPECIFICATION MCSpec
CHECK_DEADLOCK FALSE
INVARIANT CopiesAreWhole
