\* Five operators in a row: chains of comparisons around arithmetic, between
\* logic, and runs of the same operator.
CONSTANTS
  MaxOps = 5
  UsedOps = {"*", "+", "-", "&", "<", "==", "&&", "||"}
SPECIFICATION MCSpec
\* The transformation returns.
CHECK_DEADLOCK FALSE
INVARIANTS
  OperandsInOrder
  BindsByLevel
  NoComparisonCompared
