\* Nested try-statements, else blocks (like case blocks never typechecked) and
\* calls in unchecked expressions. 9 events hold two nested try-statements and
\* a throw in any place of them.
CONSTANTS
  Bodies <- MCBodies
  MaxEvents = 9
  UsedLeaves = {"throw", "hidden"}
  UsedBlocks = {"if", "else", "try"}
SPECIFICATION Spec
\* Both passes end.
CHECK_DEADLOCK FALSE
INVARIANTS
  DepthCountsOpenTries
  LocalTargetIsInnermost
  RejectedForAReason
  
  HandlerUntilNestedTry
