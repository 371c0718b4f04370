\* A try-statement inside a try-block.
CONSTANTS
  Bodies <- MCBodies
  MaxEvents = 9
  UsedLeaves = {"throw"}
  UsedBlocks = {"try"}
SPECIFICATION Spec
CHECK_DEADLOCK FALSE
INVARIANT HandlerIsInnermost
