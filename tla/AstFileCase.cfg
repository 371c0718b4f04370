\* A switch with a case that has no block.
CONSTANTS
  NULL = NULL
  Unset = Unset
  Root = "Namespace"
  MaxChoices = 2
  MaxCut = 0
  MaxGuesses = 0
SPECIFICATION Spec
CHECK_DEADLOCK FALSE
INVARIANT NoneUndefined
