\* Every tree with at most two choices beyond the first alternatives: each
\* kind of node, each option and each array that is empty and that is not.
\* A file that lost its end, by any number of words, for the smallest tree.
CONSTANTS
  NULL = NULL
  Unset = Unset
  Root = "Namespace"
  MaxChoices = 2
  MaxCut = 1
  MaxGuesses = 1
SPECIFICATION Spec
\* The programs end.
CHECK_DEADLOCK FALSE
INVARIANTS
  ReadExactly
  ReadBack
  FreedOnce
