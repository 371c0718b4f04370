\* What an unset capacity_methods may hold: less than, as much as or more than
\* the number of methods that a namespace has at some time.
CONSTANTS
  c1 = c1
  c2 = c2
  c3 = c3
  c4 = c4
  l1 = l1
  l2 = l2
  l3 = l3
  l4 = l4
  main = main
  apply = apply
  both = both
  plain = plain
  printf = printf
  param = param
  NULL = NULL
  Call = {c1, c2, c3, c4}
  Lambda = {l1, l2, l3, l4}
  LibC = {printf}
  Programs <- MCPrograms
  Capacity = {0, 2, 4}
SPECIFICATION Spec
\* The transpiler goes on with the type checker, or has exited.
CHECK_DEADLOCK FALSE
INVARIANT LambdasAreLifted
