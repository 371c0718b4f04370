\* Five members of four sizes: runs of equal ones and every order of them.
CONSTANT Count = 5
SPECIFICATION Spec
\* The sort returns.
CHECK_DEADLOCK FALSE
INVARIANTS
  EachMemberOnce
  EqualsStayInOrder
  LargestFirst
