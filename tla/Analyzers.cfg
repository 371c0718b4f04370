\* A prototype and two subroutines, or three subroutines, or a constructor and two:
\* recursion, cycles of three, repeated calls, loops, function pointers, calls the
\* visitor passes by, a subroutine that is only named by a variable; with and
\* without main; one namespace or two.
CONSTANTS
  Size = 3
  MaxItems = 2
  MaxCalls = 2
  Unseen = {3}
SPECIFICATION MCSpec
\* The analyses return.
CHECK_DEADLOCK FALSE
INVARIANTS
  CallersInvertCallees
  CalleesAreTheCalls
  PointersNoticed
  MarkedTerminates
  LiveIsReachable
  SilenceIsEarned
  NothingMissed
  NoLineTwice
PROPERTIES
  VerdictsAreFinal
  Ends
  ComputesLeastSet
  ComputesReachability
