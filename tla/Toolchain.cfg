\* Two files, four texts: a program, a namespace without main, one that is not
\* typed and one that does not parse.  Two builds or tests, two kills.
CONSTANTS
  File = {a, b}
  Text = {prog, util, typo, broken}
  Parses = {prog, util, typo}
  WellTyped = {prog, util}
  WithMain = {prog, typo}
  StdIn = prog
  None = None
  Prelude = Prelude
  MaxFiles = 2
  MaxBuilds = 2
  MaxKills = 2
SPECIFICATION Spec
\* The user may stop after any build.
CHECK_DEADLOCK FALSE
INVARIANTS
  BuiltFromSources
  FailureKeepsOld
  TestRunsItsSource
