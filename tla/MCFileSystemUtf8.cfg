SPECIFICATION Spec
CONSTANTS
  Paths <- MCPaths
  Targets <- MCTargets
  Contents <- MCContents
  Bad = "bad"
  Foreign <- MCForeign
  Start <- MCStart
  MaxCalls = 1
  MaxOther = 1
INVARIANT ReadUtf8Replaces
CHECK_DEADLOCK FALSE
