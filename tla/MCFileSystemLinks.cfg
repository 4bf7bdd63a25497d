SPECIFICATION Spec
CONSTANTS
  Paths <- MCPaths
  Targets <- MCTargets
  Contents <- MCContents
  Bad = "bad"
  Foreign <- MCForeign
  Start <- MCStart
  MaxCalls = 1
  MaxOther = 1
INVARIANT IsDirFollowsLinks
CHECK_DEADLOCK FALSE
