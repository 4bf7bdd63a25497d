SPECIFICATION Spec
CONSTANTS
  Paths <- MCPaths
  Targets <- MCTargets
  Contents <- MCContents
  Bad = "bad"
  Foreign <- MCForeign
  Start <- MCStart
  MaxCalls = 1
  MaxOther = 2
INVARIANTS TypeOK ErrorsMeanWhatHappened
PROPERTIES OkWriteIsComplete RemovesOnlyBelow WritesStayInTheirFile OkMeansDone CreateAllToleratesRace
CHECK_DEADLOCK FALSE
