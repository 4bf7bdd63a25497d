SPECIFICATION HostsSpec
CONSTANTS
  Hosts = {"live"}
  Texts <- MCTexts
  Argvs <- MCArgvs
  ExitCodes = {0, 256}
  MaxCalls = 1
INVARIANT DebugExitsNonZero
CHECK_DEADLOCK FALSE
