SPECIFICATION HostsSpec
CONSTANTS
  Hosts = {"live", "library", "binary"}
  Texts <- MCTexts
  Argvs <- MCArgvs
  ExitCodes = {0, 1, 3}
  MaxCalls = 3
INVARIANTS HostsTypeOK OutputInProgramOrder NoDuplicateNoOvertake LiveZeroMeansClean OkMeansShown
CHECK_DEADLOCK FALSE
