SPECIFICATION Spec
CONSTANTS
  Keys = {"PATH", "FOO"}
  Values = {"x", "y"}
  ParentEnv <- MCParentEnv
  Args = {"a", "b"}
  EnvLists <- MCEnvLists
  Scripts <- MCScripts
  Codes = {0, 2}
  PipeSize = 1
  MaxBuild = 3
INVARIANTS TypeOK ChildAsBuilt OutcomeFaithful CaptureComplete
PROPERTY ExecReturns
CHECK_DEADLOCK FALSE
