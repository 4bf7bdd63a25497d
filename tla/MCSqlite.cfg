SPECIFICATION Spec
CONSTANTS
  Threads = {t1, t2}
  Paths = {"db", "other"}
  Handles = {h1, h2}
  Params = {"a", "b"}
  NulName = "nul"
  Values = {"v"}
  MaxCalls = 6
  BindLists <- MCBindLists
SYMMETRY Symmetry
INVARIANTS TypeOK StatementsOwned ConnectionsReused BindingsTakeEffect PanicOnlyOnFirstUse
CHECK_DEADLOCK FALSE
