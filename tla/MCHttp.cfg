SPECIFICATION Spec
CONSTANTS
  MaxRequests = 2
  TimeLimits = {0, 1}
  MaxTime = 2
  Statuses = {200}
  Chunks = {"x", "y"}
  MaxChunks = 2
INVARIANTS TypeOK ServerAnswerIsWhole TimeoutDropsNoAnswer
PROPERTY LimitedRequestsReturn
CHECK_DEADLOCK FALSE
