SPECIFICATION Spec
CONSTANTS
  Bytes = {"a", "nl", "bad"}
  NL = "nl"
  Bad = "bad"
  Counts = {0, 1, 3}
  Capacity = 2
  Chunk = 3
  MaxBytes = 4
  MaxSignals = 1
  MaxCalls = 2
INVARIANT TypeOK
PROPERTIES ImplementsByteStream LinesAreWhole CallsEndAtEof
CHECK_DEADLOCK FALSE
