CONSTANTS
  NumThreads = 3
  THRESHOLD = 1
  Keys = {x}
  Values = {1}
  Hwm = 2
  MaxLocal = 1
  MaxIssued = 2
  MaxGossip = 2
SPECIFICATION Spec
INVARIANT LastReaderFrees
