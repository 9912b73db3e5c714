CONSTANTS
  NumThreads = 3
  THRESHOLD = 1
  Keys = {x}
  Values = {1}
  Hwm = 1
  MaxLocal = 1
  MaxIssued = 2
  MaxGossip = 2
SPECIFICATION FairSpec
INVARIANTS TypeOK BoundBeforeConnect NoDanglingPointer
PROPERTIES AllThreadsServe EventuallyEqual
