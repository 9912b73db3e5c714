CONSTANTS
  Clients = {c1, c2}
  kNumWorkers = 3
  MaxRequests = 2
SPECIFICATION Spec
CHECK_DEADLOCK FALSE
INVARIANT GroupsSeparate
