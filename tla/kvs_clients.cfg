CONSTANTS
  NumThreads = 2
  THRESHOLD = 1
  Keys = {x}
  Values = {1, 2}
  Hwm = 1
  MaxLocal = 2
  MaxIssued = 2
  MaxGossip = 2
  Clients = {c1, c2}
SYMMETRY ClientSymmetry
SPECIFICATION SystemSpec
INVARIANTS SystemTypeOK UniqueTransactions CachedReadsRepeat ReadCommitted
PROPERTY ServerRefinement
