CONSTANTS
  NumThreads = 2
  THRESHOLD = 2
  Keys = {x, y}
  Values = {1, 2}
  Hwm = 1
  MaxLocal = 1
  MaxIssued = 2
  MaxGossip = 2
SYMMETRY KeySymmetry
SPECIFICATION Spec
INVARIANTS FreshTimestamp Provenance NoWriteLost PendingBelowThreshold LastWriteWins
PROPERTIES StoreGrows
