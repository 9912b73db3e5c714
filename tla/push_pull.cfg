\* The Counter<Pull> of the circuit "group" counts empty pulls too; its bound
\* stops that circuit.
CONSTANTS
  None = None
  Kinds = {"join", "branch", "dup", "dedup", "group"}
  Keys = {1, 2, 3}
  num_dups_ = 2
  Branches = 3
  MaxPushes = 5
  MaxPulls = 6
SPECIFICATION Spec
CHECK_DEADLOCK FALSE
INVARIANTS JoinsComplete RoundRobinOrder DupsUndone GroupsComplete
PROPERTY Delivered
