CONSTANTS
  Operators <- MCOperators
  OpNext <- MCNext
  OpReset <- MCReset
  OpStream <- MCStream
  OpAt <- MCAt
  EmptyOptional <- End
  MaxPastEnd = 0
  MaxResets = 1
SPECIFICATION Spec
CHECK_DEADLOCK FALSE
PROPERTY ResetRestarts
