\* A caller that resets in the middle of the stream, or reads past its end,
\* waits for ever: the run exchange_reset is about the first.
CONSTANTS
  Operators <- MCOperators
  OpNext <- MCNext
  OpReset <- MCReset
  OpStream <- MCStream
  OpAt <- MCAt
  EmptyOptional <- End
  MaxPastEnd = 2
  MaxResets = 3
SPECIFICATION Spec
CHECK_DEADLOCK FALSE
INVARIANTS TypeOK OperatorsStartOver StreamInOrder
PROPERTIES NextReturns DestructorReturns
