\* When no request is left the driver waits in poll for ever.
CONSTANTS
  Clients = {c1, c2}
  kNumWorkers = 3
  MaxRequests = 2
SPECIFICATION Spec
CHECK_DEADLOCK FALSE
INVARIANTS HandlersPolled NoSpuriousRun AnswersAccounted ResponsesAccounted
PROPERTY RequestAnswered
