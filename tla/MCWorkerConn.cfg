CONSTANTS
  Jobs = {j1}
  QueueCap = 2
  MaxReconnectBackoff = 3
  MaxConns = 2
SPECIFICATION Spec
INVARIANTS TypeOK AnswersStay
PROPERTY JobStatusForward
CHECK_DEADLOCK FALSE
