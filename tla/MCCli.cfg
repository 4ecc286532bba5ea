CONSTANTS
  Jobs = {j1}
  QueueCap = 1
  MaxReconnectBackoff = 1
  MaxConns = 1
SPECIFICATION CliFairSpec
INVARIANT StaysUp
PROPERTY SignalsStop
CHECK_DEADLOCK FALSE
