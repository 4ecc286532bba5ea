CONSTANTS
  Jobs = {j1}
  QueueCap = 2
  MaxReconnectBackoff = 1
  MaxConns = 1
SPECIFICATION FairSpec
PROPERTY StatusConverges
CHECK_DEADLOCK FALSE
