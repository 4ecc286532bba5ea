CONSTANTS
  MaxUtterances = 3
  MaxTurns = 2
  MaxChunks = 2
SPECIFICATION Spec
PROPERTY ClearsOnlyInterrupted
CHECK_DEADLOCK FALSE
