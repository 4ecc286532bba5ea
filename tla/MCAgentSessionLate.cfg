CONSTANTS
  MaxUtterances = 3
  MaxTurns = 2
  MaxChunks = 2
SPECIFICATION Spec
INVARIANT InterruptedSilent
CHECK_DEADLOCK FALSE
