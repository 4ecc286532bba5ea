CONSTANTS
  MaxUtterances = 2
  MaxTurns = 2
  MaxChunks = 1
SPECIFICATION FairSpec
PROPERTY SessionStops
CHECK_DEADLOCK FALSE
