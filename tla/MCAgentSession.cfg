CONSTANTS
  MaxUtterances = 2
  MaxTurns = 2
  MaxChunks = 2
SPECIFICATION FairSpec
INVARIANTS TypeOK TranscriptConserved RequestOrder StateMatches PlayedBeforeNext BargeInStopsText
PROPERTIES TurnEnds StartReturns
CHECK_DEADLOCK FALSE
