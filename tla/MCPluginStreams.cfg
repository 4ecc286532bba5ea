CONSTANTS
  MaxWork = 2
  MaxMessages = 2
  ChanCap = 1
SPECIFICATION FairSpec
INVARIANTS TypeOK DoneClosedOnce ErrIsReal ItemsInOrder SegmentsWhole
PROPERTIES KeepsContract CallsReturn HelpersReturn EndInputEnds
CHECK_DEADLOCK FALSE
