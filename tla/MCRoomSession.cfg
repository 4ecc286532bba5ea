CONSTANTS
  Tracks = {t1, t2}
  NoTrack = NoTrack
SPECIFICATION FairSpec
INVARIANTS TypeOK CleanedUp NoWriteAfterClose CallbacksBeforeLeaving
PROPERTIES JobEnds OfferedIsHeard
CHECK_DEADLOCK FALSE
