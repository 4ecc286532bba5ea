CONSTANTS
  WindowSize = 2
  MinSpeech = 3
  MinSilence = 3
  FrameSizes = {1, 5}
  MaxFrames = 3
  MaxFlushes = 1
  ControlCap = 2
  EventCap = 2
SPECIFICATION FairSpec
INVARIANTS TypeOK DetectorCorrect EverySampleOnce ChangesArrive
PROPERTIES NobodyStuck
CHECK_DEADLOCK FALSE
