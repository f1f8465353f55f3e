SPECIFICATION VideoSpec
CONSTANTS
  Counts = {1, 2}
  MaximumDistinctFrames = 2
  Window = 3
  MaxDelay = 2
  MaxFrames = 4
  MaxEpochs = 2
INVARIANTS
  VideoTypeOK
  BrokenPictureAsksForKey
  FramesInOrder
CHECK_DEADLOCK FALSE
