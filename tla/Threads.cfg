SPECIFICATION CodingFairSpec
CONSTANTS
  Senders = {s1}
  Capacity = 2
  MaxDecodes = 2
  MaxResets = 2
INVARIANTS
  CodingTypeOK
  SleepsOnEmptyQueue
PROPERTIES
  OneStreamPerDecoder
  StopEndsThread
  KeyFrameFollows
CHECK_DEADLOCK FALSE
