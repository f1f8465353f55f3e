SPECIFICATION ParserSpec
CONSTANTS
  FrameTypes = {0, 1}
  CorrelationIds = {1, 258}
  Bodies <- MCBodies
  FlagBytes = {0, 255}
  MaxFrames = 2
INVARIANTS
  ParserTypeOK
  NothingHeldBack
PROPERTIES
  ParserChannelSpec
CHECK_DEADLOCK FALSE
