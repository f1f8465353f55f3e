SPECIFICATION CorFairSpec
CONSTANTS
  Ends = {client, server}
  Servers = {server}
  MaxCorrelationId = 2
  Breaks = TRUE
INVARIANTS
  CorTypeOK
  SendQueueAwake
  RepliesAccountedFor
PROPERTIES
  ChannelSpec
  RepliesFinish
CHECK_DEADLOCK FALSE
