SPECIFICATION SilenceSpec
CONSTANTS
  HeartbeatInterval = 2
  ConnectionTimeout = 4
  AuthTimeout = 12
  MediaTimeout = 2
  MaxLatency = 1
  MaxCheck = 3
INVARIANTS
  TimeoutIsFinal
CHECK_DEADLOCK FALSE
