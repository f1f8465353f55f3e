SPECIFICATION SilenceSpec
CONSTANTS
  HeartbeatInterval = 2
  ConnectionTimeout = 4
  AuthTimeout = 12
  MediaTimeout = 2
  MaxLatency = 1
  MaxCheck = 3
INVARIANTS
  SessionTypeOK
  AckFindsSocket
  SilentAreCut
PROPERTIES
  HealthyClientStays
  DeadPeerRemoved
  AuthenticationEnds
CHECK_DEADLOCK FALSE
