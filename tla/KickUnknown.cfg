SPECIFICATION Spec
CONSTANTS
  MaxClientId = 2
  MaxChannelId = 1
  MaxPendingAuth = 1
  ConnectionLimit = 2
  Addresses = {a1}
  Ports = {}
  NullAddress = NullAddress
  Seconds = {1}
  Idents = {}
  NoIdent = NoIdent
  Passwords = {}
  NoPassword = NoPassword
  VisibilityLevels = {}
  Requests = {"auth", "adminauth", "kickclient"}
  Reauthentication = FALSE
  Observed = {}
  Ts3Enabled = FALSE
  Timers = FALSE
  Readings = {}
  MixedJoins = FALSE
INVARIANT ServerSurvives
CHECK_DEADLOCK FALSE
