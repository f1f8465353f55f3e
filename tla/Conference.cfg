SPECIFICATION FairSpec
CONSTANTS
  MaxClientId = 3
  MaxChannelId = 2
  MaxPendingAuth = 1
  ConnectionLimit = 2
  Addresses = {a1}
  Ports = {}
  NullAddress = NullAddress
  Seconds = {1}
  Idents = {x, y}
  NoIdent = NoIdent
  Passwords = {}
  NoPassword = NoPassword
  VisibilityLevels = {}
  Requests = {"auth", "adminauth", "kickclient", "goodbye", "joinchannel", "clientenableaudioinput", "clientdisableaudioinput"}
  Reauthentication = FALSE
  Observed = {}
  Ts3Enabled = TRUE
  Timers = TRUE
  Readings = {}
  MixedJoins = FALSE
INVARIANTS
  TypeOK
  AdmissionLimit
  MembershipConsistent
  IdentResolves
PROPERTIES
  DoomedLeave
  ConferencesSpec
CHECK_DEADLOCK FALSE
