SPECIFICATION Spec
CONSTANTS
  MaxClientId = 2
  MaxChannelId = 1
  MaxPendingAuth = 1
  ConnectionLimit = 2
  Addresses = {a1}
  Ports = {p1, p2}
  NullAddress = NullAddress
  Seconds = {1}
  Idents = {}
  NoIdent = NoIdent
  Passwords = {}
  NoPassword = NoPassword
  VisibilityLevels = {999}
  Requests = {"auth", "createchannel", "joinchannel", "clientenablevideo", "clientdisablevideo", "adminauth", "adddirectstreamingrelation", "removedirectstreamingrelation", "updatevisibilitylevel"}
  Reauthentication = FALSE
  Observed = {}
  Ts3Enabled = FALSE
  Timers = FALSE
  Readings = {}
  MixedJoins = FALSE
SYMMETRY PortSymmetry
INVARIANTS
  NoGhosts
  OnlyAuthenticatedAct
  RoutingSound
PROPERTIES
  RoutingRefreshed
CHECK_DEADLOCK FALSE
