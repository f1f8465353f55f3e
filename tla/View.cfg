SPECIFICATION ViewSpec
CONSTANTS
  MaxClientId = 3
  MaxChannelId = 1
  MaxPendingAuth = 1
  ConnectionLimit = 3
  Addresses = {a1}
  Ports = {}
  NullAddress = NullAddress
  Seconds = {1}
  Idents = {x}
  NoIdent = NoIdent
  Passwords = {}
  NoPassword = NoPassword
  VisibilityLevels = {}
  Requests = {"auth", "joinchannel", "clientenablevideo", "clientdisablevideo"}
  Reauthentication = FALSE
  Observed = {"joined", "notify.clientjoinedchannel", "notify.clientdisconnected", "notify.clientvideoenabled", "notify.clientvideodisabled"}
  Ts3Enabled = FALSE
  Timers = FALSE
  Readings = {TRUE}
  MixedJoins = TRUE
  Rejoin = FALSE
  Viewers = {2}
  MaxInbox = 2
INVARIANTS
  ViewTypeOK
  ViewComplete
  TilesMatchRows
PROPERTIES
  NotifiesSiblingsOnly
CHECK_DEADLOCK FALSE
