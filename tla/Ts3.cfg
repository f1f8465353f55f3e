SPECIFICATION CheckSpec
CONSTANTS
  home = home
  away = away
  friends = friends
  Visitors <- MCVisitors
  Groups = {friends}
  AllowedGroups = {friends}
  Nickname = TRUE
  Wanted <- MCWanted
  Greetings = {1, 2, 3}
  MaxChanges = 2
INVARIANTS
  CheckTypeOK
  AdmittedWasThere
  AnswersInStep
PROPERTIES
  CheckEnds
CHECK_DEADLOCK FALSE
