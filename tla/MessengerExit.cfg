CONSTANTS
  Clients = {k1}
  Logins = {ann, bob}
  GroupNames = {room}
  NoneUser = NoneUser
  System = System
  NoAnswer = NoAnswer
  NoRequest = NoRequest
  MaxInputs = 3
  Exits = TRUE
  Lossy = FALSE
  MaxInPipe = 1
SPECIFICATION FairSpec
CHECK_DEADLOCK FALSE
PROPERTIES
  ExitCompletes
