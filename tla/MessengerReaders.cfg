CONSTANTS
  Clients = {k1, k2}
  Logins = {ann, bob}
  GroupNames = {room}
  NoneUser = NoneUser
  System = System
  NoAnswer = NoAnswer
  NoRequest = NoRequest
  MaxInputs = 4
  Exits = FALSE
  Lossy = FALSE
  MaxInPipe = 1
SPECIFICATION FairSpec
\* Users may have nothing more to type.
CHECK_DEADLOCK FALSE
PROPERTIES
  MessagesReachReaders
