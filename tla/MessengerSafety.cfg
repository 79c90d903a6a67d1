CONSTANTS
  Clients = {k1, k2}
  Logins = {ann, bob}
  GroupNames = {room}
  NoneUser = NoneUser
  System = System
  NoAnswer = NoAnswer
  NoRequest = NoRequest
  MaxInputs = 5
  Exits = TRUE
  Lossy = TRUE
  MaxInPipe = 1
SPECIFICATION Spec
SYMMETRY Symmetry
\* Users may have nothing more to type, or leave the server waiting.
CHECK_DEADLOCK FALSE
INVARIANTS
  ServerConsistent
  AuthorsAreMembers
  OneClientPerLogin
  NothingSkipped
