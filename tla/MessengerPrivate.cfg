CONSTANTS
  Clients = {k1, k2, k3}
  Logins = {ann, bob, cid}
  GroupNames = {room}
  NoneUser = NoneUser
  System = System
  NoAnswer = NoAnswer
  NoRequest = NoRequest
  MaxInputs = 6
  Exits = FALSE
  Lossy = FALSE
  MaxInPipe = 1
SPECIFICATION Spec
SYMMETRY Symmetry
CHECK_DEADLOCK FALSE
INVARIANTS
  PrivateReachesAddressee
