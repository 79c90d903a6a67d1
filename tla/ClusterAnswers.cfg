CONSTANTS
  n1 = n1
  n2 = n2
  n3 = n3
  n4 = n4
  n5 = n5
  Ids = {n1, n2, n3, n4}
  NoId = NoId
  MaxPid = 4
  Values = {v}
  NoValue = NoValue
  Get = Get
  Seed <- Three
  MaxCommands = 2
  MaxCrashes = 0
  CrashesMidway = FALSE
  InputEnds = TRUE
  HeartbeatOn = FALSE
  Patience = "topology"
SPECIFICATION FairSpec
\* The user may stop.
CHECK_DEADLOCK FALSE
INVARIANTS
  NothingLeftRunning
PROPERTIES
  EveryCommandAnswered
  RemovalsComplete
  ImplementsRemoveChain
