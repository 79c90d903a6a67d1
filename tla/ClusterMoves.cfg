CONSTANTS
  n1 = n1
  n2 = n2
  n3 = n3
  n4 = n4
  n5 = n5
  Ids = {n1, n2, n3, n4, n5}
  NoId = NoId
  MaxPid = 6
  Values = {v}
  NoValue = NoValue
  Get = Get
  Seed <- Five
  MaxCommands = 2
  MaxCrashes = 0
  CrashesMidway = FALSE
  InputEnds = FALSE
  HeartbeatOn = FALSE
  Patience = "topology"
SPECIFICATION Spec
\* The user may stop.
CHECK_DEADLOCK FALSE
INVARIANTS
  ProcessesMatchTree
  NoStuckProcess
  BroadcastsInOrder
PROPERTIES
  ExecAnswered
