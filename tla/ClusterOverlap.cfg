CONSTANTS
  n1 = n1
  n2 = n2
  n3 = n3
  n4 = n4
  n5 = n5
  Ids = {n1, n2, n3}
  NoId = NoId
  MaxPid = 3
  Values = {v}
  NoValue = NoValue
  Get = Get
  Seed <- Two
  MaxCommands = 3
  MaxCrashes = 1
  CrashesMidway = TRUE
  InputEnds = FALSE
  HeartbeatOn = TRUE
  Patience = "none"
SPECIFICATION Spec
\* The user may stop.
CHECK_DEADLOCK FALSE
INVARIANTS
  TypeOK
  RecordsMatchAwaited
  ReapFindsNode
