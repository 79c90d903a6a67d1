CONSTANTS
  n1 = n1
  n2 = n2
  n3 = n3
  n4 = n4
  n5 = n5
  Ids = {n1, n2, n3}
  NoId = NoId
  MaxPid = 3
  Values = {v}
  NoValue = NoValue
  Get = Get
  Seed <- Three
  MaxCommands = 1
  MaxCrashes = 1
  CrashesMidway = FALSE
  InputEnds = FALSE
  HeartbeatOn = TRUE
  Patience = "all"
SPECIFICATION Spec
\* The user may stop.
CHECK_DEADLOCK FALSE
INVARIANTS
  LastNodeChecked
