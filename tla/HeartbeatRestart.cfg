CONSTANTS
  a = a
  b = b
  Nodes = {a, b}
  Control = Control
  Nobody = Nobody
  FirstAbove <- ChainAbove
  Workers = {w1, w2}
  MaxUpsets = 2
SPECIFICATION FairSpec
\* The user may leave the heartbeat off.
CHECK_DEADLOCK FALSE
PROPERTIES
  SilenceReported
