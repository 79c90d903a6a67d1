CONSTANTS
  Ids = {i1, i2, i3, i4, i5, i6}
  NoId = NoId
  Trees <- Alone
SPECIFICATION Spec
\* The control node may end.
CHECK_DEADLOCK FALSE
SYMMETRY IdSymmetry
INVARIANTS
  ChainTypeOK
  TopologyMatchesTree
  ConnectFindsSlot
