SPECIFICATION FairSpec
CONSTANTS
  Options <- MCOptions
  WireCap = 2
  SessionCap = 2
  WindowCap = 1
  Sizes = {1}
  MaxStream = 4
  MaxInput = 2
  MaxTraffic = 4
CHECK_DEADLOCK FALSE
INVARIANTS
  CleanCloseIsComplete
  MaskIsTold
  LinesInOrder
PROPERTIES
  BothSidesEnd
