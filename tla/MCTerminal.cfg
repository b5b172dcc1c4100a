SPECIFICATION BothSpec
CONSTANTS
  None = None
  Cols = 2
  Heights = {1, 2, 3}
  MaxGlyphs = 3
  MaxScrollback = 3
  MaxCommands = 1
  MaxBuf = 6
  MaxSb = 4
  MaxStream = 6
  MaxLeft = 2
CHECK_DEADLOCK FALSE
INVARIANTS
  HistoryInOrder
  ChunksDontMatter
  LeftoverEndsAtLineFeed
PROPERTIES
  FitLosesNothing
  RowsKeepTheirText
