SPECIFICATION LuauSpec
CONSTANTS
  BufferSize = 3
  AppBufferSize = 3
  Reserved = 20
  MaxNest = 2
  MaxFed = 7
  MaxValues = 1
  LongValues = FALSE
INVARIANTS
  PiecesShrink
PROPERTIES
  BuildsStringsToo
