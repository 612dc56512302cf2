SPECIFICATION FairSpec
CONSTANTS
  BufferSize = 2
  AppBufferSize = 2
  Reserved = 20
  MaxNest = 2
  MaxFed = 6
  MaxValues = 1
INVARIANTS
  TypeOK
  PiecesOnStack
  BufferInStruct
PROPERTIES
  BuildsStrings
  AddLStringReturns
