SPECIFICATION Spec
CONSTANTS
  kTileSize = 4
  MaxIndex = 127
  Loops <- MCLoops
CHECK_DEADLOCK FALSE
INVARIANTS
  TypeOK
  TilesAreFull
PROPERTY
  TilingPreservesLoop
