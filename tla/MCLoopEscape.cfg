SPECIFICATION Spec
CONSTANTS
  Shapes <- MCShapes
  MaxOps = 4
CHECK_DEADLOCK FALSE
INVARIANT
  MemorySafe
