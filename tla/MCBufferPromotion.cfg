SPECIFICATION Spec
CONSTANTS
  Shapes <- MCShapes
  MaxOps = 4
CHECK_DEADLOCK FALSE
INVARIANTS
  MemorySafeOutsideLoops
  NoLeak
PROPERTIES
  PromotionsIndependent
  PromotionEnds
