SPECIFICATION Spec
CONSTANTS
  NaN <- MCNaN
  Positions <- MCPositions
  Programs <- MCPrograms
CHECK_DEADLOCK FALSE
INVARIANTS
  FoldsPreserveValues
  ChainsAreFolded
PROPERTY
  FoldingEnds
