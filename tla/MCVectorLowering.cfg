SPECIFICATION Spec
CONSTANTS
  Buffer = {"A", "B", "C"}
  MaxDim = 5
  VectorSize = 2
  Ops <- MCOps
CHECK_DEADLOCK FALSE
INVARIANTS
  AccessesInRow
  WholeVectorsComputeOp
PROPERTY
  LoweringEnds
