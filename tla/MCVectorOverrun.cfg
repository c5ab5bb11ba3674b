SPECIFICATION Spec
CONSTANTS
  Buffer = {"A", "B", "C"}
  MaxDim = 5
  VectorSize = 2
  Ops <- OddMatmul
CHECK_DEADLOCK FALSE
INVARIANT
  NestComputesOp
