SPECIFICATION Spec
CONSTANTS
  kTileM = 2
  kTileN = 2
  Functions <- MCFunctions
CHECK_DEADLOCK FALSE
INVARIANT
  NestsComputeMatmul
