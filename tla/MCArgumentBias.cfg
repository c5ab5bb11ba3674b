SPECIFICATION Spec
CONSTANT Programs <- ArgumentBias
CHECK_DEADLOCK FALSE
INVARIANT NeverAborts
