SPECIFICATION Spec
CONSTANT
  MaxOps = 6
CHECK_DEADLOCK FALSE
INVARIANTS
  NoUseOfErased
  BehaviourPreserved
  LeavesNeeded
PROPERTY
  RoundsEnd
