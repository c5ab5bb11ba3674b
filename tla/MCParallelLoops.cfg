SPECIFICATION Spec
CONSTANTS
  Buffer = {"A", "B", "C"}
  MaxDim = 2
  Ops <- MCOps
CHECK_DEADLOCK FALSE
INVARIANTS
  TypeOK
  LoadsOldValues
PROPERTIES
  LoweringIsAtomic
  NoRace
