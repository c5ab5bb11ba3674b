SPECIFICATION Spec
CONSTANT Programs <- MCPrograms
CHECK_DEADLOCK FALSE
INVARIANTS
  NoUseOfErased
  FlashIsAttention
  SoftmaxSharesNumerator
  RecordsBoundaries
PROPERTIES
  PreservesFunction
  BoundariesSurvive
  EndedPassesStayDone
  StageEnds
