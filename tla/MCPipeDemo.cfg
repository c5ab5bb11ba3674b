SPECIFICATION Spec
CONSTANTS
  InputIRs <- MCInputIRs
  Ranks <- MCRanks
CHECK_DEADLOCK FALSE
INVARIANTS
  TypeOK
  RunsDocumentedPlan
  OutputMatchesExit
  BuilderMatchesDriver
  ListTellsRuns
PROPERTIES
  StopKeepsDialect
  NoRaise
  DescendsLadder
