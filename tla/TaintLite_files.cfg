CONSTANTS
  Vars = {1, 2, 3, 4}
  Receivers = {4}
  Clean = Clean
  Files <- Chains
  MaxVars = 3
  MaxPasses = 2
  MaxFunctions = 2
SPECIFICATION Spec
INVARIANTS TypeOK TraceIsReal QuietMeansExact ShortFlowsFound OwnScopeAnswers
PROPERTIES AnalysisEnds
CHECK_DEADLOCK FALSE
