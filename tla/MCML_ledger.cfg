SPECIFICATION Spec
CONSTANTS
  None = None
  Candidates <- MCCandidates
  Item <- MCItem
  Supported = {"Si", "O"}
  CoverageComplete = TRUE
  Tolerance = 1
  MaxSites = 4
  AutomaticMax = 2
  HardMax = 3
  Relaxation <- MCRelaxation
  Asks <- MCAsks
  MaxCalls = 3
  MaxTrouble = 3
CHECK_DEADLOCK FALSE
INVARIANT EvidenceIsEarned
INVARIANT CompletedWorkIsKept
INVARIANT AnswersAreCompleted
INVARIANT RefusalHasACause
INVARIANT BudgetGoesToTheBest
