SPECIFICATION Spec
CONSTANTS
  Mechanisms <- MCMechanisms
  Tags <- MCTags
  Targets = {"flat"}
  Rules = {1, 2}
  Rule <- MCRule
  Records = {1, 2, 3, 4, 5}
  Paper <- MCPaper
  Works <- MCWorks
  Budget <- MCBudget
  Frame <- MCFrame
  Crystal <- MCCrystal
  MaxSites = 8
  MaxCatalogSites = 8
  StructureOrder <- MCStructureOrder
  MaxPlans = 3
  TopK = 3
  MaxPerFamily = 1
  Weight <- MCWeight
  Answers <- MCAnswers
  ParentPools <- MCParentPools
  Policies <- MCPolicies
  SearchRetries = 1
  SearchWait = 2
  SearchPauses = {1, 2}
  Pacing = {0, 1}
  MaxBytes = 3
  MaxResponse = 2
  FetchRetries = 1
  FetchWait = 1
  FetchPauses = {1, 2}
  MaxRedirects = 1
  BodySizes = {1, 2}
  MaxTrouble = 2
INVARIANT FailureIsNotNoMatch
