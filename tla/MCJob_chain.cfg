\* Every backend and scenario, two crashes, two lost messages.
SPECIFICATION FairSpec
CONSTANTS
  Cases <- AllCases
  MaxPolls = 3
  MaxCrashes = 2
  MaxLost = 2
INVARIANTS ArtifactsTellOneStory WaitingHasAJob RowsAreBacked
PROPERTIES JobOnlyMovesOn Settles
CHECK_DEADLOCK FALSE
