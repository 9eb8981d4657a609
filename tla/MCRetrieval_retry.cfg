SPECIFICATION Spec
CONSTANTS
  None = None
  Plain = Plain
  Twin = Twin
  Ids <- MCIds
  Entry <- MCEntry
  Structures <- MCStructures
  Requirements <- MCRequirements
  RunSources <- MCRunSources
  Listings <- TameListings
  Tolerance = 1
  ChunkSize = 1
  MaxRecordsScanned = 3
  MaxAttempts = 2
  MaxCalls = 3
  MaxTrouble = 2
CHECK_DEADLOCK FALSE
INVARIANT RetryableStaysRetryable
