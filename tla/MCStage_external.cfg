SPECIFICATION FairSpec
CONSTANTS
  Registered = {1, 2, 3}
  NeedsApproval = {}
  NeedsInput = {2}
  ReportsRef = {2}
  External = {2}
  EvidenceLevels = {3}
  Budgets <- AllowAll
  DirectTargets = {0}
  PlanKinds = {"free"}
  InputFaults = {}
  PrepareFaults = {}
  StartStatuses = {"SUCCEEDED"}
  JobEnds = {"SUCCEEDED", "FAILED", "TIMEOUT"}
  BackendFaults = {"RETRYABLE_FAILED", "PERMANENT_FAILED"}
  Tampering = TRUE
  MaxAttempts = 2
  MaxPolls = 1
  MaxCrashes = 1
INVARIANTS EarlierStagesSettled LedgersAgree
PROPERTIES TerminalIsFinal ReportedUnlessRefused
CHECK_DEADLOCK FALSE
