SPECIFICATION Spec
CONSTANTS
  Registered = {1, 2}
  NeedsApproval = {}
  NeedsInput = {2}
  ReportsRef = {}
  External = {2}
  EvidenceLevels = {2}
  Budgets <- AllowAll
  DirectTargets = {0}
  PlanKinds = {"free"}
  InputFaults = {}
  PrepareFaults = {}
  StartStatuses = {"SUCCEEDED"}
  JobEnds = {"SUCCEEDED"}
  BackendFaults = {"RETRYABLE_FAILED"}
  Tampering = FALSE
  MaxAttempts = 2
  MaxPolls = 0
  MaxCrashes = 0
INVARIANT OneLiveJob
CHECK_DEADLOCK FALSE
