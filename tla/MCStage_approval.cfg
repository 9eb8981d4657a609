\* Two stages, the second gated and perhaps waiting for a job, two attempts,
\* one crash.
SPECIFICATION Spec
CONSTANTS
  Registered = {1, 2}
  NeedsApproval = {2}
  NeedsInput = {2}
  ReportsRef = {}
  External = {2}
  EvidenceLevels = {2}
  Budgets <- AllowAll
  DirectTargets = {0}
  PlanKinds = {"free", "asks"}
  InputFaults = {}
  PrepareFaults = {"RETRYABLE_FAILED"}
  StartStatuses = {"SUCCEEDED", "RETRYABLE_FAILED"}
  JobEnds = {"SUCCEEDED", "TIMEOUT"}
  BackendFaults = {}
  Tampering = FALSE
  MaxAttempts = 2
  MaxPolls = 0
  MaxCrashes = 1
INVARIANTS ApprovedBeforeStart RetryFollowsFailure
PROPERTIES KeepsPromise
CHECK_DEADLOCK FALSE
