SPECIFICATION Spec
CONSTANTS
  Registered = {1, 2, 4}
  NeedsApproval = {2, 4}
  NeedsInput = {2, 3, 4}
  ReportsRef = {2, 3, 4}
  External = {}
  EvidenceLevels = {1, 2, 3, 4}
  Budgets <- AllOrMl
  DirectTargets = {0, 2, 3}
  PlanKinds = {"free"}
  InputFaults = {"BLOCKED_MISSING_INPUT", "CAPABILITY_UNAVAILABLE", "PERMANENT_FAILED"}
  PrepareFaults = {"PERMANENT_FAILED"}
  StartStatuses = {"SUCCEEDED", "PARTIAL", "PERMANENT_FAILED"}
  JobEnds = {"SUCCEEDED"}
  BackendFaults = {}
  Tampering = FALSE
  MaxAttempts = 1
  MaxPolls = 0
  MaxCrashes = 1
INVARIANTS FinalStatusIsEarned ProcessNeverStuck NothingRefused
CHECK_DEADLOCK FALSE
