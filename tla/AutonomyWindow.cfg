SPECIFICATION Spec
CONSTANTS
  Workers = {w1}
  MaxCycles = 1
  MaxRetries = 0
  MaxTotalSteps = 6
  LowInfoThreshold = 2
  Window = 12
  NeedsApproval = TRUE
  Downgraded = TRUE
  Causes = {"stage_failure"}
  Reasons = {"r1"}
  MaxEvents = 40
  MaxDecisions = 0
  MaxDeaths = 0
CHECK_DEADLOCK FALSE
INVARIANTS ApprovalAlways
