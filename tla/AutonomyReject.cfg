SPECIFICATION Spec
CONSTANTS
  Workers = {w1}
  MaxCycles = 2
  MaxRetries = 0
  MaxTotalSteps = 6
  LowInfoThreshold = 2
  Window = 100
  NeedsApproval = TRUE
  Downgraded = FALSE
  Causes = {"stage_failure"}
  Reasons = {"r1"}
  MaxEvents = 100
  MaxDecisions = 2
  MaxDeaths = 0
CHECK_DEADLOCK FALSE
PROPERTIES RejectedNeverCompletes
