SPECIFICATION FairSpec
CONSTANTS
  Workers = {w1}
  MaxCycles = 2
  MaxRetries = 1
  MaxTotalSteps = 5
  LowInfoThreshold = 2
  Window = 100
  NeedsApproval = TRUE
  Downgraded = FALSE
  Causes = {"provider_failure", "verification_failure", "policy_block", "stage_failure"}
  Reasons = {"r1", "r2"}
  MaxEvents = 100
  MaxDecisions = 1
  MaxDeaths = 0
CHECK_DEADLOCK FALSE
INVARIANTS CompletedPassedEveryGate AttemptsWithinCap FailuresWithinRetries CyclesAdvance
PROPERTIES NoEarlyRetry Settles
