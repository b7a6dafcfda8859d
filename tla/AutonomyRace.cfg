SPECIFICATION Spec
CONSTANTS
  Workers = {w1, w2}
  MaxCycles = 2
  MaxRetries = 0
  MaxTotalSteps = 3
  LowInfoThreshold = 2
  Window = 100
  NeedsApproval = TRUE
  Downgraded = FALSE
  Causes = {"verification_failure"}
  Reasons = {"r1"}
  MaxEvents = 12
  MaxDecisions = 1
  MaxDeaths = 1
CHECK_DEADLOCK FALSE
SYMMETRY WorkerSymmetry
INVARIANTS TypeOK StagesInOrder ApprovalBeforeExecute StepsWithinCapPerWorker
