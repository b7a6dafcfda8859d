SPECIFICATION Spec
CONSTANTS
  Callers = {c1, c2}
  Tasks = {t1, t2}
  Keys = {"k1"}
  Settings <- Either
  ListLimit = 200
  MaxRuns = 2
  MaxCrashes = 1
  MaxFaults = 1
CHECK_DEADLOCK FALSE
SYMMETRY Symmetry
INVARIANTS TypeOK TaskLimitWithinSlack CompletedHasOutput ActiveIsOwned ReplaysAreFinished ExecutionsPerKeyBounded WorkspaceLimitWithinSlack
