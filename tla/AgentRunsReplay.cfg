SPECIFICATION Spec
CONSTANTS
  Callers = {c1, c2}
  Tasks = {t1, t2}
  Keys = {"k1"}
  Settings <- Both
  ListLimit = 200
  MaxRuns = 3
  MaxCrashes = 0
  MaxFaults = 0
CHECK_DEADLOCK FALSE
SYMMETRY Symmetry
INVARIANTS ExecutedOncePerKey
