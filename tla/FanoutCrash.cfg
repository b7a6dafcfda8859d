SPECIFICATION Spec
CONSTANTS
  Workers = {w1}
  ChildTypes <- Templates
  MaxCycles = 2
  ScanLimit = 50
  MaxDeaths = 1
CHECK_DEADLOCK FALSE
INVARIANTS ParentWaitsForEveryChild
