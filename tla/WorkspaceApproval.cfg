SPECIFICATION Spec
CONSTANTS
  l1 = l1
  l2 = l2
  Loops = {l1, l2}
  Paths <- Files
  Commands <- Shell
  DefaultTest = "test"
  Needs <- ShellNeeds
  Edits <- ShellEdits
  Occurs <- ShellOccurs
  Slow = {"test all"}
  Inspected = 2
  Contracts <- Found
  Scenarios <- Approved
CHECK_DEADLOCK FALSE
INVARIANTS ApprovedRunsApply
