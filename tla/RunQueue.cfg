SPECIFICATION FairSpec
CONSTANTS
  s1 = s1
  s2 = s2
  Jobs = {j1, j2, j3}
  Malformed = {j3}
  Scanners = {s1, s2}
  MaxAttempts = 2
  Deployments <- Installations
  MaxCrashes = 1
  MaxFaults = 1
CHECK_DEADLOCK FALSE
INVARIANTS TypeOK ExecutionsWithinAttempts OnlyLostJobsStayRunning
PROPERTIES EveryJobEnds KeepsContract
