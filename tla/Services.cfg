SPECIFICATION Spec
CONSTANTS
  a1 = a1
  a2 = a2
  Assemblers = {a1, a2}
  Kinds <- Events
  Batons <- Packets
  EventLimit = 2
  RecentFull = 1
  MinSamples = 1
  MaxBundles = 2
  MaxRestarts = 1
  Callers = {a1, a2}
  Requests <- TheRequests
  Rows <- TheRows
  Noon = 5
  ShortList = 2
  LongList = 2
  MaxAsked = 1
  MaxFaults = 1
  Fallbacks <- FallbackOrder
  MaxRetries = 2
  MaxChunks = 2
  PolicyUpdates <- Updates_Asked
  Switches <- Switches_Asked
  FailureWindow = 4
  MaxProviderSwitches = 2
  MaxRuns = 3
  MaxChanges = 1
  MaxCrashes = 1
CHECK_DEADLOCK FALSE
INVARIANTS CriticalKeptVerbatim ReferencesGiveBackTheText BudgetKept OneAnswerPerCall SwitchesWithinBudget ChoiceWithinLimits
PROPERTY ActsAsPostgres
