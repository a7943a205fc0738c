SPECIFICATION FairSpec
CONSTANTS
  A = A
  B = B
  a = a
  b = b
  x = x
  y = y
  Jobs = {A, B}
  Steps = {a, b}
  Names = {x, y}
  NoWork = NoWork
  PromptReconciles = TRUE
  Shapes <- MCShapes
  StaleFor <- MCStale
  QuotaFor <- MCQuota
  MaxRunners = 3
  MaxFaults = 1
  MaxClock = 3
  DurationLimit = 4
INVARIANTS
  JobSuccessIsReal
  NeedsRanFirst
  SettledMeansUpToDate
PROPERTIES
  NothingStartsAfterEnd
  JobWorkflowEnds
  TimeoutEnds
CHECK_DEADLOCK FALSE
