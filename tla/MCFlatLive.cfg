SPECIFICATION FairSpec
CONSTANTS
  a = a
  b = b
  c = c
  NoWork = NoWork
  Steps = {a, b}
  Shapes <- MCEnding
  RunnerOutcomes = {"Succeeded", "Failed"}
  StaleFor = {}
  RunnersDeletable = {}
  QuotaFor = {}
  WorkflowDeletable = TRUE
  PromptReconciles = TRUE
  MaxStart = 1
  MaxRunners = 3
  MaxFaults = 1
  MaxClock = 3
  DurationLimit = 4
PROPERTIES
  WorkflowEnds
  NothingLeftBehind
CHECK_DEADLOCK FALSE
