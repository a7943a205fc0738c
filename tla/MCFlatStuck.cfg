SPECIFICATION FairSpec
CONSTANTS
  a = a
  b = b
  c = c
  NoWork = NoWork
  Steps = {a, b}
  Shapes <- MCChain
  RunnerOutcomes = {"Succeeded", "Failed"}
  StaleFor = {}
  RunnersDeletable = {}
  QuotaFor = {}
  WorkflowDeletable = FALSE
  PromptReconciles = FALSE
  MaxStart = 1
  MaxRunners = 3
  MaxFaults = 0
  MaxClock = 1
  DurationLimit = 4
PROPERTIES
  WorkflowEnds
CHECK_DEADLOCK FALSE
