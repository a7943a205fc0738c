SPECIFICATION Spec
CONSTANTS
  a = a
  b = b
  c = c
  NoWork = NoWork
  Steps = {a}
  Shapes <- MCRetryWithBackoff
  RunnerOutcomes = {"Succeeded", "Failed"}
  StaleFor = {}
  RunnersDeletable = {}
  QuotaFor = {}
  WorkflowDeletable = FALSE
  PromptReconciles = FALSE
  MaxStart = 1
  MaxRunners = 3
  MaxFaults = 0
  MaxClock = 3
  DurationLimit = 4
PROPERTIES
  BackoffRespected
CHECK_DEADLOCK FALSE
