SPECIFICATION Spec
CONSTANTS
  a = a
  b = b
  c = c
  NoWork = NoWork
  Steps = {a, b, c}
  Shapes <- MCFaults
  RunnerOutcomes = {"Succeeded", "Failed"}
  StaleFor <- MCStale
  RunnersDeletable <- MCDeleted
  QuotaFor <- MCShapes
  WorkflowDeletable = FALSE
  PromptReconciles = FALSE
  MaxStart = 2
  MaxRunners = 3
  MaxFaults = 1
  MaxClock = 2
  DurationLimit = 4
INVARIANTS
  DependenciesSucceededFirst
  StepSuccessIsReal
  NoRunnerForCycle
  SuccessMeansAllDone
  SettledMeansMirrored
  RunnableMeansRunner
  FailureStepsFollowFailure
  RetriesBounded
PROPERTIES
  EndedStaysEnded
  ExecutesDag
CHECK_DEADLOCK FALSE
