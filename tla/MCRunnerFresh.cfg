SPECIFICATION Spec
CONSTANTS
  plain = plain
  other = other
  guarded = guarded
  hPlain = hPlain
  hOther = hOther
  hGuarded = hGuarded
  key = key
  NoHash = NoHash
  NoSecret = NoSecret
  NoWork = NoWork
  Specs <- MCGuardedSpecs
  Hashes <- MCHashes
  computeSpecHash <- MCHash
  Secrets <- MCSecrets
  RequiredSecretKeys <- MCRequired
  MutableSecret = TRUE
  JobOutcomes = {"complete", "failed"}
  DeletableJobs = {}
  FreshCaches = TRUE
  RunnerDeletable = FALSE
  MaxGeneration = 3
  MaxJobs = 4
  MaxFaults = 1
  MetricCap = 2
INVARIANTS
  OneJobPerGeneration
  SettledMeansHandled
  MetricsFollowStatus
PROPERTIES
  TerminalIsFinal
  ValidatedBeforeJob
CHECK_DEADLOCK FALSE
