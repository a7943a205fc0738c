SPECIFICATION FairSpec
CONSTANTS
  plain = plain
  other = other
  guarded = guarded
  hPlain = hPlain
  hOther = hOther
  hGuarded = hGuarded
  key = key
  NoHash = NoHash
  NoSecret = NoSecret
  NoWork = NoWork
  Specs <- MCPlainSpecs
  Hashes <- MCHashes
  computeSpecHash <- MCHash
  Secrets = {NoSecret}
  RequiredSecretKeys <- MCRequired
  MutableSecret = FALSE
  JobOutcomes = {"complete", "failed"}
  DeletableJobs = {1}
  FreshCaches = TRUE
  RunnerDeletable = TRUE
  MaxGeneration = 2
  MaxJobs = 4
  MaxFaults = 1
  MetricCap = 0
PROPERTIES
  OutcomeReported
  DriftConverges
  NothingLeftBehind
CHECK_DEADLOCK FALSE
