SPECIFICATION Spec
CONSTANTS
  plain = plain
  other = other
  guarded = guarded
  hPlain = hPlain
  hOther = hOther
  hGuarded = hGuarded
  key = key
  NoHash = NoHash
  NoSecret = NoSecret
  NoWork = NoWork
  Specs <- MCPlainSpecs
  Hashes <- MCHashes
  computeSpecHash <- MCHash
  Secrets = {NoSecret}
  RequiredSecretKeys <- MCRequired
  MutableSecret = FALSE
  JobOutcomes = {"complete", "failed"}
  DeletableJobs = {}
  FreshCaches = FALSE
  RunnerDeletable = FALSE
  MaxGeneration = 2
  MaxJobs = 3
  MaxFaults = 1
  MetricCap = 0
INVARIANTS
  TypeOK
  OutcomeIsReal
  HashBeforeJob
  SettledMeansHandled
CHECK_DEADLOCK FALSE
