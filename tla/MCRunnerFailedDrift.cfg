SPECIFICATION FairSpec
CONSTANTS
  plain = plain
  other = other
  guarded = guarded
  hPlain = hPlain
  hOther = hOther
  hGuarded = hGuarded
  key = key
  NoHash = NoHash
  NoSecret = NoSecret
  NoWork = NoWork
  Specs <- MCPlainSpecs
  Hashes <- MCHashes
  computeSpecHash <- MCHash
  Secrets = {NoSecret}
  RequiredSecretKeys <- MCRequired
  MutableSecret = FALSE
  JobOutcomes = {"failed"}
  DeletableJobs = {}
  FreshCaches = TRUE
  RunnerDeletable = FALSE
  MaxGeneration = 2
  MaxJobs = 3
  MaxFaults = 0
  MetricCap = 0
PROPERTIES
  SpecEventuallyRuns
CHECK_DEADLOCK FALSE
