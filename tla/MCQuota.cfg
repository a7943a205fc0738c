SPECIFICATION FairSpec
CONSTANTS
  w1 = w1
  w2 = w2
  w3 = w3
  NoWork = NoWork
  Workflows = {w1, w2, w3}
  Mixes <- MCMixes
  Limit = 2
  MaxFaults = 1
INVARIANTS
  QuotaRespected
  WaitingIsRetried
PROPERTIES
  EndIsReported
CHECK_DEADLOCK FALSE
