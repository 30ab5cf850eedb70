CONSTANTS
  k1 = k1
  k2 = k2
  w1 = w1
  w2 = w2
  r1 = r1
  r2 = r2
  Keys = {k1}
  Workers = {w1}
  WorkerOf <- OneWorker
  Requests = {r1, r2}
  MaxAttempts = 2
  MaxRecovery = 1
  MaxStalledCount = 0
  PauseScopes <- BatchOnly
  Modes <- RecoverOnly
  Reporting = {w1}
  FailingKeys = {k1}
  DyingKeys = {k1}
  DyingRequests = {}
  MaxEnqueues = 1
  MaxPauses = 0
  MaxResumes = 2

SPECIFICATION FairSpec
INVARIANTS RecoveryBudget
PROPERTIES JobsFinish
CHECK_DEADLOCK FALSE
