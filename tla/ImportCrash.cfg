CONSTANTS
  k1 = k1
  k2 = k2
  w1 = w1
  w2 = w2
  r1 = r1
  r2 = r2
  Keys = {k1}
  Workers = {w1}
  WorkerOf <- OneWorker
  Requests = {r1}
  MaxAttempts = 2
  MaxRecovery = 1
  MaxStalledCount = 1
  PauseScopes <- BatchOnly
  Modes <- BothModes
  Reporting = {w1}
  FailingKeys = {k1}
  DyingKeys = {k1}
  DyingRequests = {r1}
  MaxEnqueues = 1
  MaxPauses = 1
  MaxResumes = 2

SPECIFICATION Spec
INVARIANTS TypeOK TrackedJobs LossHasCause CompletedWasProcessed
PROPERTIES SpentRecoveriesStay
CHECK_DEADLOCK FALSE
