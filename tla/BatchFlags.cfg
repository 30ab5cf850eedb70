CONSTANTS
  w1 = w1
  w2 = w2
  Workers = {w1, w2}
  Parser = w1
  Requests = {r1}
  Operations <- AllOperations
  Streaming = TRUE
  MayThrow = TRUE
  MaxAttempts = 1
  MaxRecovery = 1
  MaxRetries = 1
  MaxRequests = 3

SPECIFICATION BatchSpec
INVARIANTS BatchTypeOK FlagsAsAsked DeletedIsPaused
CHECK_DEADLOCK FALSE
