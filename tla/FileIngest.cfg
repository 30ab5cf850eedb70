CONSTANTS
  Last = 3
  Sheet <- TwoSheets
  Kinds = {"small", "stream", "excel"}
  Chunk = 1
  MaxAttempts = 2
  MaxStalled = 1
  MaxRecovery = 1
  MaxRetries = 1
  MaxEvents = 2
  ThrowAt = {"inserting", "reporting", "failing"}
  DieAt = {"resolving", "dispatching"}

SPECIFICATION Spec
INVARIANTS TypeOK CountedIsStored FoundNewOnce
CHECK_DEADLOCK FALSE
