SPECIFICATION Spec
CONSTANTS
    Companies = {c1}
    Nil = Nil
    InUse = {"anaf_fiscal", "structure", "finder", "contact"}
    wanted = {"finder"}
    Shape <- MCNotValidated
    Says <- MCSays
    Completeness <- MCScore
    Accuracy <- MCScore
    Freshness <- MCScore
    Attempts = 1
    Breaks <- MCSiteBreaks
    Failures = {"permanent", "auth"}
    Forgets = {"structure", "resume", "completeness"}
    MaxCopies = 2
    MaxRequests = 1
    MaxChecks = 1
CHECK_DEADLOCK FALSE
INVARIANTS TypeOK 
