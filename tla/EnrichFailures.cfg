SPECIFICATION FairSpec
CONSTANTS
    Companies = {c1}
    Nil = Nil
    InUse = {"anaf_fiscal", "termene_dosare"}
    wanted = {"anaf_fiscal", "termene_dosare"}
    Shape <- MCShape
    Says <- MCSays
    Completeness <- MCScore
    Accuracy <- MCScore
    Freshness <- MCScore
    Attempts = 2
    Breaks <- MCFetchBreaks
    Failures = {"transient"}
    Forgets = {}
    MaxCopies = 1
    MaxRequests = 1
    MaxChecks = 0
CHECK_DEADLOCK FALSE
INVARIANTS BarrierHolds ScoresCountAllSources
 
