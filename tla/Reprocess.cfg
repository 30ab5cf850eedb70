SPECIFICATION FairSpec
CONSTANTS
    c1 = c1
    c2 = c2
    c3 = c3
    Contacts = {c1, c2, c3}
    Nil = Nil
    Rank <- MCRank
    Times <- MCTimes
    FirstRow <- MCFirstRow
    Outcomes = {"resolved", "conflict"}
    PageSize = 2
    ContactTries = 2
    Attempts <- MCAttempts
    MaxCalls = 2
    MaxBreaks = 2
INVARIANTS TypeOK FullRunServesAll 
PROPERTIES EndsOnWholeMilliseconds
CHECK_DEADLOCK FALSE
