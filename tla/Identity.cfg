SPECIFICATION Spec
CONSTANTS
    k1 = k1
    k2 = k2
    n1 = n1
    n2 = n2
    n3 = n3
    Companies = {c1, c2, c3, c4}
    Cuis = {k1, k2}
    Nrs = {n1, n2, n3}
    Contacts = {1, 2, 3, 4}
    Nil = Nil
    Given <- MCGiven
    Payload <- MCPayload
    Chunks <- MCChunks
    AnafNr <- MCAnafNr
    Promotions = 1
    Enrichments = 1
    Reprocessed = {1, 2}
    Reviews = 1
INVARIANTS TypeOK  ConflictLeavesNothing
PROPERTIES KeysStayTogether
CHECK_DEADLOCK FALSE
