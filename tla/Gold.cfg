SPECIFICATION Spec
CONSTANTS
    old = old
    young = young
    key = key
    other = other
    mail = mail
    Companies = {old, young}
    Cuis = {key, other}
    Contacts = {mail}
    Nil = Nil
    Age <- MCAge
    FirstCui <- MCFirstCui
    Finds <- MCFinds
    FirstContacts <- MCContacts
    Address <- MCAddress
    Similar <- MCSimilar
    Verdicts = {"eligible", "review_required"}
    Attempts = 2
    Breaks = {"upsert"}
    Failures = {"permanent"}
    Forgets = {"exact"}
    MaxCopies = 1
    MaxCalls = 2
    MaxRounds = 1
    MaxDecisions = 1
INVARIANTS TypeOK PromotedCarriesContacts AutoMergeNeedsDecision ForcedMakesGold
CHECK_DEADLOCK FALSE
