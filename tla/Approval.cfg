SPECIFICATION FairSpec
CONSTANTS
    t1 = t1
    ana = ana
    dan = dan
    mia = mia
    r1 = r1
    r2 = r2
    r3 = r3
    Tasks = {t1}
    Kind <- OneError
    Entity <- OwnEntity
    Users = {ana, dan, mia}
    Role <- MCRole
    Nil = Nil
    Requests = {r1, r2, r3}
    Choices = {"approve", "reject"}
    Attempts = 2
    Breaks = {"follow"}
    Blocked = {"failed", "waiting", "other"}
    Unresolved = {}
    MayDie = {r3}
    Forgets = TRUE
INVARIANTS TypeOK  OverturnedByStaleRead
PROPERTIES Implements DecidedTakesEffect
CHECK_DEADLOCK FALSE
