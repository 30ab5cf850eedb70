SPECIFICATION FairSpec
CONSTANTS
    known = known
    bare = bare
    unknown = unknown
    regno = regno
    file = file
    single = single
    again = again
    Contacts = {a, b}
    Cuis = {known, bare, unknown}
    Regs = {regno}
    Nil = Nil
    Files = {file}
    Singles = {single}
    Normalisers = {"name"}
    Intake <- MCIntake
    ChecksumOk = {known, unknown}
    Anaf <- MCAnaf
    Attempts = 2
    Breaks <- MCBreaks
    Forgets = {"c2"}
INVARIANTS TypeOK PromotedIsValidated InvalidStaysOut SinglesAreChecked
PROPERTY ValidIsPromoted
CHECK_DEADLOCK FALSE
