SPECIFICATION Spec
CONSTANTS
    known = known
    bare = bare
    unknown = unknown
    regno = regno
    file = file
    single = single
    again = again
    Contacts = {a}
    Cuis = {known, bare, unknown}
    Regs = {regno}
    Nil = Nil
    Files = {file}
    Singles = {single}
    Normalisers = {"email"}
    Intake <- MCFile
    ChecksumOk = {known, unknown}
    Anaf <- MCAnaf
    Attempts = 2
    Breaks = {}
    Forgets = {}
INVARIANT ReleasedByB5
CHECK_DEADLOCK FALSE
