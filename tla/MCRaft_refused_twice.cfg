SPECIFICATION TimelySpec
CONSTANTS
    Server = {s1, s2, s3}
    Value = {x}
    NULL = NULL
    CallId = {c1, c2}
    Killable = {}
    Assumed = {"OnTime", "Settled", "Fresh"}
    MaxTerm = 2
    MaxElections = 2
    MaxLog = 1
SYMMETRY Symmetry
INVARIANT NoPanic
CHECK_DEADLOCK FALSE
