SPECIFICATION TimelySpec
CONSTANTS
    Server = {s1, s2, s3}
    Value = {x}
    NULL = NULL
    CallId = {c1}
    Killable = {}
    Assumed = {"Settled", "Fresh"}
    MaxTerm = 2
    MaxElections = 3
    MaxLog = 0
SYMMETRY Symmetry
INVARIANT ElectionSafety
CHECK_DEADLOCK FALSE
