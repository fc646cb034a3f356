SPECIFICATION TimelySpec
CONSTANTS
    Server = {s1, s2, s3}
    Value = {x}
    NULL = NULL
    CallId = {c1}
    Killable = {}
    Assumed = {"OnTime", "Settled"}
    MaxTerm = 2
    MaxElections = 2
    MaxLog = 1
SYMMETRY Symmetry
INVARIANT StateMachineSafety
CHECK_DEADLOCK FALSE
