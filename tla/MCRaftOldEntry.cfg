SPECIFICATION OldEntrySpec
CONSTANTS
    Server = {s1, s2, s3, s4, s5}
    Odd = s1
    Even = s2
    Apart = s5
    Value = {x}
    NULL = NULL
    CallId = {c1}
    Killable = {}
    Assumed = {"OnTime", "Settled", "Fresh"}
    MaxTerm = 4
    MaxElections = 4
    MaxLog = 1
SYMMETRY OldEntrySymmetry
INVARIANT StateMachineSafety
CHECK_DEADLOCK FALSE
