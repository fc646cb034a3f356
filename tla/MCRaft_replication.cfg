SPECIFICATION TimelySpec
CONSTANTS
    Server = {s1, s2, s3}
    Value = {x}
    NULL = NULL
    CallId = {c1}
    Killable = {}
    Assumed = {"OnTime", "Settled", "Fresh"}
    MaxTerm = 2
    MaxElections = 2
    MaxLog = 2
SYMMETRY Symmetry
INVARIANTS ElectionSafety LogsAscend LogMatching StateMachineSafety LeaderCompleteness NoPanic
PROPERTY AppliesOneLog
CHECK_DEADLOCK FALSE
