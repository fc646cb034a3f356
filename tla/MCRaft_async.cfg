SPECIFICATION Spec
CONSTANTS
    Server = {s1, s2}
    Value = {x}
    NULL = NULL
    CallId = {c1}
    Killable = {s1}
    Assumed = {}
    MaxTerm = 3
    MaxElections = 3
    MaxLog = 1
INVARIANTS TypeOK LeaderWonAnElection
PROPERTY LeaderAppendOnly
CHECK_DEADLOCK FALSE
