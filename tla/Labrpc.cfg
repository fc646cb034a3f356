SPECIFICATION Spec
CONSTANTS
    End = {e1}
    Name = {n1}
    Request = {c1, c2}
    NULL = NULL
    MaxServers = 2
    MaxChanges = 6
INVARIANTS TypeOK TrueMeansServed FalseHasReason
PROPERTIES CallReturns NoneLeftBehind
CHECK_DEADLOCK FALSE
