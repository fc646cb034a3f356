SPECIFICATION Spec
CONSTANTS
    Branch = {b1, b2}
    Account = {x}
    Transactions = 2
    NULL = NULL
    Commands <- AnyCommand
    Deserters = {}
    MaxOps = 2
    MaxActive = 1
    MaxRead = 1
SYMMETRY Symmetry
INVARIANT CommittedFromCommitted
CHECK_DEADLOCK FALSE
