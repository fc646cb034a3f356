SPECIFICATION Spec
CONSTANTS
    Branch = {b1, b2}
    Account = {x}
    Transactions = 3
    NULL = NULL
    Commands <- OpenWriteRead
    Deserters = {}
    MaxOps = 2
    MaxActive = 3
    MaxRead = 1
SYMMETRY Symmetry
INVARIANT ReadsStand
CHECK_DEADLOCK FALSE
