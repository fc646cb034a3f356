SPECIFICATION Spec
CONSTANTS
    Branch = {b1, b2}
    Account = {x}
    Transactions = 2
    NULL = NULL
    Commands <- AnyCommand
    Deserters = {}
    MaxOps = 1
    MaxActive = 2
    MaxRead = 1
SYMMETRY Symmetry
PROPERTY CommittedIsKept
CHECK_DEADLOCK FALSE
