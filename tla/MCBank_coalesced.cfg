SPECIFICATION Spec
CONSTANTS
    Branch = {b1, b2}
    Account = {x, y}
    Transactions = 2
    NULL = NULL
    Commands <- AnyCommand
    Deserters = {}
    MaxOps = 1
    MaxActive = 2
    MaxRead = 2
SYMMETRY Symmetry
PROPERTY BranchesEndAlike
CHECK_DEADLOCK FALSE
