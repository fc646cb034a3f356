SPECIFICATION Spec
CONSTANTS
    Branch = {b1, b2, b3}
    Account = {x}
    Transactions = 2
    NULL = NULL
    Commands <- AnyCommand
    Deserters = {2}
    MaxOps = 2
    MaxActive = 2
    MaxRead = 1
SYMMETRY Symmetry
INVARIANTS TypeOK AbortLeavesNothing
PROPERTY BranchesEndAlike
CHECK_DEADLOCK FALSE
