SPECIFICATION Spec
CONSTANTS
    Node <- ThreeNodes
    Message = {m1, m2}
    m1 = m1
    m2 = m2
    x = x
    y = y
    Origin <- AllFromOne
    Operation <- DepositAndTransfer
    Account = {x, y}
    Mortal = {2}
    MaxOpen = 1
    MaxEvents = 2
INVARIANTS TypeOK AgreedByAll MoneyKept
PROPERTIES AllDelivered OneOrder
CHECK_DEADLOCK FALSE
