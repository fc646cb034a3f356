SPECIFICATION Spec
CONSTANTS
    Node <- TwoNodes
    Message = {m1, m2}
    m1 = m1
    m2 = m2
    x = x
    y = y
    Origin <- OneFromEach
    Operation <- DepositAndTransfer
    Account = {x, y}
    Mortal = {}
    MaxOpen = 2
    MaxEvents = 2
PROPERTY OneOrder
CHECK_DEADLOCK FALSE
