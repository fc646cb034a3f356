SPECIFICATION Spec
CONSTANTS
    n = 2
    Command = {a, b}
    NULL = NULL
    MaxIndex = 2
    MaxApplies = 2
INVARIANTS TypeOK DisagreementNoticed ReturnedIsCommitted Partitioned
PROPERTY TestEnds
CHECK_DEADLOCK FALSE
