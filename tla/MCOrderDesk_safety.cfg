\* MCOrderDesk_safety
SPECIFICATION Spec
CONSTANTS
    NoKey = NoKey
    None = None
    DbZone = 0
    NodeZone = 0
    p1 = p1
    p2 = p2
    Pages = {p1, p2}
    Total = 2
    Paid = {0}
    Amounts = {1, 2}
    NewTotals = {1}
    MaxOpenings = 2
    MaxSends = 2
    MaxLoads = 2
    MaxFaults = 1
SYMMETRY Symmetry
CHECK_DEADLOCK FALSE
INVARIANTS
    NoDoubleCharge
    ReceiptIsTrue
    OwnRowsShown
