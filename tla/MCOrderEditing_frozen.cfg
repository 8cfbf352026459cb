\* MCOrderEditing_frozen
SPECIFICATION EditFairSpec
CONSTANTS
    o1 = o1
    r1 = r1
    e1 = e1
    e2 = e2
    NoKey = NoKey
    EmptyKey = EmptyKey
    None = None
    Orders <- OneOrder
    Requests <- OneRequest
    OtherTx <- OneEdit
    Edits <- OneEdit
    Totals <- SomeTotals
    Amounts <- UnitAmount
    Headers <- NoKeys
PROPERTIES
    LinesFrozenOncePaid
