\* MCOrderEditing_race
SPECIFICATION EditFairSpec
CONSTANTS
    o1 = o1
    r1 = r1
    e1 = e1
    e2 = e2
    NoKey = NoKey
    EmptyKey = EmptyKey
    None = None
    Orders <- OneOrder
    Requests <- OneRequest
    OtherTx <- TwoEdits
    Edits <- TwoEdits
    Totals <- SomeTotals
    Amounts <- LargeAmount
    Headers <- NoKeys
INVARIANTS
    OrderBalance
    LinesHaveOrder
    EditAudited
PROPERTIES
    EditsAnswered
