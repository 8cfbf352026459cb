\* MCSettlement_race
SPECIFICATION SmallSpec
CONSTANTS
    o1 = o1
    o2 = o2
    r1 = r1
    r2 = r2
    r3 = r3
    k1 = k1
    NoKey = NoKey
    EmptyKey = EmptyKey
    None = None
    Orders <- TwoOrders
    Requests <- ThreeRequests
    OtherTx <- NoOthers
    Totals <- SomeTotals
    Amounts <- UnitAmount
    Headers <- AllHeaders
INVARIANTS
    TypeOK
    PaidWithinTotal
    BalanceChain
    OneRowPerKey
    AnswersTrue
    AuditTrail
    LostRaceIsReplayed
    StagedIsCurrent
PROPERTIES
    AppendOnly
    ImplementsLedger
    AllAnswered
