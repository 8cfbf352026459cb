\* MCOrderViews_safety
SPECIFICATION Spec
CONSTANTS
    NoKey = NoKey
    None = None
    DbZone = 0
    NodeZone = 5
    Filters = {"all", "partially_paid", "overdue"}
    Sorts = {"createdAt_asc", "due_desc"}
    Limits = {1, 2}
    CHUNK = 1
    ROWS_MAX = 2
    Hours = {25}
    MaxOrders = 4
    MaxChanges = 1
    MaxUses = 2
    MaxFaults = 1
CHECK_DEADLOCK FALSE
INVARIANTS
    ExportExact
    DashboardTrue
