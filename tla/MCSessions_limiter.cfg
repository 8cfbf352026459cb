\* MCSessions_limiter
SPECIFICATION Spec
CONSTANTS
    r1 = r1
    r2 = r2
    r3 = r3
    None = None
    Requests = {r1, r2, r3}
    Tabs = {"tab"}
    Clients = {"client"}
    Emails = {"a", "b"}
    RATE_LIMIT_MAX = 1
    MaxFaults = 1
SYMMETRY Symmetry
INVARIANTS
    LimitLapses
