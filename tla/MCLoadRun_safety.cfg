\* MCLoadRun_safety
SPECIFICATION Spec
CONSTANTS
    NoKey = NoKey
    None = None
    DbZone = 0
    NodeZone = 0
    Profiles <- SomeProfiles
    Limits <- SmallLimits
    RATE_LIMIT_MAX = 6
    MaxFaults = 2
INVARIANTS
    PoolMoves
    EstimateMet
    
    CleansUp
