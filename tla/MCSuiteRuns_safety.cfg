\* MCSuiteRuns_safety
SPECIFICATION Spec
CONSTANTS
    NoKey = NoKey
    None = None
    DbZone = 0
    NodeZone = 0
    r1 = r1
    r2 = r2
    Runs <- TwoRuns
    Plans <- SomePlans
    MaxFaults = 1
SYMMETRY Symmetry
INVARIANTS
    VerdictsTrue
    NothingLeftBehind
    LeftoversFindable
