\* MCTestRunner_safety
SPECIFICATION FairSpec
CONSTANTS
    None = None
    s1 = s1
    l1 = l1
    s2 = s2
    l2 = l2
    l3 = l3
    Suites <- TwoSuites
    Loads <- ThreeLoads
    Casts <- SomeCasts
    Scenarios <- ScenarioCounts
    MaxProgress <- ProgressCounts
    MaxFaults = 1
INVARIANTS
    OneLoad
    FinalViewTrue
PROPERTIES
    OnlyOwnerReleases
    GateReopens
    ViewsSettle
