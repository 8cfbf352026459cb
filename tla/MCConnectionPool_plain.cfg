\* MCConnectionPool_plain
SPECIFICATION Spec
CONSTANTS
    c1 = c1
    c2 = c2
    c3 = c3
    Callers <- ThreeCallers
    Connections <- TwoConnections
    Scripts <- PlainScripts
INVARIANTS
    SomeoneCanRelease
PROPERTIES
    EveryoneServed
