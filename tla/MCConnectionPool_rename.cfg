\* MCConnectionPool_rename
SPECIFICATION Spec
CONSTANTS
    c1 = c1
    c2 = c2
    c3 = c3
    Callers <- TwoCallers
    Connections <- TwoConnections
    Scripts <- RenameScripts
CHECK_DEADLOCK FALSE
PROPERTIES
    EveryoneServed
