SPECIFICATION Spec
CONSTANTS
    c1 = c1
    c2 = c2
    n1 = n1
    n2 = n2
    d1 = d1
    d2 = d2
    d3 = d3
    Client <- MCClient
    Name <- OneName
    Obj <- TwoObj
    Worker = Worker
    Null = Null
    MaxFlush = 2
    MaxCall = 1
INVARIANTS
    SyncCoversFlushes
\* The process may exit, and the bounds let every thread come to rest.
CHECK_DEADLOCK FALSE
