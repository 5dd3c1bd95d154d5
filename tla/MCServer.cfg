SPECIFICATION FairSpec
CONSTANTS
    NumWorkers = 3
    SureThreads = 2
    c1 = c1
    c2 = c2
    c3 = c3
    Conns <- ThreeConns
    NoConn = NoConn
INVARIANTS
    TypeOK
    CountExact
    BoundedStaleness
    Balanced
    NoUseAfterDestroy
PROPERTIES
    Served
    ListenEnds
\* A startup that fails leaves listen() joining threads that never stop.
CHECK_DEADLOCK FALSE
