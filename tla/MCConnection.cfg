SPECIFICATION FairSpec
CONSTANTS
    InitialCap = 2
    ReadChunk = 2
    MaxHeader = 4
    MaxBody = 3
    MaxKeepAlive = 3
    NoLength = NoLength
    BadLength = BadLength
    Scripts <- Pipelines
INVARIANTS
    TypeOK
    BufferFits
    InStep
    
    
PROPERTIES
    ImplementsSession
    FirstRequestBounded
    BodyBounded
    ResetEnds
