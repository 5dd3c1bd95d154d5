SPECIFICATION Spec
CONSTANTS
    CR = CR
    LF = LF
    x = x
    Bytes <- AllBytes
    Streams <- AllStreams
    Width = 2
    MaxSize = 6
INVARIANTS
    TypeOK
    FoundIsFirst
    WaitsOnlyWithoutHead
