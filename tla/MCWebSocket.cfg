SPECIFICATION FairSpec
CONSTANTS
    Scripts <- AllScripts
    MaxMessage = 65536
    MaxSends = 1
INVARIANTS
    TypeOK
    DeliveredInOrder
    PongsInOrder
    CloseSaysWhy
    PeerDecodes
PROPERTY
    ResetEnds
