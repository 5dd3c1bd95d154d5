SPECIFICATION Spec
CONSTANTS
    Readers = {r1, r2}
    Pieces = 2
    MaxClock = 4
INVARIANTS
    TypeOK
    CleanUnlessOvertaken
    NoneStale
    ActiveIsWhole
