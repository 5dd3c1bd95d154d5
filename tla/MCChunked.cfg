SPECIFICATION Spec
CONSTANTS
    MaxWrites = 2
INVARIANT
    StreamTerminated
