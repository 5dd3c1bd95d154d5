SPECIFICATION TimerSpec
CONSTANTS
    Readers = {}
    Pieces = 2
    MaxClock = 3
PROPERTY
    DateFollowsClock
\* The clock stops at its bound.
CHECK_DEADLOCK FALSE
