SPECIFICATION Spec
CONSTANTS
    a = a
    b = b
    x = x
    index = index
    dots = dots
    public = public
    dist = dist
    n7 = n7
    n007 = n007
    Empty = Empty
    IntOf <- Numbers
    Apps <- SomeApps
    Requests <- SomeRequests
    MaxSegments = 2
    MaxCalls = 2
    Dotted = {dots}
    Outside = {}
    Disks <- SomeDisks
    Sizes = {1, 2}
    Times = {2, 4, 5, 7}
    Second = 2
    MaxEdits = 2
INVARIANT
    RouteLayersAlive
