\* Three requests of two clients, one slot, one grant per client and span.
SPECIFICATION Spec
CONSTANTS
    r1 = r1
    r2 = r2
    r3 = r3
    k1 = k1
    k2 = k2
    Requests <- ThreeRequests
    Keys <- TwoKeys
    Limit = 1
    Span = 4
    Slots = 1
    TotalTimeout = 2
    MaxClock = 7
SYMMETRY RequestSymmetry
INVARIANTS TypeOK ScansWithinSlots WaitersAreBlocked StartsPerSpan
CHECK_DEADLOCK FALSE
