\* Times applied in the order they were read; two clients.
SPECIFICATION Spec
CONSTANTS
    c1 = c1
    c2 = c2
    k1 = k1
    k2 = k2
    Callers <- TwoCallers
    Keys <- TwoKeys
    Limit = 2
    Window = 3
    TicksPerSecond = 2
    MaxLag = 0
    LastCall = 4
    MaxClock = 6
SYMMETRY CallerSymmetry
INVARIANTS RetryAfterInWindowPlusOne
PROPERTIES PruneOnlyExpired
CHECK_DEADLOCK FALSE
