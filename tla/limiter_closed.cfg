\* RATE_LIMIT_REQUESTS=0: every call panics, and leaves an empty slice behind.
SPECIFICATION FairSpec
CONSTANTS
    c1 = c1
    c2 = c2
    k1 = k1
    k2 = k2
    Callers <- TwoCallers
    Keys <- TwoKeys
    Limit = 0
    Window = 2
    TicksPerSecond = 2
    MaxLag = 1
    LastCall = 3
    MaxClock = 6
PROPERTIES IdleClientsForgotten
CHECK_DEADLOCK FALSE
