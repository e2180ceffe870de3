\* RATE_LIMIT_REQUESTS=0: Allow does not return.
SPECIFICATION Spec
CONSTANTS
    c1 = c1
    c2 = c2
    k1 = k1
    k2 = k2
    Callers <- TwoCallers
    Keys <- OneKey
    Limit = 0
    Window = 2
    TicksPerSecond = 2
    MaxLag = 1
    LastCall = 3
    MaxClock = 6
INVARIANTS AllowReturns
CHECK_DEADLOCK FALSE
