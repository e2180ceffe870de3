\* One client, two goroutines, times applied up to a tick out of order.
SPECIFICATION FairSpec
CONSTANTS
    c1 = c1
    c2 = c2
    k1 = k1
    k2 = k2
    Callers <- TwoCallers
    Keys <- OneKey
    Limit = 2
    Window = 4
    TicksPerSecond = 2
    MaxLag = 1
    LastCall = 5
    MaxClock = 10
INVARIANTS TypeOK SliceWithinLimit WindowLimit RetryAfterSuffices
CHECK_DEADLOCK FALSE
PROPERTIES KeepsQuota IdleClientsForgotten
