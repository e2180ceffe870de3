\* Every admitted request is answered and every slot comes back.
SPECIFICATION FairSpec
CONSTANTS
    r1 = r1
    r2 = r2
    r3 = r3
    k1 = k1
    k2 = k2
    Requests <- ThreeRequests
    Keys <- OneKey
    Limit = 3
    Span = 3
    Slots = 1
    TotalTimeout = 1
    MaxClock = 2
PROPERTIES AdmittedIsAnswered SlotsComeBack
CHECK_DEADLOCK FALSE
