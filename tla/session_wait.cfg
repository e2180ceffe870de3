\* One scan that the API refuses or that fails.
SPECIFICATION Spec
CONSTANTS
    A = A
    B = B
    Null = Null
    Undefined = Undefined
    Seconds = Seconds
    Urls <- TwoUrls
    Texts <- SomeTexts
    Examples <- OneExample
    ApiCodes = {"timeout", "rate_limited"}
    MaxScans = 1
    MaxOutages = 1
INVARIANTS AnnouncedWaitIsANumber
CHECK_DEADLOCK FALSE
