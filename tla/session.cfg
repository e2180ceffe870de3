\* Two URLs, three scans in all, one outage, hiding at will.
SPECIFICATION Spec
CONSTANTS
    A = A
    B = B
    Null = Null
    Undefined = Undefined
    Seconds = Seconds
    Urls <- TwoUrls
    Texts <- SomeTexts
    Examples <- OneExample
    ApiCodes = {}
    MaxScans = 3
    MaxOutages = 1
INVARIANTS TypeOK ShownIsOfTarget FormSpeaksOfItsText RequestBudget
PROPERTIES FreshReportIsFree KeepsScreen BusyEnds
CHECK_DEADLOCK FALSE
