\* Three sites, every pair of edits: by hand, by fix, by moving to https.
SPECIFICATION Spec
CONSTANTS
    Null = Null
    Sources <- AllSources
    Names <- HeaderNames
    ValuesOf <- AllValues
    Starts <- ThreeStarts
    MaxEdits = 2
INVARIANTS TypeOK PassMeansProtected FailMeansExposed LostPointsAreExplained ScoreIsExplained CardShowsWhatItRead QuotesStayQuoted
PROPERTIES FixEarnsItsCard ShippingAFixNeverCosts
CHECK_DEADLOCK FALSE
