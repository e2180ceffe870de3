\* Every kind of input and Location, DNS answering differently at every hop.
SPECIFICATION FairSpec
CONSTANTS
    n1 = n1
    n2 = n2
    v6 = v6
    root = root
    spaced = spaced
    NoHost = NoHost
    Nothing = Nothing
    Names <- TwoNames
    Literals6 <- OneV6
    PathNames <- TwoPaths
    SpecialPaths <- WithSpace
    AllowedPorts <- WebPorts
    Addrs <- AllAddrs
    PublicAddrs <- Accepted
    Unmapped <- AsIPv4
    InternalAddrs <- Refused
    LiteralAddr <- V6Address
    Answers <- DnsMaySay
    Inputs <- AllInputs
    Locations <- AllLocations
    MaxRedirects = 2
INVARIANTS TypeOK PinnedToOwnLookup RedirectBudget ReportMatchesConnections CeilingHolds
PROPERTIES AnswersAreJudged KeepsPromise KeepsFairPromise
CHECK_DEADLOCK FALSE
