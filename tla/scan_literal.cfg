\* An IPv6 literal on the default port.
SPECIFICATION Spec
CONSTANTS
    n1 = n1
    n2 = n2
    v6 = v6
    root = root
    spaced = spaced
    NoHost = NoHost
    Nothing = Nothing
    Names <- TwoNames
    Literals6 <- OneV6
    PathNames <- TwoPaths
    SpecialPaths <- WithSpace
    AllowedPorts <- WebPorts
    Addrs <- AllAddrs
    PublicAddrs <- Accepted
    Unmapped <- AsIPv4
    InternalAddrs <- Refused
    LiteralAddr <- V6Address
    Answers <- DnsMaySay
    Inputs <- V6Inputs
    Locations <- FewLocations
    MaxRedirects = 1
INVARIANTS ValidatedTargetHasUrl
CHECK_DEADLOCK FALSE
