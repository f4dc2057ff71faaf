CONSTANTS
    Pdps = {p1}
    Cids = {k1, k2}
    Sweep = 2
    Latency = 1
    MaxEdition = 3
    MaxFetches = 2
    Debounce = 1
    RefreshEvery = 2
    FetchTime = 1
    Off = Off
SPECIFICATION CachesSpec
INVARIANTS
    EnforcedInTime
    FreshInTime
PROPERTIES
    NeverUnrevoked
    ImplementsView
    EventuallyEnforced
    EventuallyFresh
