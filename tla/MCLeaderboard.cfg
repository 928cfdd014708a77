CONSTANTS
    c1 = c1
    c2 = c2
    c3 = c3
    k1 = k1
    k2 = k2
    Clients = {c1, c2, c3}
    Nobody = Nobody
    Categories = {k1, k2}
    Refreshing = TRUE
    MaxCalls = 2
    MaxFaults = 1
SPECIFICATION FairSpec
CHECK_DEADLOCK FALSE
INVARIANTS
    TypeOK
    CachedNeverFails
    NoFreshRefetch
PROPERTIES
    EveryGetReturns
    IsSingleFlight
