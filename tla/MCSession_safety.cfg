CONSTANTS
    c1 = c1
    c2 = c2
    c3 = c3
    m1 = m1
    m2 = m2
    Clients = {c1, c2, c3}
    Nobody = Nobody
    Models = {m1, m2}
    NoModel = NoModel
    Serves <- Honest
    MaxPolls = 1
    MaxCalls = 1
    MaxFaults = 2
SPECIFICATION Spec
INVARIANTS
    TypeOK
    BootstrapHasItsLeader
    NoOrphanedWaiter
    StartsOnlyWhenGone
    ReturnsTheModelAsked
    OneModelNeverFails
PROPERTY IsSingleFlight
SYMMETRY Symmetric
CHECK_DEADLOCK FALSE
