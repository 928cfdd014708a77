CONSTANTS
    c1 = c1
    c2 = c2
    
    m1 = m1
    m2 = m2
    Clients = {c1, c2}
    Nobody = Nobody
    Models = {m1, m2}
    NoModel = NoModel
    Serves <- Honest
    MaxPolls = 0
    MaxCalls = 2
    MaxFaults = 1
SPECIFICATION FairSpec
CHECK_DEADLOCK FALSE
PROPERTIES
    EveryCallReturns
    FlightsLand
