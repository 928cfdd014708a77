CONSTANTS
    Routes <- Wired
    Capacity = 2
    MaxDeltas = 4
    MaxFaults = 1
SPECIFICATION FairSpec
CHECK_DEADLOCK FALSE
INVARIANTS
    TypeOK
    InOrder
    EndsComplete
    ChatErrorsAreTold
PROPERTIES
    EndsWithUpstream
    LeavingFreesGateway
