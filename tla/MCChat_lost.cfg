CONSTANTS
    Routes <- Responses
    Capacity = 2
    MaxDeltas = 1
    MaxFaults = 1
SPECIFICATION Spec
CHECK_DEADLOCK FALSE
INVARIANT ErrorsAreTold
