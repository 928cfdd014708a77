CONSTANTS
    Routes <- Wired
    Capacity = 2
    MaxDeltas = 2
    MaxFaults = 0
SPECIFICATION FairSpec
CHECK_DEADLOCK FALSE
PROPERTY LeavingFreesAll
