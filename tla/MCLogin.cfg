SPECIFICATION CredSpec
CONSTANTS
    Calls = {c1, c2}
    MaxCommands = 2
    MaxSeconds = 3
    StoreWired = FALSE
INVARIANT
    CommandsReachTheFile
CHECK_DEADLOCK FALSE
