SPECIFICATION Spec
CONSTANTS
    InitialDelay = 1
    MaxDelay = 1
    Multiplier = 1
    MaxFailures = 1
    QueueBound = 1
    NumConditions = 1
    MaxRecent = 1
    MaxMessages = 2
INVARIANTS
    NothingLeftBehind
