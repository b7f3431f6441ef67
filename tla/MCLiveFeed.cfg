SPECIFICATION FeedSpec
CONSTANTS
    InitialDelay = 1
    MaxDelay = 3
    Multiplier = 2
    MaxFailures = 2
    QueueBound = 1
    NumConditions = 0
    MaxRecent = 1
    MaxMessages = 2
    MaxLevels = 2
    Frames <- MCFrames
INVARIANTS
    FramesTakenForWhatTheyAre
    LevelsAreThePrefix
    BackoffIsExponential
PROPERTIES
    ShutdownCompletes
