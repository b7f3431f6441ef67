SPECIFICATION FairSpec
CONSTANTS
    SymbolMaxLen = 2
    Lengths <- MCLengths
    QueueBound = 1
    MaxUpdates = 3
INVARIANTS
    ReplayInvariant
    ReplayFollowsRecording
    CompleteReplayDeliversAll
PROPERTIES
    StopEndsReplay
    PlaybackEnds
