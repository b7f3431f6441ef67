SPECIFICATION Spec
CONSTANTS
    InitialDelay = 1
    MaxDelay = 1
    Multiplier = 1
    MaxFailures = 1
    QueueBound = 2
    NumConditions = 2
    MaxRecent = 2
    MaxMessages = 3
INVARIANTS
    MessagesAccounted
    PipelineInvariant
    AcceptedBeforeStopAreProcessed
    AtMostOneLeftBehind
    SnapshotConsistent
    StatsNeverAhead
    RecordingComplete
