SPECIFICATION SilentExchangeSpec
CONSTANTS
    InitialDelay = 3
    MaxDelay = 20
    Multiplier = 2
    MaxFailures = 5
PROPERTIES
    StopEndsReadLoop
