SPECIFICATION Spec
CONSTANTS
    s1 = s1
    s2 = s2
    Symbols <- MCSymbols
    Conditions <- MCConditions
    Depths <- MCDepths
    Trades <- MCTrades
    VwapLevels = 1
    SmaWindow = 2
    Window = 1
    VolumeWindows = 1
    Word = 64
    MaxGap = 1
    MaxClockSteps = 1
    MaxMessages = 4
SYMMETRY MCSymmetry
INVARIANTS
    EngineInvariant
    StatisticsFollowHistory
    CooldownHonoured
    SilencedOnlyByCooldown
PROPERTIES
    TradesImplementWindow
CHECK_DEADLOCK FALSE
