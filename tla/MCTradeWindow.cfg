SPECIFICATION Spec
CONSTANTS
    Window = 2
    SmaWindows = 2
    Quantities <- MCQuantities
    StartTimes <- MCStartTimes
    MaxStep = 3
    MaxTrades = 5
INVARIANTS
    TradeInvariant
    SlidingWindowExact
    VolumeSmaExact
CHECK_DEADLOCK FALSE
