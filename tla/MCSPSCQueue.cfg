SPECIFICATION FairSpec
CONSTANTS
    i1 = i1
    i2 = i2
    NoItem = NoItem
    Items <- MCItems
    Capacity = 4
    MaxPushes = 9
INVARIANTS
    NoDataRace
    RingInvariant
    FullTestExact
    EmptyTestExact
PROPERTIES
    ImplementsFIFO
    EveryPushIsPopped
