SPECIFICATION Spec
CONSTANTS
    Prices <- MCPrices
    MaxQty = 2
    MaxLevels = 1
    MaxChanges = 2
    MaxUpdates = 3
INVARIANTS
    FreshAfterReconnect
