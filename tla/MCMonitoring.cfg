SPECIFICATION Spec
CONSTANTS
    c1 = c1
    c2 = c2
    Clients <- MCClients
INVARIANTS
    ServerInvariant
    AtMostOneLateCommand
    AtMostOneLeftOpen
PROPERTIES
    ListStableWhileWalked
    GoneClientsLeave
    ServerStops
