SPECIFICATION Spec
CONSTANTS
    Requests = {r1, r2}
    Clients = {c1}
    Jtis = {1, 2}
    Assertions <- MCAssertions
    Leeway = 1
    MaxLifetime = 2
    MaxEntries = 1
    MaxTime = 4
    MaxAccepted = 3
    MaxRestarts = 1
SYMMETRY Symmetry
INVARIANTS TypeOK AcceptedOnce ReplayableIsRemembered CacheDrains
