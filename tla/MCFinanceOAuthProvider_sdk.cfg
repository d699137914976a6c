\* The handlers of the SDK as they are: no suspension inside a request.
SPECIFICATION Spec
CONSTANTS
    Nobody = Nobody
    Handlers = {h1}
    Clients = {c1, c2}
    States = {s1}
    Resources = {own, other}
    ResourceUrl = own
    StateTTL = 1
    CodeTTL = 1
    AccessTTL = 1
    RefreshTTL = 2
    CallerSuspends = FALSE
    MaxTime = 2
    MaxCodes = 2
    MaxPairs = 3
SYMMETRY Symmetry
INVARIANTS TokenBinding
PROPERTIES RevocationIsFinal
