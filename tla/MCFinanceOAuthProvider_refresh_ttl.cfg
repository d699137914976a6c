\* An expired access token takes its unexpired refresh token with it.
SPECIFICATION Spec
CONSTANTS
    Nobody = Nobody
    Handlers = {h1}
    Clients = {c1}
    States = {s1}
    Resources = {own}
    ResourceUrl = own
    StateTTL = 1
    CodeTTL = 1
    AccessTTL = 1
    RefreshTTL = 2
    CallerSuspends = FALSE
    MaxTime = 2
    MaxCodes = 2
    MaxPairs = 3
SYMMETRY Symmetry
PROPERTIES UnexpiredRefreshSurvives
