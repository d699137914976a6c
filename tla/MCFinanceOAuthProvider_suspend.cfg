\* The caller of the provider may suspend between a load_* and its use, as
\* tests/test_oauth_cimd.py drives it.
SPECIFICATION Spec
CONSTANTS
    Nobody = Nobody
    Handlers = {h1, h2}
    Clients = {c1}
    States = {s1}
    Resources = {own}
    ResourceUrl = own
    StateTTL = 1
    CodeTTL = 1
    AccessTTL = 1
    RefreshTTL = 2
    CallerSuspends = TRUE
    MaxTime = 2
    MaxCodes = 2
    MaxPairs = 3
SYMMETRY Symmetry
INVARIANTS TypeOK PairIntegrity OneHolder SpentOnce
PROPERTIES EndedStaysEnded ImplementsGrantLifecycle
