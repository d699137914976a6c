\* Three tasks and one permit, a cache of two; two actions of the direct backend,
\* one of the connector, and an unknown one.
SPECIFICATION Spec
CONSTANTS
    Tasks = {t1, t2, t3}
    prices = prices
    quote = quote
    unknown = unknown
    plain = plain
    padded = padded
    other = other
    FinmindActions = {prices}
    FinnhubActions = {quote}
    ConnectorActions = {prices}
    Actions = {prices, quote, unknown}
    Inputs = {plain, padded, other}
    Normal <- MCNormal
    Params <- MCParams
    Queries <- MCQueries
    FinnhubKey = TRUE
    Keys <- MCKeys
    Values <- MCValues
    None = None
    TTL = 1
    MaxEntries = 2
    MaxTime = 1
    MaxConcurrency = 1
    MaxAttempts = 2
SYMMETRY Symmetry
INVARIANTS TypeOK HitsAnswerTheirCall
