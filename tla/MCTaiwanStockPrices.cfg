\* Three months of which a call may ask for two, a new year that begins, one
\* entry in the cache that expires after a tick.
SPECIFICATION PricesSpec
CONSTANTS
    None = None
    LastDay = 4
    FirstToday = 3
    NotTraded = {1}
    MonthOf <- MCMonthOf
    Keys <- MCKeys
    Values <- MCValues
    Windows <- MCWindows
    MaxMonths = 2
    Latency = 1
    TTL = 1
    MaxEntries = 1
    MaxTime = 2
INVARIANTS PricesTypeOK PricesAreComplete FallbackServes
PROPERTIES RefusalsAreForgotten FetchEnds
