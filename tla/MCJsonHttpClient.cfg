\* Three tasks that compete for one permit.
SPECIFICATION Spec
CONSTANTS
    Tasks = {t1, t2, t3}
    Keys = {k1}
    Values = {good, bad}
    Cacheable = {good}
    None = None
    TTL = 1
    MaxEntries = 1
    MaxTime = 1
    MaxConcurrency = 1
    MaxAttempts = 2
INVARIANTS TypeOK PermitsConserved NoForgottenWaiter RetryLoopNeverFallsThrough
PROPERTIES CallsEnd
