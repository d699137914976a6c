SPECIFICATION UseSpec
CONSTANTS
    Keys = {k1, k2, k3}
    Values = {v1, v2}
    None = None
    TTL = 2
    MaxEntries = 2
    MaxTime = 5
SYMMETRY Symmetry
INVARIANTS HitIsLastStored OrderIsRecency
PROPERTIES LosesOnlyLeastRecent
