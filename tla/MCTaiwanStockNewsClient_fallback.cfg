\* The feeds of the first instance, for the promise of a fallback.
SPECIFICATION Spec
CONSTANTS
    Callers = {t1, t2}
    rise = rise
    fall = fall
    split = split
    Stories <- MCStories
    Similar <- MCSimilar
    GoogleTexts <- MCGoogleTexts
    YahooTexts <- MCYahooTexts
    Keys <- MCKeys
    Values <- MCValues
    None = None
    TTL = 1
    MaxEntries = 2
    MaxTime = 1
    MaxLimit = 3
SYMMETRY Symmetry
INVARIANT FallbackServes
