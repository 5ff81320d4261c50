SPECIFICATION MCSpec
CONSTANTS
    Apps = {a1, a2}
    Streamers = {s1, s2}
    None = None
    Length = 2
    Rates = {1, 2}
INVARIANT GraphSound
PROPERTY GraphCallsReturn
CHECK_DEADLOCK FALSE
