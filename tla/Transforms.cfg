SPECIFICATION TransformsSpec
CONSTANTS
    MaxGap = 2
    GiveUpAfter = 3
    LateCap = 3
    Lateness = {0, 2, 4}
    N = 2
    Types = {"t1", "t2"}
    MaxConnects = 4
    NoSender = none
    MaxCalls = 2
    MaxEvents = 2
INVARIANT TransformsSound
PROPERTY TransformsSettle
CHECK_DEADLOCK FALSE
