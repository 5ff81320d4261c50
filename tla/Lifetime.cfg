CONSTANTS
    Threads = {t1, t2}
    Factories = {c1}
    Filters = {f1}
    Enums = {e1, e2}
    Clocks = {k1}
    NoObject = none
    Lockers = {t1}
    MaxHeld = 1
SPECIFICATION Spec
CHECK_DEADLOCK FALSE
INVARIANT ReferencesSound
PROPERTIES UnloadedWhenUnused NoLeak
