CONSTANTS
    Threads = {t1}
    Factories = {c1}
    Filters = {f1}
    Enums = {e1, e2}
    Clocks = {k1}
    NoObject = none
    Lockers = {}
    MaxHeld = 1
SPECIFICATION ConfigureSpec
CHECK_DEADLOCK FALSE
INVARIANT DestroyedOnce
