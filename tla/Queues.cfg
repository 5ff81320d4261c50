SPECIFICATION QueuesSpec
CONSTANTS
    MaxItems = 3
    MaxMultiple = 2
    MaxFlushes = 1
    Commands = {c1, c2}
    None = None
    LastTime = 2
    Offset = 1
INVARIANT QueuesSound
PROPERTIES
    InOrder
    QueuesMove
CHECK_DEADLOCK FALSE
