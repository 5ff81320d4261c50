SPECIFICATION StreamingSpec
CONSTANTS
    Buffers = {b1, b2}
    BufferSize = 2
    Align = 2
    FileLength = 5
    Starts = {1, 3}
    Stops = {1, 4, 9}
    MaxTime = 2
INVARIANT StreamingSound
PROPERTIES
    ToldOfEverything
    StreamingMoves
CHECK_DEADLOCK FALSE
