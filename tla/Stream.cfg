\* Two application threads, the one buffer DecideBufferSize asks for.
SPECIFICATION FairSpec
CONSTANTS
    MaxCount = 1
    Clients = {c1, c2}
    Nobody = Nobody
INVARIANTS
    TypeOK
    AnswersMatch
    StoppedIsQuiet
    ConnectionOutlivesStream
    StreamInOrder
PROPERTIES
    ImplementsFrameSource
    CallsReturn
    FramesFlow
