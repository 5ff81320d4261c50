\* Two sizes and two frame lengths; nine types proposed by others.
SPECIFICATION Spec
CONSTANTS
    small = small
    large = large
    Sizes <- TwoSizes
    Frames <- TwoFrames
    Foreign <- SomeTypes
    MaxPuts = 1
INVARIANTS
    OfferedIsAccepted
    AgreedInForce
    RectNotEmpty
PROPERTY FormatHonoured
