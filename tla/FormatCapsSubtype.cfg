SPECIFICATION Spec
CONSTANTS
    small = small
    large = large
    Sizes <- TwoSizes
    Frames <- TwoFrames
    Foreign <- SomeTypes
    MaxPuts = 1
PROPERTY StreamCapsConsistent
