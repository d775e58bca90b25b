SPECIFICATION Spec
CONSTANTS
    Depth = 2
    DataBits = 2
    Full = 5
    SamplesPerCell = 8
    MaxEvents = 3
    MaxFlips = 1
    Words <- MCWords
INVARIANT FramedInOrder
PROPERTIES
    PacketsAreSent
    CleanFramesArrive
    EventuallyMirrored
