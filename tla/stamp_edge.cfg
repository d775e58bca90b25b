SPECIFICATION Spec
CONSTANTS
    W = 2
    AlignDelay = 3
    MaxFaults = 0
INVARIANT StampOfOneEdge
