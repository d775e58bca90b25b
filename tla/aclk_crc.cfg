SPECIFICATION LinkSpec
CONSTANTS
    LastCode = 1
    LossWindow = 2
    RecoverLen = 2
    MinGap = 12
    MaxStrobes = 2
    MaxFaults = 1
INVARIANT OnlyGoodFramesDelivered
