SPECIFICATION LinkSpec
CONSTANTS
    LastCode = 1
    LossWindow = 2
    RecoverLen = 2
    MinGap = 6
    MaxStrobes = 2
    MaxFaults = 1
INVARIANTS
    SentAsCounted
    DeliveredAsSent
    SentAndDeliveredInTime
    RelocksInTime
