SPECIFICATION MCSpec
CONSTANTS
    W = 2
    AlignDelay = 3
    MaxFaults = 1
    Readers = {guard, live}
    Replicas = {"a"}
    NsPerSec = 2
    MaxSec = 2
    MaxFalls = 1
    MaxWrites = 1
SYMMETRY Alike
INVARIANTS
    NothingInvented
    AnsweredInTime
    StampOfItsFrame
    PairIsOneMoment
    LossShows
