CONSTANTS
    small = small
    large = large
    Requests = {r1, r2}
    Keys = {small, large}
    Size <- MCSize
    Earlier <- MCEarlier
    Budget = 2
    MaxCrashes = 2
SPECIFICATION FairSpec
CHECK_DEADLOCK FALSE
INVARIANTS
    SingleFlight
    MediaInv
PROPERTIES
    ImplementsFileCache
    OnlyCrashesTear
    SweepReachesTarget
    RequestsEnd
