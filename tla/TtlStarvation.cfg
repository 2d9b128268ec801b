SPECIFICATION Spec
CONSTANTS
    Keys = 2
    TTL = 1
    Interval = 1
    InCap = 1
    OutCap = 1
    MaxNow = 3
    MaxBacks = 0
PROPERTY
    EvictedEventually

