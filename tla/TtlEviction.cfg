SPECIFICATION Spec
CONSTANTS
    Keys = 2
    TTL = 1
    Interval = 1
    InCap = 2
    OutCap = 1
    MaxNow = 2
    MaxBacks = 1
INVARIANTS
    TypeOK
    ForwardedExpired
PROPERTIES
    NoFalseEviction
    EvictedEventually
    StopEnds
