SPECIFICATION Spec
CONSTANTS
    Uid = {u1}
    N = 2
    Slots = 1
    Modes = {"always", "ring"}
    TTL = 1
    SnapInterval = 1
    Procs = {1}
    ClockBack = 0
    Torn = FALSE
    Lossy = TRUE
    MaxClock = 4
    MaxCmds = 3
INVARIANT
    SnapshotWhole
