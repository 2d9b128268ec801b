SPECIFICATION Spec
CONSTANTS
    Uid = {u1, u2, u3}
    N = 2
    Slots = 2
    Modes = {"always", "ring"}
    TTL = 1
    SnapInterval = 1
    Procs = {1, 2}
    ClockBack = 0
    Torn = FALSE
    Lossy = FALSE
    MaxClock = 6
    MaxCmds = 4
SYMMETRY Symmetric
INVARIANTS
    TypeOK
    StoreIsHistory
    SurvivorsArePrefix
    AlwaysLosesNothing
    SnapshotFromOneChild
    SnapshotCutExact
    RecoveryFits
PROPERTY
    ShutdownLosesNothing
