SPECIFICATION Spec
CONSTANTS
    Size = 5
    EntryLens = {2, 3}
    Modes = {"always", "everysec", "no"}
    MaxEntries = 8
    Faulty = FALSE
INVARIANTS
    TypeOK
    DisjointAccess
    PendingIntact
    FileIsStreamPrefix
    AckedDurable
    CleanShutdown
PROPERTIES
    SpinEnds
    ShutdownEnds
