SPECIFICATION Spec
CONSTANTS
    Server = {s1, s2}
    COMPILED_N = 2
    MAX_RECORDS_PROTOCOL_LIMIT = 3
    MEMORY_POOL_SLOTS_DEFAULT = 2
    MaxFaults = 4
INVARIANTS
    TypeOK
    SingleWriter
    OneDumperHoldsPort
PROPERTIES
    ServesAgain
    SignalStops
