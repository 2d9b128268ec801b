SPECIFICATION Spec
CONSTANTS
    Uid = {u1, u2, u3}
    Rec = {a, b}
    Ts = {1, 2}
    Slots = 2
    N = 3
SYMMETRY Symmetric
INVARIANTS
    TypeOK
    NoAliasing
    FreeListIntact
    PanicOnlyIfFull
PROPERTY
    ImplementsLog
