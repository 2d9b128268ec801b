SPECIFICATION Spec
CONSTANTS
    Item = {a, b}
    None = None
    CAP = 4
    Laps = 2
INVARIANTS
    TypeOK
    ViewsOrdered
    NoRace
PROPERTY
    ImplementsFifo
