SPECIFICATION Spec
CONSTANTS
    Size = 5
    EntryLens = {2, 3}
    Modes = {"always", "everysec", "no"}
    MaxEntries = 2
    Faulty = TRUE
INVARIANT
    AckedDurable
