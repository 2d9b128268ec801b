SPECIFICATION Spec
CONSTANTS
    Fd = {1, 2}
    Programs <- MCPrograms
    HdrLen = 2
    RepLen = 2
    MaxConnects = 3
INVARIANTS
    TypeOK
    StreamIntact
    RepliesInOrder
    ArmedCorrectly
PROPERTY
    AnsweredEventually
