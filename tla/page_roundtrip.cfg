SPECIFICATION Spec
CONSTANTS
    Short = 4
    DeltaBase = 3
    WordBase = 8
    U16 = 64
    U64 = 64
    PageWords = 22
    MaxPages = 2
    MaxEvents = 3
    Steps = {2, 3, 7}
    Tails = {0, 1}
INVARIANTS
    TypeOK
    InSync
    RoundTrip
CHECK_DEADLOCK FALSE
