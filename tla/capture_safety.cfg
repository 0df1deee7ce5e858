SPECIFICATION Spec
CONSTANTS
    Cpus = {c1, c2}
    BufCap = 3
    PageCap = 2
    MaxEvents = 5
    CountedAs = "overrun"
    DrainCovers = TRUE
    Faults = {"start", "stop", "open", "poll", "read", "write", "stats"}
SYMMETRY Symmetry
INVARIANTS
    TypeOK
    Conservation
    DrainedStaysDrained
    SuccessIsComplete
    StopProtocol
PROPERTY
    ImplementsChannel
    CheckIsFinal
    DrainEnds
