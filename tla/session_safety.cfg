SPECIFICATION Spec
CONSTANTS
    Ctrls = {n0, n1}
    All = All
    MaxSessions = 3
SYMMETRY Symmetry
CHECK_DEADLOCK FALSE
INVARIANTS
    TypeOK
    OwnOutput
    Isolation
    CleanAfterOk
    SeesAllAfterOk
