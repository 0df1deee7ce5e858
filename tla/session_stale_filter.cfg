SPECIFICATION Spec
CONSTANTS
    Ctrls = {n0, n1}
    All = All
    MaxSessions = 2
CHECK_DEADLOCK FALSE
INVARIANT
    SeesAllControllers
