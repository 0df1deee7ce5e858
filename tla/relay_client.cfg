SPECIFICATION Spec
CONSTANTS
    SubbufSize = 2
    NSubbufs = 2
    Period = 6
    ReadCap = 2
    LogCap = 1
    MaxRecords = 8
    MaxRaces = 2
CHECK_DEADLOCK FALSE
INVARIANTS
    TypeOK
    OneAlarmPerRace
    RepetitionsReported
    NothingOverwritten
    LogKeepsAccepted
PROPERTY
    StopReturns
    StopSettles
