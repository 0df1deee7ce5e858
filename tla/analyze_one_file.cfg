SPECIFICATION Spec
CONSTANTS
    Keys <- Commands
    Queues = {1, 2}
    QueueOf <- CommandQueue
    Opcodes <- CommandOpcodes
    Files = 1
    Scale = 2
    MaxU64 = 5
    MaxTs = 3
    MaxRecords = 4
INVARIANTS
    TypeOK
    DepthsCount
    SamplesRight
    ThroughputRight
    PercentRight
    WarningsTrue
CHECK_DEADLOCK FALSE
