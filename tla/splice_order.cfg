SPECIFICATION Spec
CONSTANTS
    Inputs = 3
    NameRank <- Names
    RecordSets <- OneKindOfCapture
    MaxLen = 2
    IOFaults = TRUE
CHECK_DEADLOCK FALSE
INVARIANTS
    TypeOK
    Interleaves
    OkIsComplete
    TimestampOrder
    OneControllerSeqOrder
    WarnedExactly
PROPERTY
    ImplementsMerge
