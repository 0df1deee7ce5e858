SPECIFICATION Spec
CONSTANTS
    Inputs = 2
    NameRank <- TwoNames
    RecordSets <- TwoControllers
    MaxLen = 2
    IOFaults = FALSE
CHECK_DEADLOCK FALSE
INVARIANT
    SeqOrder
