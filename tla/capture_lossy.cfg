SPECIFICATION Spec
CONSTANTS
    Cpus = {c1}
    BufCap = 1
    PageCap = 1
    MaxEvents = 2
    CountedAs = "dropped events"
    DrainCovers = TRUE
    Faults = {}
INVARIANT
    OkMeansNoLoss
