SPECIFICATION Spec
CONSTANTS
    Cpus = {c1}
    BufCap = 1
    PageCap = 1
    MaxEvents = 2
    CountedAs = "overrun"
    DrainCovers = TRUE
    Faults = {}
INVARIANT
    ReadersReady
