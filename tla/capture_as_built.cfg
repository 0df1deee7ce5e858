SPECIFICATION FairSpec
CONSTANTS
    Cpus = {c1, c2}
    BufCap = 1
    PageCap = 1
    MaxEvents = 3
    CountedAs = "dropped events"
    DrainCovers = TRUE
    Faults = {"start", "open", "poll", "read", "write", "stats", "stats_file"}
PROPERTIES
    SigintReturns
    ImplementsChannel
