SPECIFICATION Spec
CONSTANTS
    Root = "r"
    NoPath = "none"
    Disks <- MCDisks
    Callers <- MCCallers
    Kinds = {"ncdb", "mem"}
    CoverGroups <- MCCoverGroups
    Runs <- MCRuns
    Added <- MCAdded
    MaxRuns = 2
    MaxAdded = 1
INVARIANTS
    ImportsResolved
    ClosureExact
    
    IndexServes
PROPERTY
    LoadEnds
CHECK_DEADLOCK FALSE
