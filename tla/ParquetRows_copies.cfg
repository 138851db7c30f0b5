SPECIFICATION Spec
CONSTANTS
    Payload = 4
    WordBytes = 2
    DefaultToggle = "default"
    NoFile = "none"
    NoList = NoList
    Starts <- MCStarts
    Note = "note"
    Rollup = 9
    MaxChanges = 2
    MaxUploads = 2
    MaxLoads = 2
    MaxLoadChanges = 0
    MaxRollups = 2
    MaxFaults = 1
INVARIANTS
    ViewTellsSame
    HitsOnBins
    RunsMerge
    CopyTells
    LakeNeverLess
    LakeExact
CHECK_DEADLOCK FALSE
