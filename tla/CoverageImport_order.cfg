SPECIFICATION Spec
CONSTANTS
    Modules <- MCModules
    Points <- MCPoints
    Nodes <- MCNodes
    Elements <- MCElements
    FileIds = {1, 2}
    NoDb = NoDb
    DefaultToggle = DefaultToggle
    NoFile = NoFile
    NoList = NoList
    Payload = 4
    WordBytes = 1
    MaxLines = 4
    MaxErrors = 1
    MaxNodes = 2
    MaxElements = 4
CHECK_DEADLOCK FALSE
INVARIANTS
    PointsPlaced
    TypeTotals
    TreeRebuilt
