SPECIFICATION Spec
CONSTANTS
    Payload = 4
    WordBytes = 2
    DefaultToggle = "default"
    NoFile = "none"
    NoList = NoList
    Bases <- MCBases
    NewScopes <- MCNewScopes
    NewItems <- MCNewItems
    Note = "note"
    MaxEdits = 2
    MaxTrips = 2
INVARIANTS
    BinsKept
    NotesKept
    Settled
