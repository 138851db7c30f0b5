SPECIFICATION Spec
CONSTANTS
    i1 = i1
    i2 = i2
    ref = ref
    w = w
    title = title
    note = note
    NoComment = NoComment
    Transitions <- MCTransitions
    MaxTransitions = 3
    NoCache = NoCache
    NoTitle = NoTitle
    BadTime = BadTime
    Specs <- MCSpecs
    Names <- MCNames
    Titles <- MCTitles
    MaxString = 4
    MaxOps = 6
INVARIANTS
    RecordsKept
    IndexesFresh
    HistoryExact
CHECK_DEADLOCK FALSE
