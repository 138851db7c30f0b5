SPECIFICATION Spec
CONSTANTS
    start = start  good = good  again = again  bad = bad  wide = wide
    Uploads <- RaceUploads
    Original = start
    Bins <- MCBins
    Status <- MCStatus
    Rerun <- MCRerun
    Squashed = Squashed
    CountsBin = CountsBin
    Writers = {w1, w2}
    CallerIds = {0}
    MemberIndex = {0, 1, 2, 3}
    Policies = {"all", "pass_only"}
    KeepRecent = {0}
    MaxLog = 2
    Habits = {"auto_name", "replace", "touch_baseline"}
INVARIANTS ArchiveWhole NoDoubleCount BaselineAudited AuditCountsBaseline
SYMMETRY WriterSymmetry
