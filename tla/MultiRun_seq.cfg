SPECIFICATION Spec
CONSTANTS
    start = start  good = good  again = again  bad = bad  wide = wide
    Uploads <- MCUploads
    Original = start
    Bins <- MCBins
    Status <- MCStatus
    Rerun <- MCRerun
    Squashed = Squashed
    CountsBin = CountsBin
    Writers = {w1}
    CallerIds = {0, 5}
    MemberIndex = {0, 1, 2, 3}
    Policies = {"all", "pass_only", "strict"}
    KeepRecent = {0, 1}
    MaxLog = 3
    Habits = {"auto_name", "replace"}
INVARIANTS TypeOK ReadIsLedger
PROPERTY ImplementsLedger
