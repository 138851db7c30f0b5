SPECIFICATION Spec
CONSTANTS
    cg0 = cg0  cg1 = cg1
    Sessions = {a, b}
    Values = {new}
    None = None
    Old = Old
    Stored <- MCStored
    Tree <- MCTree
    NewScopes = {cg2}
    Hits = {base}
    Appended = {nightly}
    MaxCalls = 2
    MaxSaves = 2
    Habits = {"lazy", "eager", "append_run", "create_scope", "bad_member"}
INVARIANTS SnapshotRead BaselineKept
PROPERTY SaveKeepsSession
SYMMETRY SessionSymmetry
