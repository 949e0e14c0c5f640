\* Two renames of a library within one second.
CONSTANTS
    p1 = p1  p2 = p2  f = f  g = g  v0 = v0  v1 = v1  v2 = v2
    n1 = n1  n2 = n2  u1 = u1
    None = None
    Procs = {p1, p2}
    InitTree <- OneFile
    InitName = n1
    LastSuffix = 1
    Users = {u1}
    Names = {f}
    FileIds = {v0}
    RepoNames = {n1, n2}
    Kinds = {"edit"}
    SameSecond = TRUE
    MaxRetry = 3
    MaxOps = 3
    MaxTime = 2
    MaxFaults = 0
SPECIFICATION Spec
CHECK_DEADLOCK FALSE
INVARIANTS RenameApplied
