\* Requests race for the head of a library, the second time with faults.
CONSTANTS
    p1 = p1  p2 = p2  f = f  v0 = v0  v1 = v1  v2 = v2
    n1 = n1  n2 = n2  u1 = u1
    None = None
    Procs = {p1, p2}
    Users = {u1}
    Names = {f}
    InitTree <- OneFile
    InitName = n1
    LastSuffix = 1
    FileIds = {v0, v1, v2}
    RepoNames = {n1}
    Kinds = {"post", "put", "del", "sync"}
    SameSecond = FALSE
    MaxRetry = 1
    MaxOps = 3
    MaxTime = 6
    MaxFaults = 0
SPECIFICATION CommitsSpec
SYMMETRY Symmetry
CHECK_DEADLOCK FALSE
INVARIANTS NoLostUpdate RetryMeansProgress RenameApplied
PROPERTIES NoFileLost NameKept
