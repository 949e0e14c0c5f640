\* Each request takes effect atomically and is answered, also within one second and when the answer of the database is lost.
CONSTANTS
    p1 = p1  p2 = p2  f = f  g = g  v0 = v0  v1 = v1  v2 = v2
    n1 = n1  n2 = n2  u1 = u1
    None = None
    Procs = {p1, p2}
    InitTree <- OneFile
    InitName = n1
    LastSuffix = 0
    Users = {u1}
    Names = {f, g}
    FileIds = {v0, v1}
    RepoNames = {n1}
    Kinds = {"post", "put", "del", "rename", "sync", "describe", "revert", "delete"}
    SameSecond = TRUE
    MaxRetry = 1
    MaxOps = 2
    MaxTime = 1
    MaxFaults = 1
SPECIFICATION FairSpec
CHECK_DEADLOCK FALSE
INVARIANTS HistoryClosed
PROPERTIES AtomicSpec Answered
