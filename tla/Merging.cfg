\* Merges of shared directories, and their scheduler with a pool of two threads.
CONSTANTS
    r1 = r1  r2 = r2  d1 = d1  d2 = d2  d3 = d3  f = f  v0 = v0  v1 = v1  v2 = v2
    Absent = Absent  Origin = Origin
    VRepos = {p, q, r}
    MaxRunning = 2
    PoolFails = TRUE
SPECIFICATION MergingSpec
CHECK_DEADLOCK FALSE
INVARIANTS OneTaskPerRepo
PROPERTIES NoChangeLost Converges KeptWhenRenamed SchedulerSpec NoTaskDropped Served
