\* The origin changes while a task merges.
CONSTANTS
    d1 = d1  d2 = d2  d3 = d3  f = f  v0 = v0  v1 = v1  v2 = v2  r1 = r1  r2 = r2
    Absent = Absent  Origin = Origin
    Names = {f}
    LastSuffix = 0
    MaxRunning = 2
    FileIds = {v0, v1, v2}
    Dirs = {d1}
    VRepos = {r1}
    InitTree <- OneDir
    InitPath <- OneRepo
    Kinds = {"origin", "virtual"}
    OriginWaits = "never"
    MaxOps = 3
    MaxFaults = 0
SPECIFICATION Spec
CHECK_DEADLOCK FALSE
PROPERTIES NoChangeLost
