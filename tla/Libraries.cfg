\* One library, new or with a shared directory, and two threads; operations on the files of
\* two libraries; merges of small trees.
CONSTANTS
    Opened = {A, B}  FileNames = {f}  DirNames = {d}  FileIds = {v1, v2, v3}
    InitTrees <- TwoTrees  LastSuffix = 2  TaskLibs <- FromTo  TaskKinds = {"background", "related"}
    MaxFiles = 2  MaxDepth = 3  MaxItems = 2  MaxOps = 3
    a = a  A = A  B = B  d = d  f = f  g = g  v0 = v0  v1 = v1  v2 = v2  v3 = v3
    DirId = DirId  Theirs = Theirs
    Libs = {a}
    VRepos = {v}
    OriginOf <- OneOrigin
    Workers = {w1, w2}
    Overlaps = FALSE
    MaxHead = 3
    MaxFaults = 2
    MaxCrashes = 1
SYMMETRY Symmetry
SPECIFICATION LibrariesSpec
INVARIANTS Recorded LiveIsComplete SharesFollow RestoresWhatWasDeleted NothingLost TaskTruth RevertRestores AgreesWithFlatMerge NoVersionLost
CHECK_DEADLOCK FALSE
