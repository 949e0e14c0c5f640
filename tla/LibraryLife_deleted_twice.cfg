\* One library and one thread: a deletion asked for twice, then the collector.
CONSTANTS
    a = a
    Libs = {a}
    VRepos = {}
    OriginOf <- OneOrigin
    Workers = {w1}
    Overlaps = TRUE
    MaxHead = 2
    MaxFaults = 0
    MaxCrashes = 0
SPECIFICATION Spec
INVARIANT TrashKeepsObjects
CHECK_DEADLOCK FALSE
