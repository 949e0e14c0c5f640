\* What fsck makes the head after a power failure.
CONSTANTS
    mainlib = mainlib  vlib = vlib  fname = fname  subdir = subdir  f = f
    f1 = f1  f2 = f2  f3 = f3  b1 = b1  b2 = b2
    x = x  y = y  DirId = DirId  Empty = Empty
    Blocks = {b1, b2}
    Files = {f1, f2, f3}
    user = user  Nothing = Nothing
    Libs = {mainlib, vlib}  Names = {fname, subdir}  Sub = {subdir}  FileIds = {f1, f2}
    Owner <- OwnerOf  Origin <- OriginOf  SizeOf <- FileSizes  Quota <- QuotaOf
    FirstTree <- StartTree
    PoolSizes = {1, 2}  Requests = {1}
    MaxCommits = 4  MaxFailures = 1
SPECIFICATION StoresSpec
CHECK_DEADLOCK FALSE
INVARIANT Heals
