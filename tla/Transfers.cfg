\* Downloads, uploads, and the lists of objects for sync clients.
CONSTANTS
    Tokens = {token1}  Procs = {conn1, conn2}  Blocks <- ThreeBlocks  Specs <- Headers
    Dirs = {2, 3}  MaxDir = 2  Buffer = 2  Width = 16  MaxReqs = 3  Nothing = Nothing
    r1 = r1  r2 = r2  t1 = t1  t2 = t2  t3 = t3
    fname = fname  subdir = subdir
    f1 = f1  f2 = f2  b1 = b1  b2 = b2  c1 = c1  c2 = c2
    Empty = Empty  None = None
    Forms <- TwoForms
    NChunks = 3  MaxUploads = 2  Requests = {r1, r2}  Temps = {t1, t2, t3}  MaxTrouble = 2
SPECIFICATION TransfersSpec
CHECK_DEADLOCK FALSE
INVARIANTS SentIsAsked PiecesVerbatim UploadsWhole ClientWhole ListsEnd
