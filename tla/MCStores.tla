------------------------------ MODULE MCStores ------------------------------
(***************************************************************************)
(* What is kept of libraries: in "stores" the objects of a library with a     *)
(* virtual repo, in "history" the commits of a library with a directory, a    *)
(* file at the root and one in the directory, in "sizes" the rows of sizes    *)
(* and the quota of a user of a library with a virtual repo.                  *)
(***************************************************************************)
EXTENDS Sizes, TLC

CONSTANTS Blocks, Files, Empty, mainlib, vlib, user, fname, subdir, f, f1, f2, f3, b1, b2, x, y, DirId

VARIABLES side,
    whole, damaged, unsynced, commits, head, days, validSince, now, server, upload, gc,
    fsck, excused, headOnly, reset, clean, budget,
    made, newest, unsent, keptSince, scan

BlocksOf == f1 :> {b1} @@ f2 :> {b1, b2} @@ f3 :> {b2}
Dir(file) == (fname :> file)
Both(file, below) == fname :> file @@ subdir :> Dir(below)

\* Two uploads and a collection, a change of the history limit between two collections, or a
\* power failure and repairs.
Budget(uploads, failed, time, limits, collections) ==
    [uploads |-> uploads, failures |-> failed, repairs |-> 2 * failed, time |-> time,
     limits |-> limits, collections |-> collections]

St == INSTANCE Stores WITH
    Names <- <<fname, subdir>>, Libs <- <<mainlib, vlib>>, Uploaders <- {1},
    Start <- 10, Days <- {-1, 0, 1},
    FirstRoot <- mainlib :> Both(f1, f1) @@ vlib :> Dir(f1),
    NewRoots <- mainlib :> {Both(f3, f3)} @@ vlib :> {Dir(f3)},
    Posts <- {[lib |-> mainlib, name |-> fname, file |-> f2]},
    Budgets <- {Budget(2, 0, 1, 0, 1), Budget(1, 0, 1, 1, 2), Budget(1, 1, 0, 0, 0)}

Hi == INSTANCE History WITH
    FileIds <- {x, y}, Contents <- {x, y}, EmptyId <- y, LastSuffix <- 2,
    InitTree <- {[path |-> << <<subdir>> >>, id |-> DirId]},
    Files <- {<< <<f>> >>, << <<subdir>>, <<f>> >>},
    ClientClocks <- {1}, Limits <- {2}, ScanFrom <- 3, CleanTimes <- {0}, KeepDays <- -1,
    MaxCommits <- 4,
    commits <- made, head <- newest, side <- unsent, validSince <- keptSince

OwnerOf == mainlib :> user @@ vlib :> user
OriginOf == mainlib :> Nothing @@ vlib :> mainlib
FileSizes == f1 :> 1 @@ f2 :> 3
QuotaOf == user :> 5
StartTree == fname :> f1 @@ subdir :> f2

ASSUME Bounds == SizesAssumption

storesVars == <<whole, damaged, unsynced, commits, head, days, validSince, now, server, upload, gc,
    fsck, excused, headOnly, reset, clean, budget>>
historyVars == <<made, newest, unsent, keptSince, scan>>

StoresInit ==
    /\ side \in {"stores", "history", "sizes"}
    /\ St!Init /\ Hi!Init /\ Init
    /\ side # "stores" => days = 0 /\ budget.failures = 1
    /\ IF side = "sizes" THEN missed = {} <=> threads = 1 ELSE missed = {} /\ threads = 1

StoresNext ==
    /\ UNCHANGED side
    /\ \/ side = "stores" /\ St!Next /\ UNCHANGED <<historyVars, vars>>
       \/ side = "history" /\ Hi!Next /\ UNCHANGED <<storesVars, vars>>
       \/ side = "sizes" /\ Next /\ UNCHANGED <<storesVars, historyVars>>

StoresSpec == StoresInit /\ [][StoresNext]_<<side, storesVars, historyVars, vars>>

----------------------------------------------------------------------------
\* What uploads, collections and power failures leave of the heads and of the history
\* (gc_v1_repo, populate_gc_index_for_repo, obj-backend-fs.c).
LibrariesWhole == side = "stores" => St!HeadWhole /\ St!HistoryWhole

\* What a repair that found nothing says of the heads, and what one leaves in its place
\* (check_and_recover_repo, fsck_check_dir_recursive).
RepairsRight == side = "stores" => St!CleanBill /\ St!Keeps

\* The comment at fsck.c:412, "check and recover repo, for damaged file or folder set it empty":
\* what the repair makes the head has nothing damaged or missing in it.
Heals == St!Heals

\* What is told of the past of a file (list_file_revisions, calc_files_last_modified). The user
\* who reads the trash changes nothing that it depends on, so TLC looks while nobody does.
FileHistoryRight ==
    side = "history" /\ scan.pc = "none" => Hi!RevisionsComplete /\ Hi!LastModifiedRight

\* The pages of the list of commits, likewise, and those of the trash (get_commit_list,
\* get_deleted_entries).
PagesComplete ==
    side = "history" => (scan.pc = "none" => Hi!PagesAgree) /\ Hi!TrashComplete

\* What the diff of two commits says (diff_commits, diff_resolve_renames).
DiffExplains == side = "history" => Hi!DiffExplains
=============================================================================
