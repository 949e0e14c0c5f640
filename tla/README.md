# A verification project for seafile-server

Seafile keeps *libraries* (repos).  A library is a tree of files with a history
of commits, as in a version control system; the server moves the head of the
history when a user of the web interface changes a file or when a sync client
uploads a commit.  This directory holds TLA+ models of the C server, TLC
configurations that check them on small instances, and proofs that TLAPS checks.

`PROJECT.json` has the same information in machine-readable form: components,
runs, the lines of code each definition stands for (`map`), hazards, findings,
and for each property a mutant: a changed form of a definition, the way a bug
would change the code, under which TLC finds the property violated.

## 1. The system

| component | state | operations | what makes it hard | what makes it correct |
|---|---|---|---|---|
| Commit and branch protocol: `repo-op.c`, `http-server.c`, `branch-mgr.c`, `commit-mgr.c`, `repo-mgr.c` | commit objects; tables `Repo`, `Branch`, `RepoInfo` | `gen_new_commit` behind every file operation, `fast_forward_or_merge` for sync clients, `edit_repo`, `revert_on_server`, `del_repo` | requests race for the head; retries; lost answers of the database; crashes; commit ids with the resolution of a second | no update is lost, no file version is lost, the history is complete, every request is answered |
| Three-way merge: `merge-new.c` | none | `seaf_merge_trees` | fourteen cases per name, files against directories, conflict names, recursion | no version is lost, names stay unique |
| Tree operations: `repo-op.c` | trees of the heads | post, update, delete, rename, copy, move, revert | rules for taken names; moves between libraries in two commits | nothing goes that was not to be removed |
| Copy and move tasks: `copy-mgr.c` | table of tasks | start, poll, cancel | poller, canceller, worker and users meet | a task says the truth |
| Virtual repos: `virtual-repo.c` | table `VirtualRepo` (origin, path, base commit), two heads | create, merge task, clean-up, missing directory | a task spans two libraries without a transaction | no change lost, both sides converge, a renamed directory stays shared |
| Merge scheduler: `virtual-repo.c`, `job-mgr.c` | queue, table of running tasks, pool | `add_merge_task`, tick, end of a task | request threads, main loop and pool threads | one task per repo, none dropped or starved |
| Library life cycle: `repo-mgr.c`, `gc-core.c` | `Repo`, `Branch`, `RepoOwner`, `RepoTrash`, `VirtualRepo`, `GarbageRepos`, objects | create, delete, restore, purge, collect | sequences of SQL statements, failing statements, crashes, a timer | a library is live, in the trash or recorded for the collector; a live one is complete |
| History: `commit-mgr.c`, `diff-simple.c`, `repo-op.c` | commits, `RepoValidSince` | lists by pages, diffs, revisions, trash, clean-up | merges, late clocks, changes between pages | nothing is missed; a diff explains the change |
| Sharing: `share-mgr.c`, `repo-perm.c`, `group-mgr.c`, `user-mgr.c`, `share.go` | tables of shares, groups, accounts | share, withdraw, change owner or id, check | many statements; two implementations; lists and checks walk different tables | lists, checks and both servers agree |
| Sync access: `http-server.c` | two caches, `RepoUserToken` | check a token and a permission, delete tokens | threads, timer, deletion race | withdrawn access ends |
| Sync lists: `http-server.c` | `fs_obj_ids`, pool | ask, compute, poll, fetch | new heads meanwhile, errors | a client that is done has everything |
| Downloads: `access-file.c`, `web-accesstoken-mgr.c`, `passwd-mgr.c`, `zip-download-mgr.c`, `pack-dir.c` | tokens, keys, archives and their progress | get a token, send piece by piece, write an archive, cancel, clean | timers and workers under a reply; offsets | what is sent is what was asked for |
| Uploads: `upload-file.c` | parser, temporary files, `WebUploadTempFiles` | receive a piece, a chunk; post; clean | pieces end anywhere; retries while the first request works | what is posted is what was sent |
| Stores, GC, fsck: `fs-mgr.c`, `obj-backend-fs.c`, `block-mgr.c`, `gc/` | objects, blocks, commits | write, check existence, mark, sweep, repair | power failures, history limits, shared blocks, interrupted repairs | no live block is removed; a repair leaves what is whole |
| Sizes and quota: `size-sched.c`, `quota-mgr.c` | `RepoSize`, `RepoFileCount` | size job, check | jobs out of order, lost jobs, check before commit | the size is that of the named commit |
| database layer, RPC, start-up, controller, utilities, FUSE, bindings, most of the Go server | - | - | - | section 7 |

How they interact.  An HTTP or RPC thread changes a library by `gen_new_commit`
or `fast_forward_or_merge`; as the last step of the request it calls
`seaf_repo_manager_merge_virtual_repo`, which queues merge tasks, and
`schedule_repo_size_computation`.  A timer of the main loop starts the queued
tasks in a pool.  A task calls `seaf_repo_manager_update_dir`, that is
`gen_new_commit` again, on the virtual repo, the origin or both.  All meet in
the row of table `Branch`, which moves only by `test_and_update_branch`.  Web
uploads and sync clients write objects first and move the branch last; GC and fsck
read the same objects while the server is down.

## 2. The modules

```
FileMerge      what seaf_merge_trees does to a directory of files
  DirOps         what the file operations do to a directory
    BranchUpdate   the protocol that moves the head      -- implements --> AtomicBranch
    VirtualRepo    merge tasks over two libraries        -- implements --> MergeScheduler
MergeTrees     the recursive merge, checked against FileMerge
MergeScheduler the queue and the pool of the merge tasks
LibraryLife    creation, deletion, trash and collection of libraries
PathTrees      trees as sets of paths
  LibraryOps     operations on the trees of libraries, copy and move tasks
  History        commits, and all that is read from them
Sharing        shares, groups, accounts, permissions
SyncAccess     tokens and the caches of the sync API
Downloads, Uploads   the web API
StoredTrees    trees of objects
  SyncObjects    lists of objects for sync clients
  Stores         the stores, GC and fsck
Sizes          size jobs and quota
*Proofs        theorems about FileMerge and BranchUpdate (BranchUpdateProofs),
               MergeScheduler, VirtualRepo, LibraryLife and LibraryOps
               (LibrariesProofs), Sharing, SyncAccess, Uploads and Downloads
               (TransfersProofs), and Sizes
MC*            instances for TLC
```

The modules are joined where one establishes what another assumes.  BranchUpdate
implements AtomicBranch, so LibraryOps, VirtualRepo, Stores and Sizes take an update
of one library as one step.  MergeTrees agrees with FileMerge, so BranchUpdate
may look at one directory.  VirtualRepo implements MergeScheduler, and shows what
Sizes assumes of merges.

### FileMerge, DirOps

A directory of files is a set of dirents `[name, id]`, at most one per name; a
name is a sequence of marks, `<<f>>` for the plain name `f`, longer ones for the
names the code makes up (`f (1)`, `f (SFConflict ...)`).  `MergeFiles(base, head,
remote)` is the outcome of `merge_entries` for each name.  `PostFile`, `PutFile`,
`DelFile`, `RenameFile` are what `do_post_file` and the others do to the root.

### BranchUpdate

The requests of threads `Procs` on one library.  A request is an action that
begins it (`BeginPost`, `BeginPut`, `BeginDel`, `BeginRename`, `BeginSync`,
`BeginEdit`, `BeginRevert`: it reads the head, or the commit the client names),
one that makes the commits up to the compare-and-set (`GenNewCommit`,
`FastForwardOrMerge`, `EditRepo`, `RevertOnServer`), the compare-and-set with
its outcomes (`CasOk`, `CasMismatch`, `CasRolledBack`: the transaction fails,
`CasReplyLost`: it takes effect and the caller gets -1), `Retry`, and
`UpdateRepoInfo` (`on_branch_updated`, in the two steps read and write).
`Abort` is every error return.  `PutCommit` is a sync client that stores its
commit; `DelRepoRow`, `DelBranch` are the deletion of the library in its two
statements; `Crash` loses the threads.

The id of a commit is a record of the fields `compute_commit_id` hashes: root,
creator, description, `ctime`.  `commits` maps ids to what is stored besides:
parents and the library name, which the hash does not cover.  So the model has
the case that two different commits have one id.  `SameSecond` says whether the
clock may stand between two commits.

### AtomicBranch

The abstract specification: a library has a tree; a request, in one step,
replaces the tree by the merge of its proposal into the tree of that moment, or
does nothing.  `BranchUpdate!AtomicSpec` is its instance under the refinement
mapping (tree of the head, roots of published commits, jobs in progress).

### MergeTrees

`merge_trees_recursive`, `merge_entries` and `merge_directories` as recursive
operators over trees, with file/directory conflicts.  The initial states are all
triples of small trees.

### MergeScheduler

`add_merge_task`, `schedule_merge_tasks` (a tick starts as many tasks from the
head of the queue as it can and puts the one it stops at to the end), the pool
of `job-mgr.c` (`TaskEnds`) and `job_done_cb`/`merge_virtual_repo_done` in the
main loop (`MergeDone`).  `ServerStops` loses all of it.  A tick is one action: it holds `q_lock`, and only the
main loop uses `running`.

### VirtualRepo

One origin with directories at its top, and virtual repos made from them.  Users
change files on both sides, rename and delete directories, create virtual repos.
`merge_virtual_repo` is one action per access to shared state: `ReadVirtual`,
`ReadOrigin` (decides what changed), `HandleMissing`, `UpdateVirtual`,
`UpdateOrigin`, `SetBase`, `Cleanup`, `Enqueue`.  `UpdateFails` is an update that
gives up, `Crash` loses the queue and the tasks.  A commit stands for its tree.
`cleanup_virtual_repos` is one step.

### LibraryLife

The tables that say where a library is, and the operations as sequences of SQL
statements, one action each: `create_new_repo` (`StartCreate`, `AddCommit`,
`AddBranch`, `AddRepo`, `SetOwner`), `del_repo` (`StartDelete`, `GetHeadCommit`,
`AddToTrash`, `DelRepoRow`, `DelBranch`, `DelOwner`, `ListShares`, `NextShare`,
`DelVirtualRows`, `AddDeletedRepoRecord`), the removal of one virtual repo by a merge
task (`StartUnshare` and the same statements), purge (`StartPurge`,
`AddDeletedRepoRecord`, `DelFromTrash`), restore (`StartRestore`, `GetRepoFromTrash`,
and one transaction `RestoreFromTrash`) and `delete_garbaged_repos` (`Collect`).
A thread's record in `ops` says which statement is next.  `Commit` is any request
that moves the head, here a number.  In each action a statement may fail, which uses
up one of `MaxFaults`; the code's reaction, mostly to go on, is in the action.
`RepoHead` goes with `Branch`; shares, tokens and sizes go with `RepoOwner`.

### PathTrees, LibraryOps

A tree is a set of entries: a path and an id, `DirId` for directories.  PathTrees has
what `fs-mgr.c` and the functions of `repo-op.c` do to it (`AddEntry` with
`UniqueName` for taken names, `Adding` for the items of a request one after the other, `DelEntries`, `PutFile`, `Rename`, `NodeAt`, and
`MergePaths`, the merge of two trees).  LibraryOps has one action per operation that
reads the head and commits (`PostFiles`, `UpdateFile`, `PostDir`,
`MkdirWithParents`, `PostEmptyFile`, `DelFile`, `RenameFile`, `CopyInRepo`,
`MoveInRepo`, `RevertFile`, `RevertDir`, `RevertOnServer`), and the copy or move to another
library in its steps: `StartTask`, `ReadHeads`, `CopyObjects`, `PutDirents`
(which merges into the head of the moment), `DeleteSource`, with `PutFails`,
`DeleteFails`, `CancelTask`, `PollTask`, `CrashOps`.  `hist` keeps all trees of a
library, `gone` what operations were meant to remove.

Files and directories have names of their own (`FileNames`, `DirNames`; a number or the id of a conflicting
file may follow), so nothing takes the name of something of the other kind.  Requests in which a
file and a directory contend for one name are therefore left out here; MergeTrees has them in
merges.  The code's reverts try numbers without end, the model `LastSuffix` of them.

### History

Commits with two parents, a time and a tree.  Users change the library (`Change`,
`RevertOnServer`), a client has one commit it has not sent (`ClientCommit`,
with a clock of its own; `FastForward`, `MergeSide`), `CleanUpHistory` sets
`RepoValidSince`.  All readers are operators: `Walk` is
`seaf_commit_manager_traverse_commit_tree_with_limit`, the newest commit first, with the
callbacks `ReadCommit`, `ReadRevision`, `ReadModified`, `ReadDeleted`;
`DiffTrees` and `DiffMerge` are `diff_commits` and `diff_merge`, `ResolveRenames`
pairs what was deleted with what was added.  One reader works in steps: the user who
reads the trash page by page while the library changes (`StartScan`, `NextPage`).

### Sharing

The tables of owners, shares, group shares, public libraries, virtual repos, groups,
members and accounts.  A request is one statement and one action; the change of a
library's owner (`SetRepoOwner`, `OwnerDelShares` ... `OwnerDelVirtualRows`) and of an
account's id (`UpdateEmailUserId`, `IdFrom` ... `IdAccount`, `IdFails`) are one action
per statement, or per statements on one table.  `CheckPermission` is `repo-perm.c`,
`GoCheckPerm` is `share.go`, `AccessibleList` is `get_accessible_repo_list_cb`.
`Where`, the rows of a query in their order, is a recursive function, so that lemmas
can be proved about it.

### SyncAccess

`token_cache` and `perm_cache`, the rows behind them, requests on threads in the steps
between which they hold no lock (`Start`, `QueryToken`, `KeepToken`, `LookupPerm`,
`UseEntry`, `ReadPerm`, `FreeEntry`, `StorePerm`, `NotePeer`, `Reply`), the deletion of
tokens (`DeleteToken`, `DeleteByPeer`, `DeleteByEmail`, `FsckDeletesTokens`, then `DeleteRows`,
`DeletePeers`, `InvalidateTokens` or `DeletionFails`) and the timer (`CleanCaches`).
A unit of time is much longer than a request.

### Downloads

`token`, `unlocked`, `progress` and `zip` are the tables and files; `req` the replies.
A reply is started from the token (`UseInfo`, then `StartFile`, `StartRange`,
`StartBlockReply`, `StartZip`) and sent by the write callbacks (`SendWhole`,
`SendRange`, `SendBlock`, `SendZip`).  An archive is made by `CheckDir`,
`CreateZip`, `AddFile`, `FinishZip`, `RemoveFailed`; `ScanProgress`, `CancelZipTask`
and `Expire` come at any time.  Offsets are computed modulo `Width`.

### Uploads

The form parser `RecvFSM`: `Receive(n)` brings the next `n` symbols, and `RecvInit`,
`RecvHeaders`, `RecvFileData`, `RecvFileDataBeyond`, `RecvFormField` are the states of
`upload_read_cb`.  The chunks of a large file: the client asks for the offset
(`AskOffset`) and sends (`SendChunk`), the request opens or creates the temporary file
(`OpenTemp`, `CreateTemp`), copies (`CopyChunk`), posts (`PostChunks`) and
cleans up (`FinishUpload`); `CleanTemp` is the timer, `GiveUp` a client that no longer
waits, `Crash` a restart.

### SyncObjects

`fs_obj_ids` and its worker: `Start`, `Compute`, `ComputeFails`, `ComputeWithoutLibrary`,
`Query`, `Retrieve`, or `AskAtOnce` for older clients; then `PackFs` and `GetBlock`.
`SendList` is `calculate_send_object_list`, the difference of two trees.

### StoredTrees, Stores

Objects are named by their content.  Writers are sync clients (`Sync`, `CheckExist`,
`RecvFs`, `PutBlock`, `PutCommit`, `UpdateHead`) and web uploads (`Post`, `PostBlocks`,
`WriteChunk`, `WriteSeafile`, `SaveDir`, `CommitFileBlocks`).  `WriteBack` syncs,
`PowerFailure` loses or truncates what is not synced.  With the server down, GC runs
(`Collect`, `Populate`, `Populated`, `Sweep` block by block, `EndCollect`), and fsck
(`FsckStart`, `FsckHead`, `FsckTree`, `FsckBranch`, `FsckCommit`, `FsckEnd`,
`FsckIOError`, `FsckKilled`).  The Bloom filter is a superset of the live blocks that
`Populated` chooses.

### Sizes

Commits move heads (`PutFile` after `CheckQuota`, `Delete`, `Rename`, `Merge`), each
change schedules a job (`ScheduleSize`), and the pool works in the steps `Take`,
`ReadRow` (which ends the job when the row is `UpToDate`), `WriteRow`, or `JobFails`; `Restart`
loses the queue.  A row is `Computed` from an older one by the diff (`ChangeOf`), or from all files.

## 3. Runs

A run with several instances has a variable `side` that says which of them a behaviour
belongs to; the others stay in an initial state.

| run | instances | checks |
|---|---|---|
| `commits` | `files`: two threads, three requests or client commits, one name, three contents, one retry. `faults`: deletions of a file, renames and new descriptions of the library, roll-backs, deletion of the library, one fault, four seconds | `NoLostUpdate`, `RetryMeansProgress`, `RenameApplied`, `NoFileLost`, `NameKept` |
| `atomic` | fair; two threads, two requests of every file operation, edit and roll-back, two names (a taken name is not suffixed: `commits` does that), one fault, clock may stand | `HistoryClosed`, `AtomicSpec`, `Answered` |
| `merging` | fair; `merge`: one shared directory, three changes, three contents, one fault. `share`: a second directory gets shared. `rename`: two shared directories, three changes. `pool`: three repos, pool of two, refusals | `NoChangeLost`, `Converges`, `KeptWhenRenamed`, `SchedulerSpec`, `OneTaskPerRepo`, `NoTaskDropped`, `Served` |
| `libraries` | `life`: one library, new or with a virtual repo, two threads, three commits, two failing statements, one crash. `trees`: two libraries, three operations, of which a task counts for two. `merge`: all triples of trees with one name at the top, two below, three contents | `Recorded`, `LiveIsComplete`, `SharesFollow`, `RestoresWhatWasDeleted`, `NothingLost`, `TaskTruth`, `RevertRestores`, `AgreesWithFlatMerge`, `NoVersionLost` |
| `access` | `shares`: three users, one library with a path of two directories, a department with or without a subgroup, three requests. `threads`: two requests of a device, two changes. `device`: one request, three changes | `PermissionsAgree`, `OwnerSeesShares`, `IdChangeMoves`, `AccessEnds` |
| `transfers` | `down`: one token, two connections, a file of three blocks, archives of two files, offsets of four bits. `up`: two forms, in all pieces; a file of three chunks, twice, two troubles. `lists`: two clients, two new heads, one trouble. | `SentIsAsked`, `PiecesVerbatim`, `UploadsWhole`, `ClientWhole`, `ListsEnd` |
| `stores` | `stores`: a library and a virtual repo, three files with two blocks; two uploads and a collection, or a change of the limit between two collections, or a power failure and two repairs. `history`: four commits, two files, two contents. `sizes`: a library and a virtual repo, two files of different sizes, two commits and the merges of them, one failure; a pool of one with rows that are right at the start, or of two without rows | `LibrariesWhole`, `RepairsRight`, `FileHistoryRight`, `PagesComplete`, `DiffExplains`, `SizesRight`, `QuotaHolds` |
| `same_second`, `vrepo_race`, `deleted_twice`, `pieces`, `repair` | as small as shows the point | one property each, violated: section 4 |

What the properties say, where the name does not.  `NoLostUpdate`: what was answered
with success is in the history of the head.  `RetryMeansProgress`: a failed attempt is
due to somebody else's change.  `AtomicSpec`: BranchUpdate implements AtomicBranch.
`Recorded`: a library with objects is in a table from which it can be opened, restored
or collected.  `TaskTruth`: a copy task that says it succeeded has copied, one that
failed or was cancelled has not deleted the source.  `PermissionsAgree`: what the list of libraries
names can be opened with the permission it names, a directory can be opened through its
library or a share above it and not otherwise, and the Go server decides alike.
`OwnerSeesShares`: no share survives that the owner cannot see and withdraw.
`AccessEnds`: a deleted token opens nothing, and a cached permission ends a known time
after it was withdrawn.  `SentIsAsked`: a complete reply has the bytes the header asked
for, by the HTTP standard's definition, and an archive downloaded after its task is whole.
`ClientWhole`: a client that took a list has every object of its commit.  `SizesRight`:
a row has the size of the commit it names, in whatever order jobs write, and with one
thread the last row has the size of the head.  `LibrariesWhole`: heads, and the history within
the limit, have all their objects.  `RepairsRight`: when a repair finds nothing the heads are whole,
and a repair leaves intact files in place.  `FileHistoryRight`: the revisions and times of
last modification are those one reads from the history by hand.  `PagesComplete`: pages
together are the whole list, and the trash misses no deletion.  `DiffExplains`: applying
the diff to the old tree gives the new one.

Why the bounds suffice.  A lost update needs two writers, and a third to change
the head between an attempt and its retry; three requests on two threads have
that.  One retry gives success, failure and giving up after a retry;
`MAX_RETRY_COUNT` is 3 in the code and any number in the theorems.  With one name
and three contents base, head and remote can all differ, which is every case of a
file in the merge.  One fault puts a crash or an error at every point of every request.
Three repos and a pool of two give the scheduler a full pool, a busy repo at the head of
the queue and a waiting one behind it.  One library is enough for `life`, since no
statement of an operation on one library touches a row of another, except its
virtual repos.  Two libraries with a directory of one name and a file of one name on both
levels give every collision a copy or move can meet, twice, and a user between
a task's steps.  A path of two directories is the shortest in which a share can be above,
at and below; a department with one subgroup the shortest line of groups.  Two requests
and one deletion are all that meet at one entry of a cache.  Blocks of 2, 2 and 1 bytes
and a buffer of 2 put the borders of a range within, at and across blocks; 16
offsets are enough to wrap around.  Pieces of every length cut a form everywhere.  Three
chunks have a first, a middle and a last; two troubles are a failure and its repetition,
or a crash after it.  Two changes of a library give two jobs the two heads that they can write in
the wrong order, and a library with its virtual repo the two that one quota is for.  Two files that share a block, at two depths, with a virtual repo of
the lower one, are the sharing that marking and repairing depend on.  Four commits have a
merge of two branches and one commit after it.

Deadlock checking is off: requests are bounded, and the system stops when they
are used up.

Restrictions of the passing runs, besides the bounds; each leaves out a known
misbehaviour (section 4).  `OriginWaits` says when users of the origin refrain from changes:
in `merge` and `share` between the read of its head by a task and the update of the
base commit (`vrepo_race`), in `rename` until the tasks are done.  `Overlaps = FALSE`: no
deletion is asked for while another deletion or a restore of the library is under way,
or when it is gone (`deleted_twice`).  `commits` has a clock that moves between commits
(`same_second`).  `Recorded` is stated without failing statements, `SharesFollow` and
`RestoresWhatWasDeleted` without crashes either.  `PiecesVerbatim` is stated for forms in
which no piece ended where the parser errs (`pieces`), with cuts in header lines and
file data, also within a line break, everywhere.  `excused` of Stores holds what a
power failure took and what a collection took from a client that had asked for it before.
`LastModifiedRight` is about histories without merges, where times differ.
`QuotaHolds` is about uploads checked when all sizes were known and nothing else happened.
GC and fsck run when the server is down: `scripts/seaf-gc.sh` and `seaf-fsck.sh` ask for it.

Fairness.  `BranchUpdate!FairSpec`: weak fairness of each thread; between its
steps a request waits only for the database and a sleep of at most a second.  No
fairness for users, clients, faults.  The unbounded retries end because each
failed attempt needs a change by somebody else and requests are finite in number.
`MergingSpec`: the timer ticks, tasks and request threads reach their ends, the main loop runs;
`Served` is claimed of behaviours in which the pool does not refuse jobs for ever.

## 4. Where the code does not do what it says

* `same_second`: the second of two renames of a library by one user within one
  second is acknowledged and not applied.  The id of a commit does not cover the
  library name, and an object that exists is not written again.
* `vrepo_race`: the library changes while a merge task works.  The task's update
  merges the change and records the merge as base, although the virtual repo does
  not have the change; the next task takes the virtual repo for the newer one and
  undoes the change in the library.
* `deleted_twice`: a library in the trash is deleted again.  `del_repo` finds no head,
  takes the library for a damaged one and records it for the collector, which looks in
  `Repo` only and removes the objects.  The library stays in the trash and cannot be
  restored.
* `pieces`: a piece of a form ends within a field, in the delimiter after a file or right after
  a boundary.  The parser takes the unfinished line out of its buffer: part of the
  field is lost, or a part of the delimiter gets into the file.
* `repair`: two files share a damaged block.  `check_blocks` removes the block and
  then counts it as existing, so that only the first file is emptied, and the head that
  fsck sets still has a file without its block.

Seen in the models and not made into runs:

* Virtual repos: a shared directory is renamed and another commit follows before the
  task looks (only the last commit is compared with its parent): the virtual repo
  is deleted.  A task that has recorded a new path continues with the old one.  Two
  concurrent `create_virtual_repo` calls make two virtual repos of one directory.  One
  that is made while its origin changes is not merged until the next change.
* An edit of the description that has to retry may change the name of the library,
  since `edit_repo` keeps a pointer into the structure it freed (`repo-mgr.c:3983`).
* A deletion that cannot write the row of the trash goes on, and the library is in no table
  (`repo-mgr.c:555`).  A restore whose `INSERT` fails compares a truth value with
  0, does not notice, and takes the library out of the trash (`repo-mgr.c:2800`).
* A move of an entry onto itself, or of a directory into itself, deletes it
  (`repo-op.c:2715`); a move to another library deletes by name what has come there since
  it read the source (`repo-op.c:2960`).
* A token whose deletion fails half way, or races a request, stays in the cache until
  it expires.
* The Go server: `getDirPerm` does not end for a path without a share on the way
  (`share.go:373`); groups above a department give no permission; and `mergeEntries`
  drops the file of the head when both sides changed it (`merge.go:157`).
* A list of objects whose library cannot be loaded is never done (`http-server.c:1608`);
  `query_fs_obj_id_cb` reads an uninitialised `obj` when the token is refused (1710);
  two concurrent retrieves free one list twice (1808).
* The list of revisions ends at a branch that does not have the file, also when the
  other one has more.

## 5. Theorems

`BranchUpdateProofs` begins with FileMerge: for any finite or infinite set of names and contents, a merge
whose head is the base gives the remote (`MergeFastForward`), one whose sides agree
gives that side (`MergeSame`), what the head or the remote added is in the result,
if need be under a conflict name (`MergeKeepsHead`, `MergeKeepsRemote`), and what
the remote removed is not (`MergeDeletes`).  They follow from the definition.

Of BranchUpdate it proves `TypeCorrect` (`Spec => []TypeOK`) and `HistoryIsClosed`
(`Spec => []HistoryClosed`), for any threads, users, names, trees and bounds, under
`ConstantsAssumption` (`None` is not a name or user, the initial tree and name have
their types, bounds are naturals) and `NoneAssumption` (`None` is not a commit id).
TLC evaluates both assumptions in the runs of MCBranchUpdate.

`HistoryClosed` alone is not inductive: that the new head is in the store follows
only if the local variables of the thread that moves it refer to stored commits,
and these come from the branch, from clients' uploads and from published commits.
The inductive invariant `Inv` is `TypeOK` with `StoreOK` (parents of stored commits
are stored), `RefsOK` (head, published and uploaded commits are stored) and
`ThreadOK` for each thread (base, new, old and target, where set, are stored, and
a thread at the compare-and-set has them set).  There is a lemma per group of
actions; `SaveStoreOK` says that saving a commit whose parents are stored keeps a
store closed, and `ThreadOKStable` that a growing store keeps `ThreadOK` of the
threads that do not move.

The second half of `BranchUpdateProofs` has three invariants on top of this one and of each
other.  `JobInv` says of each thread which tree it has in hand and what it will do with
it: base and base of the merge are published, its commit has the tree of the request,
and at the compare-and-set the tree of the target is the merge (`Made`) into the tree
of the head it loaded.  A successful compare-and-set then replaces the tree
of the head by that merge, which gives `NoFileIsLost` (with the theorems about `MergeFiles`)
and `RefinesAtomicBranch`, the refinement of AtomicBranch (`ApplyStep` maps the compare-and-set to the abstract
step; every other action is a request's arrival, its end or a stutter).  `ProgressInv` counts: tries, less the changes of the row since the request began,
never exceed zero while the database does not fail (`RetriesMeanProgress`).  `LineInv` is about the line of
history: each commit is a child later than its parent, and at the compare-and-set the
target descends from the head the thread loaded and from its own commit.  It holds
under `~SameSecond` only: ids are then fresh, so that a saved commit is the one that was meant
(`NewStoreLine`).  `NoUpdateIsLost`, `RenamesAreApplied` and `NamesAreKept` follow; that
the hypothesis is needed is what the run `same_second` shows.

`MergeSchedulerProofs`: `OneTask`, `PoolIsBounded`, `WaitsOnce` and `NotDropped` are the
safety properties of the scheduler, for any finite number of virtual repos and any
size of the pool (`SchedulerAssumption`).  The inductive invariant relates the table
`running`, all that the main loop knows, to the pool: a repo is in it exactly when one
task of it is active or has ended without the main loop knowing.  With the queue free
of duplicates, `TickStep` shows that a tick starts tasks of distinct repos that are
not running, so that the number of started tasks counts repos.

`VirtualRepoProofs`: `TasksAreScheduled` (`Spec => SchedulerSpec`), for any shared directories,
files, users' changes, failures and crashes: VirtualRepo implements MergeScheduler, so
`OneTask`, `PoolIsBounded`, `WaitsOnce` and `NotDropped` hold of its merge tasks.  A crash is
`ServerStops`, the step at which a task returns is `TaskEnds`, whether it succeeded or not, and
everything else that a task or a user does is a stutter or a request.  `SchedInv` is what makes the
mapping work: `running` holds exactly the repos with a task, the queue has no repo
twice, and a repo that is not made yet has no row, no request and no task (`NewOK`), so that
the thread which makes it meets no task of its own repo.

`LibrariesProofs`, about LibraryLife: `TypeCorrect`, and `LiveLibrariesAreComplete`
(`Spec => []LiveIsComplete` under `~Overlaps`), for any libraries, virtual repos,
threads, commits, failing statements and crashes, under `LifeAssumption`.  `Inv` says of
each operation in progress what its kind has done so far (`OpsOK`: a creation past
`Branch` has objects and a head, a restore at its transaction has read a head and its
library has objects) and that no two creations have one id.  `LiveIsComplete` speaks of
libraries that are not being deleted; `Live` adds what a deletion must keep for the
next one who looks, if it ends with an error or a crash: before it takes the row of
`Repo` away the library is complete, afterwards the row is gone (`DeleteLive`), and
no other deletion or restore of the library is under way (`DeletesApart`).  `LiveStep`
is the common case of a step that brings no created library into `Repo` and takes
nothing from one that stays there.

Three more invariants of LibraryLife build on `Inv` and `Live`.  `RecordInv`: while no statement has
failed, each operation has written the record that its next statement relies on
(`LibrariesAreRecorded`, for any number of crashes).  `ShareInv`: a virtual repo outlives its
origin only while a deletion of the origin has it still on its list or a merge task
removes it (`SharesGoWithTheLibrary`; needs no `~Overlaps`).  `HeadInv`: the
row of the trash and the head that a deletion or a restore has read are no older than the
request to delete, and only one place has the head at a time
(`RestoresAreComplete`).  `Recorded` and `RestoresWhatWasDeleted` need `~Overlaps`, as the run
`deleted_twice` shows.

`LibrariesProofs`, about LibraryOps: `NothingIsLost` (`OpsSpec => []NothingLost`) and
`TasksTellTheTruth` (`OpsSpec => []TaskTruth`), for any libraries, names, trees of any depth, numbers of
requests and of items in one, under `OpsAssumption` (files and directories have different names, the
initial trees are trees, tasks copy to another library), which TLC evaluates in MCLibraries.  The
inductive invariant `OpsInv` says that all commits are trees (`Trees`: each entry is of the kind of
its name and in a directory, up to the root), that their files are in a head or in `gone`, and of a
task what it has read and where that is (`TaskOK`): the head of the destination that it read has only
files that are still in *that* library or were meant to go, the items are in the libraries, and
before the source is deleted they are in the destination.  That something is in the one library and
not only in some head is what the later merge and the deletion need, so each step is shown to lose
nothing of each library (`Grows`); the deletion at the source is the exception.  Each operation has a
lemma of what it keeps (`AddKeeps`, `DelKeeps`, `PutKeeps`, `RenameKeeps`, `MoveKeeps`,
`MergeIs`).  Items must have different new names (`Distinct`), else the second would replace the
first.  `MoveKeeps` shows that a move within a library loses only what it replaced or what was moved into
itself or onto itself (`OntoItself`); `MergeIs`, that a merge has every file
that one side added or both kept, and that it is a tree again: above whatever stays, all
directories stay (`StaysUp`).  Trees are sets of paths here, so that a tree below a path is a
matter of prefixes (`Comparable`: of two paths above a third one is above the other) and
needs no recursion; what a request with several items does is a recursive function, treated by a
least counterexample (`AddEntriesIs`).

`SharingProofs`: `OwnersSeeShares` (`SharingSpec => []OwnerSeesShares`), `ChecksAgree`
(`SharingSpec => []PermissionsAgree`) with its three parts `ListedCanBeOpened`, `DirectoriesOpen` and
`ServersAgree`, and `IdsMove` (`SharingSpec => []IdChangeMoves`), for any accounts,
libraries, directories, groups and number of requests, under `SharingAssumption` (libraries and
virtual repos have different ids, the shares there are at the beginning are by the owners, a directory is
not the root), which TLC evaluates in MCAccess.  `OwnerSeesShares` speaks only of the
time when no change of an owner or of an id is under way; `OwnersInv` says what holds in between, when
other requests read and write the same tables.  Every share is of a repo that is there and by its
owner, except the shares that the change of an owner has yet to delete (`Excused`: of the
library, and of the virtual repos, before and after it has listed them), and with the name that the owner is yet to
have in the shares while the change of an id has done `RepoOwner` but not `SharedRepo`
(`OwnerName`).  A virtual repo belongs to the owner of its library (`DirsOK`), since `OwnersSeeShares`
would fail if a directory were shared in another name, and while an id is being replaced
nothing belongs to the old one (`IdOK`).  A change of an id that fails half-way leaves
`task` at `failed`, of which the property says nothing: the code has no repair for it.  The checks of
a permission are no invariants of their own but follow from types (`PermTypes`) and from
what the queries find: `WhereRows` says that `Where` returns the rows it should, in order, `DeepestFound`
that the walk up from a path stops at the deepest share.  `WhereRows` is an induction over the rows, by
a least counterexample, for the reason given below.  `IdsMove` compares what the new id may do at the end of
a change with what the old one could before it, when no request came in between.  `MoveInv` follows the
change through its statements: the permissions the old id had are at each point those of a
user who owns with one id, is shared to with another and is a member with a third (`CheckFor`), and each
statement moves one of the three to the new id, which had no rows there (`Moved`, `SameCheck`).

`SyncAccessProofs`: `AccessEndsInTime` (`Spec => []AccessEnds`).  The inductive invariant
`AccessInv` ties the caches to the histories: the entry of a token expires at most `TokenExpire` after the
row last existed, that of a permission at most `PermExpire` after it was last
given, no entry has been past its time at the last cleaning, a token whose invalidation has
ended has neither a row nor an entry, and what a request has read is not older than that.  Time passes
only between requests (`Tick`), so the answers of a request are of one moment.  `AccessAssumption`
(expiry times and the interval are positive, `None` is not a user) is evaluated by TLC in MCAccess.

`TransfersProofs`: `LargeFilesAreWhole` (`UploadsSpec => []UploadsWhole`), for any number of chunks, requests
and names of temporary files.  As long as no request that was given up has changed the rows
(`split`), `OneFile` holds: there is at most one row, a temporary file has no holes, the
chunks before the one of a request are in its file, and only one request is waited for.
The client continues at the first missing chunk, so a file that has the last one has all (`LastOne`: a set of numbers
without holes is an interval, by a well-founded minimum, since the induction theorems of
the library take an operator).  `UploadsAssumption` (there is a chunk, `None` is not a file)
is evaluated in MCTransfers.  `RepliesAreWhole` (`DownloadsSpec => []SentIsAsked`), for any files, blocks,
ranges and archives under `DownloadsAssumption` (blocks are not empty, a file and the numbers
of a header are below `Width`).  `DownloadsInv` says of a reply that
what was sent is the bytes from its first one on (`FirstByte`), that the callback goes on behind them in the right
block, and that what was sent and what remains are together what the headers promised; an archive
that was whole when it was asked for is sent whole (`ZipOK`).  A range is computed modulo `Width`;
`GoodRangeIsAsked` shows that one which passes the checks of the code is the range that was asked for.

`SizesProofs`: `RowsAreRight` (`Spec => []RowRight`), `RowsFollow` (`Spec => []SizeFollows`), which
are `SizesRight` together, and `UploadsKeepQuota` (`Spec => []QuotaHolds`), for any libraries with virtual repos, paths, files,
quotas, pools, uploads and failures.  `SizesAssumption` (libraries and paths are finitely many,
sizes are naturals, no virtual repo is made from a virtual repo, `Nothing` is not a library, a file
or a row) is evaluated in MCStores.  All three rest on `SizesInv`: commits are never changed, a job
works on a commit of its library, and the row it has read was right for the commit that it names.
What it then writes is right by `DiffAddsUp`: for any two trees, what the diff counts is what separates
their sizes and numbers of files, since each file that the diff pairs as renamed is left out
once on both sides (`WithoutRenamed`).  `RowRight` alone is not inductive: a row read before
another thread's write is used after it.  `Follows` says of every library of which no job was lost
what there is to do: it waits in the queue or to be put there, the thread works on a commit
as large as its head, or its row is as large.  As large and not the same, because no job
follows a rename.  With two threads it fails: the job that read the older head may write last.  `QuotaInv`
carries what an upload was told from the check to the commit, as long as nothing changes;
it needs that a merge under way then changes nothing either (`QuotaMerge`), which is why
`settled` asks for virtual repos in step with their libraries.  Sums are values of a recursive
function over sets; `SumsExist` shows that there is such a function for every finite set, and `SumPick`
that any summand may be taken first.

No module with theorems reaches a recursive operator.

## 6. Only model-checked

* Liveness (`Answered`, `Served`, `Converges`): beyond the provers, as is ENABLED.
* MergeTrees, SyncObjects, Stores, and what is said of them (`AgreesWithFlatMerge`, `NoVersionLost`,
  `ClientWhole`, `ListsEnd`, `LibrariesWhole`, `RepairsRight`): recursive operators over
  trees, which the provers cannot use.
* History (`FileHistoryRight`, `PagesComplete`, `DiffExplains`): the walk is a fold over the
  commits; what it computes is induction over data.
* `PiecesVerbatim`: induction over the pieces of a form.
* `RevertRestores` of LibraryOps: that no path names two objects is not inductive over all trees.  A conflict
  copy has the name of the file with the id of its version; if its content is then updated and the same
  version comes into conflict again, the merge gives its name a second time.  In the code the name has
  the user and the second of the modification.
* VirtualRepo (`NoChangeLost`, `KeptWhenRenamed`): both hold only under the restrictions of their
  instance (which kinds of change meet, `OriginWaits`, no faults), and `NoChangeLost` follows a
  version through conflict names over several merges.  No inductive invariant of it was found that would
  not repeat the runs case by case.

## 7. Not modelled

See `components` in `PROJECT.json` for the reason of each.  The database layer,
configuration, message queue and RPC are glue: a statement or a transaction is one
step, with its error results.  Start-up, controller, cryptography, chunk boundaries,
utilities, FUSE, bindings and scripts have no protocol state of their own.  The Go file
server is a second implementation, of which only the permission check is modelled.  In
modelled parts: modes, sizes and times of files where nothing depends on them, encrypted
libraries (except the keys of downloads), file locks, organisations, quotas of
organisations, password changes, the wording of commits and replies.

## 8. Plan

The model is complete as far as section 7 allows.  What is left are proofs: `ListsEnd` of
SyncObjects, which does not depend on what the recursive operators compute but is in a module that
uses them; the uniqueness of paths in LibraryOps for trees without conflict copies; and an
inductive invariant for `KeptWhenRenamed` of VirtualRepo.
