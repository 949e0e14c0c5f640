----------------------------- MODULE VirtualRepo -----------------------------
(***************************************************************************)
(* Shared directories (server/virtual-repo.c).  A virtual repo is a library  *)
(* of its own made from a directory of another one, its origin.  Each is     *)
(* changed by its users, and merge tasks carry the changes from one to the   *)
(* other: a task reads both heads, compares them with the directory at the   *)
(* base commit, the commit of the origin up to which they were merged, and   *)
(* updates one or both.  The update of a library is atomic, and a merge into *)
(* its head when the head is no more the one the task has read: that is what *)
(* BranchUpdate shows of gen_new_commit().                                   *)
(*                                                                          *)
(* One origin, with directories at its top only.  A commit is given by its   *)
(* tree.  Tasks of different repos run concurrently, under MergeScheduler.   *)
(***************************************************************************)
EXTENDS DirOps, FiniteSets

CONSTANTS
    Dirs,           \* names of directories of the origin
    Absent,         \* no such directory, no such row
    Origin,         \* the id of the origin
    VRepos, MaxRunning,
    InitTree,       \* the origin at the beginning
    InitPath,       \* the directories that are shared at the beginning
    Kinds,          \* the changes users make
    OriginWaits,    \* when the users of the origin refrain from changes:
                    \* "never", while a task is "merging" or one is "queued"
    MaxOps,         \* bound: number of changes
    MaxFaults       \* bound: failed updates, crashes

VARIABLES
    tree, prev,     \* the origin: its head and the parent of its head
    status,         \* of a virtual repo: not yet made, live or deleted
    vroot,          \* the head of each virtual repo
    row,            \* table VirtualRepo: path and base commit
    queue, running, \* the scheduler
    task,           \* the local variables of the merge task of each repo
    pending,        \* libraries changed by a request that has not yet asked
                    \* for the merge,
    toAdd,          \* and repos it will add to the queue, as well as those
                    \* that a merge task will add
    ops, faults,
    \* history:
    removed,        \* file versions that a user deleted or replaced
    home            \* where the users of the origin have the directory

origin  == <<tree, prev>>
vrepos  == <<status, vroot, row>>
sched   == <<queue, running>>
calls   == <<pending, toAdd>>
history == <<removed, home>>
vars    == <<tree, prev, status, vroot, row, queue, running, task, pending, toAdd,
             ops, faults, removed, home>>

Files(c) == IF c = Absent THEN {} ELSE c

\* The file versions of a directory; the copy that a conflict makes is the same
\* version of the same file.
Versions(c) == {<<e.name[1], e.id>> : e \in Files(c)}

\* merge_directories() and merge_entries() for trees of directories of files
MergeDir(b, h, r) ==
    CASE h = r -> h
      [] h # r /\ b = h -> r
      [] h # r /\ b = r -> h
      [] OTHER -> MergeFiles(Files(b), Files(h), Files(r))

MergeTree(b, h, r) == [d \in Dirs |-> MergeDir(b[d], h[d], r[d])]

NoTask == [pc |-> "none", path |-> Absent, base |-> Absent, root |-> {},
           otree |-> Absent, oprev |-> Absent, target |-> {}, both |-> FALSE,
           newbase |-> Absent]

Sched == INSTANCE MergeScheduler WITH
    PoolFails <- FALSE,
    active <- [v \in VRepos |-> IF task[v].pc \in {"none", "create", "ended"} THEN 0 ELSE 1],
    ended  <- [v \in VRepos |-> IF task[v].pc = "ended" THEN 1 ELSE 0]

Rows == {v \in VRepos : row[v] # Absent}

----------------------------------------------------------------------------
\* Changes by users

\* the task has read the origin and not yet set the base
Merging == \E v \in VRepos :
    task[v].pc \in {"missing", "updateV", "updateO", "setBase"}

Idle == pending = {} /\ toAdd = {} /\ queue = <<>> /\ running = {}

UserOp ==
    /\ ops < MaxOps
    /\ ops' = ops + 1

ChangeOrigin(t, gone) ==
    /\ UserOp
    /\ OriginWaits = "merging" => ~Merging
    /\ OriginWaits = "queued" => Idle
    /\ tree' = t
    /\ prev' = tree
    /\ removed' = removed \cup gone
    /\ pending' = pending \cup {Origin}
    /\ UNCHANGED <<vrepos, sched, task, toAdd, faults>>

\* what users do to the files of a directory
Edited(c) ==
    {PutFile(c, n, id) : n \in Names, id \in FileIds} \cup {DelFile(c, n) : n \in Names}

OriginWrite(d) ==
    /\ "origin" \in Kinds
    /\ tree[d] # Absent
    /\ \E c \in Edited(tree[d]) \ {tree[d]} :
         ChangeOrigin([tree EXCEPT ![d] = c], Versions(tree[d]) \ Versions(c))
    /\ UNCHANGED home

\* rename_file() for a directory
OriginRename(d, e) ==
    /\ "rename" \in Kinds
    /\ tree[d] # Absent /\ tree[e] = Absent
    /\ ChangeOrigin([tree EXCEPT ![e] = tree[d], ![d] = Absent], {})
    /\ home' = [v \in VRepos |-> IF home[v] = d THEN e ELSE home[v]]

\* del_file() for a directory
OriginDelete(d) ==
    /\ "rmdir" \in Kinds
    /\ tree[d] # Absent
    /\ ChangeOrigin([tree EXCEPT ![d] = Absent], Versions(tree[d]))
    /\ home' = [v \in VRepos |-> IF home[v] = d THEN Absent ELSE home[v]]

VirtualWrite(v) ==
    /\ "virtual" \in Kinds
    /\ status[v] = "live"
    /\ UserOp
    /\ \E c \in Edited(vroot[v]) \ {vroot[v]} :
         /\ vroot' = [vroot EXCEPT ![v] = c]
         /\ removed' = removed \cup (Versions(vroot[v]) \ Versions(c))
    /\ pending' = pending \cup {v}
    /\ UNCHANGED <<origin, status, row, sched, task, toAdd, faults, home>>

\* create_virtual_repo() finds no virtual repo of the directory, reads the
\* head of the origin ...
BeginCreate(v, d) ==
    /\ "create" \in Kinds
    /\ status[v] = "new" /\ task[v] = NoTask
    /\ UserOp
    /\ tree[d] # Absent
    /\ \A w \in Rows : row[w].path # d
    /\ task' = [task EXCEPT ![v] = [NoTask EXCEPT !.pc = "create", !.path = d,
                                                  !.otree = tree]]
    /\ UNCHANGED <<origin, vrepos, sched, calls, faults, history>>

\* ... and stores the rows; then the repo can be used.
Create(v) ==
    /\ task[v].pc = "create"
    /\ row' = [row EXCEPT ![v] = [path |-> task[v].path, base |-> task[v].otree]]
    /\ status' = [status EXCEPT ![v] = "live"]
    /\ vroot' = [vroot EXCEPT ![v] = task[v].otree[task[v].path]]
    /\ home' = [home EXCEPT ![v] = IF tree[task[v].path] = Absent THEN Absent
                                   ELSE task[v].path]
    /\ task' = [task EXCEPT ![v] = NoTask]
    /\ UNCHANGED <<origin, sched, calls, ops, faults, removed>>

\* A change of the origin is not merged, against Converges
MergeVirtualRepoSelf(r) ==
    /\ r \in pending
    /\ pending' = pending \ {r}
    /\ toAdd' = toAdd \cup ({r} \cap Rows)
    /\ UNCHANGED <<origin, vrepos, sched, task, ops, faults, history>>

\* seaf_repo_manager_merge_virtual_repo(), the last step of a request: which
\* virtual repos are to be merged ...
MergeVirtualRepo(r) ==
    /\ r \in pending
    /\ pending' = pending \ {r}
    /\ toAdd' = toAdd \cup (IF r = Origin THEN Rows ELSE {r} \cap Rows)
    /\ UNCHANGED <<origin, vrepos, sched, task, ops, faults, history>>

\* ... and one add_merge_task() for each
AddMergeTask(v) ==
    /\ v \in toAdd
    /\ toAdd' = toAdd \ {v}
    /\ queue' = Sched!Added(queue, v)
    /\ UNCHANGED <<origin, vrepos, running, task, pending, ops, faults, history>>

----------------------------------------------------------------------------
\* The scheduler, see there

Schedule ==
    /\ \E k \in 0..Len(queue) : Sched!Schedule(k, FALSE)
    /\ task' = [v \in VRepos |-> IF v \in running' \ running
                                 THEN [NoTask EXCEPT !.pc = "start"] ELSE task[v]]
    /\ UNCHANGED <<origin, vrepos, calls, ops, faults, history>>

\* The repo stays marked as running, against SchedulerSpec
MergeDoneForgets(v) ==
    /\ task[v].pc = "ended"
    /\ task' = [task EXCEPT ![v] = NoTask]
    /\ UNCHANGED <<origin, vrepos, sched, calls, ops, faults, history>>

\* merge_virtual_repo_done()
MergeDone(v) ==
    /\ task[v].pc = "ended"
    /\ running' = running \ {v}
    /\ task' = [task EXCEPT ![v] = NoTask]
    /\ UNCHANGED <<origin, vrepos, queue, calls, ops, faults, history>>

----------------------------------------------------------------------------
\* The merge task, merge_virtual_repo()

Go(v, t) == task' = [task EXCEPT ![v] = t]
End(v)   == Go(v, [task[v] EXCEPT !.pc = "ended"])

ReadVirtual(v) ==
    /\ task[v].pc = "start"
    /\ IF status[v] = "live"
       THEN Go(v, [task[v] EXCEPT !.pc = "origin", !.path = row[v].path,
                                  !.base = row[v].base, !.root = vroot[v]])
       ELSE End(v)
    /\ UNCHANGED <<origin, vrepos, sched, calls, ops, faults, history>>

\* Which of the two has changed since the base?  oroot is the directory in the
\* head of the origin.
Decide(t, oroot) ==
    LET broot == t.base[t.path] IN
    CASE broot = Absent \/ t.root = oroot -> [t EXCEPT !.pc = "ended"]
      [] broot # Absent /\ t.root # oroot /\ broot = t.root ->
            [t EXCEPT !.pc = "updateV", !.target = oroot, !.newbase = t.otree]
      [] broot # Absent /\ t.root # oroot /\ broot # t.root /\ broot = oroot ->
            [t EXCEPT !.pc = "updateO", !.target = t.root]
      [] OTHER ->
            [t EXCEPT !.pc = "updateV", !.both = TRUE,
                      !.target = MergeFiles(broot, oroot, t.root)]

ReadOrigin(v) ==
    /\ task[v].pc = "origin"
    /\ LET t == [task[v] EXCEPT !.otree = tree, !.oprev = prev]
       IN  IF tree[t.path] = Absent THEN Go(v, [t EXCEPT !.pc = "missing"])
           ELSE Go(v, Decide(t, tree[t.path]))
    /\ UNCHANGED <<origin, vrepos, sched, calls, ops, faults, history>>

\* diff_commits(): directories with this content that head has and its parent
\* h has not.  Of several empty directories none is taken for renamed.
RenamedTo(h, p, c) ==
    LET added == {d \in Dirs : p[d] = Absent /\ h[d] = c}
        gone  == {d \in Dirs : p[d] = c /\ h[d] = Absent}
    IN  IF c = {} /\ (Cardinality(added) # 1 \/ Cardinality(gone) # 1) THEN {}
        ELSE added

\* handle_missing_virtual_repo(): where head h with parent p has the directory
\* that was at path, or Absent
NewPaths(h, p, path) ==
    IF p[path] = Absent \/ RenamedTo(h, p, p[path]) = {} THEN {Absent}
    ELSE RenamedTo(h, p, p[path])

\* The path is set for the repos in vs; if there is none the repo is deleted.
Moved(vs, new, base) ==
    /\ row' = [v \in VRepos |->
                 IF v \notin vs \/ row[v] = Absent THEN row[v]
                 ELSE IF new[v] = Absent THEN Absent
                 ELSE [path |-> new[v], base |-> base]]
    /\ status' = [v \in VRepos |-> IF v \in vs /\ new[v] = Absent THEN "gone"
                                   ELSE status[v]]

\* A repo whose directory is missing is always deleted, against KeptWhenRenamed
HandleMissingDeletes(v) ==
    /\ task[v].pc = "missing"
    /\ Moved({v}, [w \in {v} |-> Absent], task[v].otree)
    /\ End(v)
    /\ UNCHANGED <<origin, vroot, sched, calls, ops, faults, history>>

\* The directory is not in the head of the origin.  If it was renamed the task
\* goes on, with the path it has read.
HandleMissing(v) ==
    LET t == task[v] IN
    /\ t.pc = "missing"
    /\ \E d \in NewPaths(t.otree, t.oprev, t.path) :
         /\ Moved({v}, [w \in {v} |-> d], t.otree)
         /\ IF d = Absent THEN End(v) ELSE Go(v, Decide(t, t.otree[d]))
    /\ UNCHANGED <<origin, vroot, sched, calls, ops, faults, history>>

\* The head of the repo is replaced, not merged, against NoChangeLost
UpdateVirtualOverwrites(v) ==
    LET t == task[v] IN
    /\ t.pc = "updateV"
    /\ vroot' = [vroot EXCEPT ![v] = t.target]
    /\ Go(v, [t EXCEPT !.pc = IF t.both THEN "updateO" ELSE "setBase"])
    /\ UNCHANGED <<origin, status, row, sched, calls, ops, faults, history>>

\* update_dir() of the root of the virtual repo
UpdateVirtual(v) ==
    LET t == task[v] IN
    /\ t.pc = "updateV"
    /\ IF status[v] = "live"
       THEN /\ vroot' = [vroot EXCEPT ![v] = MergeFiles(t.root, @, t.target)]
            /\ Go(v, [t EXCEPT !.pc = IF t.both THEN "updateO" ELSE "setBase"])
       ELSE End(v) /\ UNCHANGED vroot
    /\ UNCHANGED <<origin, status, row, sched, calls, ops, faults, history>>

\* update_dir() of the directory of the origin; fails if the head that was
\* read does not have it
UpdateOrigin(v) ==
    LET t == task[v] IN
    /\ t.pc = "updateO"
    /\ IF t.otree[t.path] # Absent
       THEN /\ tree' = MergeTree(t.otree, tree, [t.otree EXCEPT ![t.path] = t.target])
            /\ prev' = tree
            /\ Go(v, [t EXCEPT !.pc = "setBase", !.newbase = tree', !.both = TRUE])
       ELSE End(v) /\ UNCHANGED origin
    /\ UNCHANGED <<vrepos, sched, calls, ops, faults, history>>

\* set_virtual_repo_base_commit_path(); if the origin was updated there is more
\* to do
SetBase(v) ==
    LET t == task[v] IN
    /\ t.pc = "setBase"
    /\ row' = [row EXCEPT ![v] = IF @ = Absent THEN @
                                 ELSE [path |-> t.path, base |-> t.newbase]]
    /\ IF t.both THEN Go(v, [t EXCEPT !.pc = "cleanup"]) ELSE End(v)
    /\ UNCHANGED <<origin, status, vroot, sched, calls, ops, faults, history>>

\* cleanup_virtual_repos()
Cleanup(v) ==
    LET lost == {w \in Rows : tree[row[w].path] = Absent} IN
    /\ task[v].pc = "cleanup"
    /\ \E new \in [lost -> Dirs \cup {Absent}] :
         /\ \A w \in lost : new[w] \in NewPaths(tree, prev, row[w].path)
         /\ Moved(lost, new, tree)
    /\ Go(v, [task[v] EXCEPT !.pc = "enqueue"])
    /\ UNCHANGED <<origin, vroot, sched, calls, ops, faults, history>>

\* the other virtual repos have to be merged with the new head of the origin
Enqueue(v) ==
    /\ task[v].pc = "enqueue"
    /\ toAdd' = toAdd \cup (Rows \ {v})
    /\ End(v)
    /\ UNCHANGED <<origin, vrepos, sched, pending, ops, faults, history>>

Fault ==
    /\ faults < MaxFaults
    /\ faults' = faults + 1

\* gen_new_commit() gives up
UpdateFails(v) ==
    /\ task[v].pc \in {"updateV", "updateO"}
    /\ Fault
    /\ End(v)
    /\ UNCHANGED <<origin, vrepos, sched, calls, ops, history>>

\* The server stops: the queue, the tasks and the requests are lost.
Crash ==
    /\ Fault
    /\ queue' = <<>> /\ running' = {} /\ pending' = {} /\ toAdd' = {}
    /\ task' = [v \in VRepos |-> NoTask]
    /\ UNCHANGED <<origin, vrepos, ops, history>>

----------------------------------------------------------------------------
Init ==
    /\ tree = InitTree /\ prev = InitTree
    /\ status = [v \in VRepos |-> IF InitPath[v] = Absent THEN "new" ELSE "live"]
    /\ vroot = [v \in VRepos |-> IF InitPath[v] = Absent THEN {}
                                 ELSE InitTree[InitPath[v]]]
    /\ row = [v \in VRepos |-> IF InitPath[v] = Absent THEN Absent
                               ELSE [path |-> InitPath[v], base |-> InitTree]]
    /\ queue = <<>> /\ running = {} /\ pending = {} /\ toAdd = {}
    /\ task = [v \in VRepos |-> NoTask]
    /\ ops = 0 /\ faults = 0 /\ removed = {} /\ home = InitPath

UserStep ==
    \/ \E d \in Dirs : OriginWrite(d) \/ OriginDelete(d)
    \/ \E d, e \in Dirs : OriginRename(d, e)
    \/ \E v \in VRepos : VirtualWrite(v) \/ \E d \in Dirs : BeginCreate(v, d)

TaskStep(v) ==
    \/ Create(v)
    \/ ReadVirtual(v) \/ ReadOrigin(v) \/ HandleMissing(v) \/ UpdateVirtual(v)
    \/ UpdateOrigin(v) \/ SetBase(v) \/ Cleanup(v) \/ Enqueue(v) \/ MergeDone(v)

Next ==
    \/ UserStep \/ Schedule \/ Crash
    \/ \E v \in VRepos : TaskStep(v) \/ UpdateFails(v) \/ AddMergeTask(v)
    \/ \E r \in VRepos \cup {Origin} : MergeVirtualRepo(r)

Spec == Init /\ [][Next]_vars

\* Threads run, the timer ticks.
FairSpec ==
    /\ Spec
    /\ WF_vars(Schedule)
    /\ \A v \in VRepos : WF_vars(TaskStep(v)) /\ WF_vars(AddMergeTask(v))
    /\ \A r \in VRepos \cup {Origin} : WF_vars(MergeVirtualRepo(r))

----------------------------------------------------------------------------
\* Properties

NothingLost ==
    /\ \A d \in Dirs : tree[d] # Absent /\ tree'[d] # Absent =>
         Versions(tree[d]) \ Versions(tree'[d]) \subseteq removed'
    /\ \A v \in VRepos :
         Versions(vroot[v]) \ Versions(vroot'[v]) \subseteq removed'

\* Merges lose no file version: one goes from a directory of the origin or from
\* a virtual repo only when some user deleted or replaced it, there or in the
\* other.  A merge may give it the name of a conflict.
NoChangeLost == [][NothingLost]_vars

DeletedByUsers ==
    \A v \in VRepos : status[v] = "live" /\ status'[v] = "gone" => home[v] = Absent

\* A virtual repo is deleted only when users deleted its directory, not when
\* they renamed it (handle_missing_virtual_repo()).
KeptWhenRenamed == [][DeletedByUsers]_vars

\* In the end the directory and its virtual repo have the same files, unless a
\* task failed or the server crashed: then they wait for the next change.  (So
\* does a virtual repo that was made while the origin changed: nobody asked for
\* its merge.)
Converges ==
    <>[](faults = 0 => \A v \in VRepos :
            InitPath[v] # Absent /\ status[v] = "live" =>
                vroot[v] = tree[row[v].path])

\* The tasks are scheduled as MergeScheduler says (schedule_merge_tasks(),
\* merge_virtual_repo_done()).
SchedulerSpec == Sched!Spec
=============================================================================
