----------------------------- MODULE LibraryOps -----------------------------
(***************************************************************************)
(* What users do to the trees of libraries through the server: the           *)
(* operations of server/repo-op.c, and the tasks of server/copy-mgr.c that    *)
(* copy or move between libraries in the background.                          *)
(*                                                                            *)
(* BranchUpdate and AtomicBranch show that gen_new_commit() takes effect at    *)
(* once on the current head, or not at all.  So an operation that reads the    *)
(* head and commits is one step here.  A move to another library is not: it    *)
(* reads both heads, copies the objects, commits to one library and then       *)
(* deletes from the other, and users go on meanwhile.                          *)
(***************************************************************************)
EXTENDS PathTrees

CONSTANTS
    Opened,         \* the libraries
    FileNames, DirNames,    \* first parts of names
    InitTrees,      \* the tree of each library at the beginning
    TaskLibs,       \* bound: source and destination of tasks
    TaskKinds,      \* background, synchronous, related
    MaxFiles,       \* web_copy.max_files
    MaxDepth,       \* bound: length of paths
    MaxItems,       \* bound: entries that one request names
    MaxOps          \* bound: operations; a task counts for two

\* A name begins with the name of a file or of a directory; a number or the id of a conflicting
\* file may follow.
Names == Seq(FileNames \cup DirNames \cup FileIds \cup Nat) \ {<< >>}

Named(name, id) == name[1] \in IF id = DirId THEN DirNames ELSE FileNames

Entries == {e \in [path : Seq(Names) \ {<< >>}, id : FileIds \cup {DirId}] :
              Named(Last(e.path), e.id)}

\* Trees: every entry is in a directory, and that in another, up to the root.
Trees == {t \in SUBSET Entries :
            \A e \in t : \A k \in 1..(Len(e.path) - 1) : Entry(SubSeq(e.path, 1, k), DirId) \in t}

\* Files and directories have different names, and tasks copy to another library.
OpsConstants ==
    /\ FileNames \cap DirNames = {} /\ DirId \notin FileIds
    /\ LastSuffix \in Nat /\ MaxItems \in Nat
    /\ InitTrees \in [Opened -> Trees]
    /\ \A pair \in TaskLibs : pair \in Opened \X Opened /\ pair[1] # pair[2]

ASSUME OpsAssumption == OpsConstants

VARIABLES
    hist,           \* the trees of the commits of each library
    task,           \* the copy task: the arguments and local variables
    flags,          \* what the progress of the task says,
    polled,         \* and whether the poll has taken it out of the table
    requests,
    gone,           \* history: file versions that an operation was meant
                    \* to remove, and
    answer          \* the last revert: the version it was asked for

opsVars == <<hist, task, flags, polled, requests, gone, answer>>

Tree(l) == Last(hist[l])
Versions == UNION {FilesOf(Tree(l)) : l \in Opened}

NoTask == [pc |-> "none"]

NoAnswer == [lib |-> "none"]

OpsInit ==
    /\ hist = [l \in Opened |-> <<InitTrees[l]>>]
    /\ task = NoTask
    /\ flags = {}
    /\ polled = FALSE
    /\ requests = 0
    /\ gone = {}
    /\ answer = NoAnswer

\* the directories that requests name
Dirs(t) == {d \in DirsOf(t) : Len(d) <= MaxDepth - 2}

\* gen_new_commit() on the current head: see AtomicBranch
CommitTree(l, t, removed) ==
    /\ \A e \in t : Len(e.path) <= MaxDepth
    /\ hist' = [hist EXCEPT ![l] = Append(@, t)]
    /\ gone' = gone \cup removed

Request == requests < MaxOps /\ requests' = requests + 1

Operation(l, t, removed) ==
    /\ Request
    /\ CommitTree(l, t, removed)
    /\ answer' = NoAnswer
    /\ UNCHANGED <<task, flags, polled>>

----------------------------------------------------------------------------
\* One library

\* what a replacement of names in a directory removes
Replaced(t, dir, names, replace) ==
    IF replace THEN UNION {FilesOf(NodeAt(t, Child(dir, n))) : n \in names} ELSE {}

\* seaf_repo_manager_post_file() and post_multi_files() with uploaded files
PostFiles(l, dir, names, x, replace) ==
    LET items == [i \in DOMAIN names |->
                    [name |-> Name(names[i]), node |-> Leaf(x)]]
        t == AddEntries(Tree(l), dir, items, replace)
    IN  /\ Room(Tree(l), dir, items, replace)
        /\ Operation(l, t, Replaced(Tree(l), dir, {i.name : i \in Range(items)}, replace))

\* seaf_repo_manager_put_file(): the file must be there; nothing is done when
\* it has the content already
UpdateFile(l, dir, n, x) ==
    LET p == Child(dir, n)
        old == NodeAt(Tree(l), p)
    IN  /\ HasFile(Tree(l), p)
        /\ old # Leaf(x)
        /\ Operation(l, PutFile(Tree(l), p, x), FilesOf(old))

PostDir(l, dir, n) ==
    /\ Name(n) \notin NamesIn(Tree(l), dir)
    /\ Operation(l, Graft(Tree(l), Child(dir, Name(n)), EmptyDir), {})

\* from the last directory of the path upwards to one that exists, then down
MkdirWithParents(l, dir, path) ==
    LET made == {dir \o SubSeq(path, 1, i) : i \in 1..Len(path)}
        missing == {p \in made : ~Has(Tree(l), p)}
    IN  /\ missing # {}
        /\ \A p \in made \ missing : HasDir(Tree(l), p)
        /\ Operation(l, Tree(l) \cup {Entry(p, DirId) : p \in missing}, {})

PostEmptyFile(l, dir, n, x) ==
    /\ Name(n) \notin NamesIn(Tree(l), dir)
    /\ Operation(l, Graft(Tree(l), Child(dir, Name(n)), Leaf(x)), {})

\* names that are not there are passed over; without any other no commit
DelFile(l, dir, names) ==
    LET t == DelEntries(Tree(l), dir, names)
    IN  /\ t # Tree(l)
        /\ Operation(l, t, UNION {FilesOf(NodeAt(Tree(l), Child(dir, n))) : n \in names})

RenameFile(l, dir, n, m) ==
    /\ n \in NamesIn(Tree(l), dir)
    /\ m \notin NamesIn(Tree(l), dir)
    /\ Operation(l, Rename(Tree(l), dir, n, m), {})

----------------------------------------------------------------------------
\* Copy and move in one library

\* get_dirent_by_path(), get_sub_dirents_hash_map(): each name and its object
\* under the new name; a request fails if one is not there
Items(t, dir, names, new) ==
    [i \in DOMAIN names |-> [name |-> new[i], node |-> NodeAt(t, Child(dir, names[i]))]]

AllThere(t, dir, names) == \A n \in Range(names) : n \in NamesIn(t, dir)

Into(l, src, names, dst, new, replace) ==
    /\ AllThere(Tree(l), src, names)
    /\ HasDir(Tree(l), dst)
    /\ Room(Tree(l), dst, Items(Tree(l), src, names, new), replace)

CopyInRepo(l, src, names, dst, new) ==
    /\ Into(l, src, names, dst, new, FALSE)
    /\ Operation(l, AddEntries(Tree(l), dst, Items(Tree(l), src, names, new), FALSE), {})

\* The entries are added and then those of the old names are deleted, both in
\* one commit.  Nothing prevents a move of a directory into itself, or of an
\* entry onto itself: these remove what they should have moved.
MovedTree(t, src, names, dst, new, replace) ==
    DelEntries(AddEntries(t, dst, Items(t, src, names, new), replace), src, Range(names))

OntoItself(src, names, dst, new, replace) ==
    \/ \E n \in Range(names) : IsPrefix(Child(src, n), dst)
    \/ src = dst /\ replace /\ Range(names) \cap Range(new) # {}

MoveInRepo(l, src, names, dst, new, replace) ==
    LET nodes == UNION {FilesOf(NodeAt(Tree(l), Child(src, n))) : n \in Range(names)}
    IN  /\ Into(l, src, names, dst, new, replace)
        /\ Operation(l, MovedTree(Tree(l), src, names, dst, new, replace),
                     Replaced(Tree(l), dst, Range(new), replace)
                     \cup (IF OntoItself(src, names, dst, new, replace) THEN nodes ELSE {}))

----------------------------------------------------------------------------
\* Copy and move to another library.  kind: in the background, synchronous, or
\* between a virtual repo and its origin, whose objects are in one store.

\* the arguments; a move of several files in the background never replaces,
\* nor does a copy
NewTask(move, kind, src, sdir, names, dst, ddir, new, replace) ==
    [pc |-> "queued", move |-> move, kind |-> kind,
     src |-> src, sdir |-> sdir, names |-> names,
     dst |-> dst, ddir |-> ddir, new |-> new,
     replace |-> replace /\ move /\ ~(kind = "background" /\ Len(names) > 1),
     base |-> {}, items |-> <<>>]

StartTask(t) ==
    /\ task.pc \in {"none", "ended"}
    /\ requests + 1 < MaxOps /\ requests' = requests + 2
    /\ task' = t
    /\ flags' = {}
    /\ polled' = (t.kind # "background")
    /\ UNCHANGED <<hist, gone, answer>>

TaskAt(pc) == task.pc = pc

Goto(pc) == task' = [task EXCEPT !.pc = pc]

Ends(failed) ==
    /\ Goto("ended")
    /\ flags' = flags \cup (IF ~failed THEN {"successful"}
                            ELSE IF "canceled" \in flags THEN {} ELSE {"failed"})
    /\ UNCHANGED <<polled, requests>>

\* check_file_count_and_size()
TooMany(items) ==
    /\ task.kind # "related"
    /\ \E i \in DOMAIN items : CountFiles(UNION {items[j].node : j \in 1..i}) > MaxFiles

\* both libraries are opened and the entries are read, once
ReadHeads ==
    LET src == Tree(task.src)
        items == Items(src, task.sdir, task.names, task.new)
    IN  /\ TaskAt("queued")
        /\ UNCHANGED <<hist, gone, answer>>
        /\ \/ /\ ~AllThere(src, task.sdir, task.names) \/ TooMany(items)
              /\ Ends(TRUE)
           \/ /\ AllThere(src, task.sdir, task.names) /\ ~TooMany(items)
              /\ task' = [task EXCEPT !.base = Tree(task.dst), !.items = items,
                            !.pc = IF task.kind = "related" THEN "put" ELSE "copy"]
              /\ UNCHANGED <<flags, polled, requests>>

\* copy_recursive(), which looks for a cancellation before each block, and
\* fails when an object cannot be read, written or paid for by the quota
CopyObjects ==
    /\ TaskAt("copy")
    /\ \/ Ends(TRUE)
       \/ Goto("put") /\ UNCHANGED <<flags, polled, requests>>
    /\ UNCHANGED <<hist, gone, answer>>

\* put_dirent_and_commit() on the head that was read at the beginning: when
\* the library has changed since, gen_new_commit() merges
Proposed == AddEntries(task.base, task.ddir, task.items, task.replace)

\* The proposed tree overwrites what was committed since, against NothingLost
PutTreeUnmerged == Proposed

PutTree ==
    IF Tree(task.dst) = task.base THEN Proposed
    ELSE MergePaths(task.base, Tree(task.dst), Proposed)

PutDirents ==
    /\ TaskAt("put")
    /\ HasDir(task.base, task.ddir)
    /\ Room(task.base, task.ddir, task.items, task.replace)
    /\ CommitTree(task.dst, PutTree,
              Replaced(task.base, task.ddir, Range(task.new), task.replace))
    /\ IF task.move THEN Goto("delete") /\ UNCHANGED <<flags, polled, requests>>
       ELSE Ends(FALSE)
    /\ answer' = NoAnswer

\* the directory is not there, no name is free, the database fails
PutFails ==
    /\ TaskAt("put")
    /\ Ends(TRUE)
    /\ UNCHANGED <<hist, gone, answer>>

\* The source is deleted when the objects are copied, against TaskTruth
DeleteSourceAnyway ==
    LET t == DelEntries(Tree(task.src), task.sdir, Range(task.names))
    IN  /\ task.pc \in {"put", "delete"}
        /\ CommitTree(task.src, t, {})
        /\ Ends(task.pc = "put")
        /\ answer' = NoAnswer

\* seaf_repo_manager_del_file() on the head of now: what has got the names
\* since they were read goes, too
DeleteSource ==
    LET src == Tree(task.src)
        t   == DelEntries(src, task.sdir, Range(task.names))
        now == UNION {FilesOf(NodeAt(src, Child(task.sdir, n))) : n \in Range(task.names)}
        put == UNION {FilesOf(i.node) : i \in Range(task.items)}
    IN  /\ TaskAt("delete")
        /\ HasDir(src, task.sdir)
        /\ IF t = src THEN UNCHANGED <<hist, gone>> ELSE CommitTree(task.src, t, now \ put)
        /\ Ends(FALSE)
        /\ answer' = NoAnswer

DeleteFails ==
    /\ TaskAt("delete")
    /\ Ends(TRUE)
    /\ UNCHANGED <<hist, gone, answer>>

\* seaf_copy_manager_cancel_task()
CancelTask ==
    /\ task.pc # "none" /\ ~polled /\ flags = {}
    /\ flags' = {"canceled"}
    /\ UNCHANGED <<hist, task, polled, requests, gone, answer>>

\* seaf_copy_manager_get_task() frees a task that has an outcome, also one that
\* is canceled and still running
PollTask ==
    /\ task.pc # "none" /\ ~polled /\ flags # {}
    /\ polled' = TRUE
    /\ UNCHANGED <<hist, task, flags, requests, gone, answer>>

CrashOps ==
    /\ task.pc \notin {"none", "ended"}
    /\ task' = NoTask
    /\ flags' = {}
    /\ polled' = FALSE
    /\ UNCHANGED <<hist, requests, gone, answer>>

----------------------------------------------------------------------------
\* Going back to an old commit

\* detect_path_exist(): the directory of the entry, or the root if it is gone
RevertTo(t, p) == IF HasDir(t, Front(p)) THEN Front(p) ELSE <<>>

RevertPath(t, p, i) == Child(RevertTo(t, p), Numbered(Last(p), i))

\* revert_file_to_parent_dir() passes over directories and overwrites a file,
\* revert_file_to_root() passes over files as well
FileFits(t, p, x) ==
    {i \in 0..LastSuffix :
        LET now == NodeAt(t, RevertPath(t, p, i))
        IN  now \in {{}, Leaf(x)} \/ (HasDir(t, Front(p)) /\ ~IsDirNode(now))}

RevertedFile(t, p, x) == PutFile(t, RevertPath(t, p, First(FileFits(t, p, x))), x)

DirFits(t, p, node) == {i \in 0..LastSuffix : NodeAt(t, RevertPath(t, p, i)) \in {{}, node}}

\* A directory is merged into one of its name, against RevertRestores
RevertedDirInto(t, p, node) == Graft(t, RevertPath(t, p, 0), node)

RevertedDir(t, p, node) == Graft(t, RevertPath(t, p, First(DirFits(t, p, node))), node)

\* nothing is committed when the version is there already
Revert(l, t, p, node, removed) ==
    /\ Request
    /\ IF t = Tree(l) THEN UNCHANGED <<hist, gone>> ELSE CommitTree(l, t, removed)
    /\ answer' = [lib |-> l, path |-> p, node |-> node]
    /\ UNCHANGED <<task, flags, polled>>

RevertFile(l, k, p) ==
    LET node == NodeAt(hist[l][k], p)
        x    == CHOOSE y \in FilesOf(node) : TRUE
        over == NodeAt(Tree(l), p)
    IN  /\ k < Len(hist[l])
        /\ HasFile(hist[l][k], p) /\ FileFits(Tree(l), p, x) # {}
        /\ Revert(l, RevertedFile(Tree(l), p, x), p, node,
                  IF IsDirNode(over) THEN {} ELSE FilesOf(over))

RevertDir(l, k, p) ==
    LET node == NodeAt(hist[l][k], p)
    IN  /\ k < Len(hist[l])
        /\ p # <<>> /\ HasDir(hist[l][k], p) /\ DirFits(Tree(l), p, node) # {}
        /\ Revert(l, RevertedDir(Tree(l), p, node), p, node, {})

RevertOnServer(l, k) ==
    /\ k < Len(hist[l])
    /\ Operation(l, hist[l][k], FilesOf(Tree(l)) \ FilesOf(hist[l][k]))

----------------------------------------------------------------------------
\* file names for files and directory names for directories
NamesFor(t, dir, n) ==
    IF IsDirNode(NodeAt(t, Child(dir, n))) THEN {Name(m) : m \in DirNames}
    ELSE {Name(m) : m \in FileNames}

\* one entry of a directory, or all of them in some order
Selected(t, dir) ==
    LET names == NamesIn(t, dir)
    IN  {<<n>> : n \in names}
        \cup {q \in UNION {[1..k -> names] : k \in 2..MaxItems} :
                 IsInjective(q) /\ Range(q) = names}

\* one entry may get another name, several keep theirs
NewNames(t, dir, names) ==
    IF Len(names) = 1 THEN {<<n>> : n \in NamesFor(t, dir, names[1])} ELSE {names}

UserNext == \E l \in Opened : LET t == Tree(l) IN
    \/ \E dir \in Dirs(t), x \in FileIds \ Versions, r \in BOOLEAN, n \in FileNames :
         PostFiles(l, dir, <<n>>, x, r)
    \/ \E x \in FileIds \ Versions, r \in BOOLEAN, n \in FileNames :
         PostFiles(l, <<>>, <<n, n>>, x, r)
    \/ \E dir \in Dirs(t), x \in FileIds : \E n \in NamesIn(t, dir) :
         UpdateFile(l, dir, n, x)
    \/ \E dir \in Dirs(t), n \in DirNames : PostDir(l, dir, n)
    \/ \E n, m \in DirNames : MkdirWithParents(l, <<>>, <<Name(n), Name(m)>>)
    \/ \E dir \in Dirs(t), n \in FileNames, x \in FileIds \ Versions :
         PostEmptyFile(l, dir, n, x)
    \/ \E dir \in Dirs(t) : \E names \in Selected(t, dir) :
         DelFile(l, dir, Range(names))
    \/ \E dir \in Dirs(t) : \E n \in NamesIn(t, dir) : \E m \in NamesFor(t, dir, n) :
         RenameFile(l, dir, n, m)
    \/ \E src, dst \in Dirs(t) : \E names \in Selected(t, src) :
         \E new \in NewNames(t, src, names) :
           \/ CopyInRepo(l, src, names, dst, new)
           \/ \E r \in BOOLEAN : MoveInRepo(l, src, names, dst, new, r)
    \/ \E k \in 1..Len(hist[l]) :
         \/ \E e \in hist[l][k] : RevertFile(l, k, e.path) \/ RevertDir(l, k, e.path)
         \/ RevertOnServer(l, k)

StartNext == \E pair \in TaskLibs : LET src == pair[1]  dst == pair[2] IN
    \E sdir \in Dirs(Tree(src)), ddir \in Dirs(Tree(dst)) :
        \E names \in Selected(Tree(src), sdir) :
            \E new \in NewNames(Tree(src), sdir, names), kind \in TaskKinds,
               move \in BOOLEAN : \E r \in IF move THEN BOOLEAN ELSE {FALSE} :
                StartTask(NewTask(move, kind, src, sdir, names, dst, ddir, new, r))

TaskNext ==
    \/ ReadHeads \/ CopyObjects \/ PutDirents \/ PutFails
    \/ DeleteSource \/ DeleteFails
    \/ CancelTask \/ PollTask \/ CrashOps

\* The bound on operations comes first, for the speed of TLC.
OpsNext ==
    \/ requests < MaxOps /\ (UserNext \/ StartNext)
    \/ TaskNext

OpsSpec == OpsInit /\ [][OpsNext]_opsVars

----------------------------------------------------------------------------
\* Properties

\* Every entry of a tree is in a directory that is there.
Rooted(t) == \A e \in t : e.path # <<>> /\ HasDir(t, Front(e.path))

\* A file version that was ever in a library still is in the head of one,
\* whatever copies, moves and reverts were made, cancelled or cut short by a
\* crash: unless an operation was meant to remove it, a directory was moved into
\* itself or an entry onto itself, or the version took a name at the source of a
\* move between libraries after the move had read the source. No directory goes
\* without what is in it (move_file, copy-mgr.c).
NothingLost ==
    \A l \in Opened : \A i \in DOMAIN hist[l] :
        Rooted(hist[l][i]) /\ FilesOf(hist[l][i]) \subseteq Versions \cup gone

\* What the progress of a task says is true: a task that succeeded has committed
\* what it read to the destination; one that failed or was cancelled without
\* success has not deleted the source (seaf_copy_manager_get_task).
TaskTruth ==
    /\ "successful" \in flags =>
         \E i \in DOMAIN hist[task.dst] :
            \A j \in Range(task.items) :
                FilesOf(j.node) \subseteq FilesOf(hist[task.dst][i]) \cup gone
    /\ task.pc = "ended" /\ "successful" \notin flags =>
         \A j \in Range(task.items) : FilesOf(j.node) \subseteq Versions \cup gone

\* No path names two objects. After a revert the old version of the file or
\* directory is at its place again, or in the root if that place is gone, under
\* its name or that name with a number (revert_file, revert_dir).
RevertRestores ==
    /\ \A l \in Opened : \A i \in DOMAIN hist[l] :
          \A e, f \in hist[l][i] : e.path = f.path => e = f
    /\ answer # NoAnswer =>
          \E dir \in {Front(answer.path), <<>>}, i \in 0..LastSuffix :
             NodeAt(Tree(answer.lib), Child(dir, Numbered(Last(answer.path), i)))
                 = answer.node
=============================================================================
