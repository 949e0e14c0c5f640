------------------------------- MODULE Stores -------------------------------
(***************************************************************************)
(* The stores of a library and of the virtual repos of its directories: blocks, *)
(* fs objects (files and directories) and commits (common/obj-backend-fs.c, block-backend-fs.c,    *)
(* fs-mgr.c). Sync clients, web uploads and uploads of raw blocks write      *)
(* them while the server runs. While it does not (scripts/seaf-gc.sh,         *)
(* seaf-fsck.sh ask for that), the garbage collection removes blocks          *)
(* (server/gc/gc-core.c) and fsck repairs libraries (server/gc/fsck.c).       *)
(*                                                                          *)
(* Only commits are synced to disk: after a power failure other objects may be *)
(* lost or truncated.                                                        *)
(*                                                                          *)
(* A commit whose parent is no longer the head is dropped here: the modules   *)
(* BranchUpdate and MergeTrees are about the merge.                           *)
(***************************************************************************)
EXTENDS StoredTrees, Integers, Sequences, FiniteSets, SequencesExt

CONSTANTS
    Names,                      \* names, in the order of the entries of a directory
    Libs,                       \* the library and its virtual repos, the library first
    FirstRoot, NewRoots,        \* a root for each, and the roots clients upload
    Posts,                      \* web uploads: library, name and file
    Days,                       \* history limits: days, none, or -1
    Uploaders,
    Start,                      \* the time at the start
    Budgets                     \* bounds: how often clients, the machine and the administrator act

VARIABLES
    whole, damaged,     \* the objects in the store: intact, and not
    unsynced,           \* the intact ones that are not on disk yet
    commits, head,      \* the commits, and the branches
    days, validSince,   \* RepoHistoryLimit, RepoValidSince
    now, server,        \* the clock; whether the server runs
    upload, gc, fsck,   \* what is under way
    excused,            \* history: objects lost in power failures or swept below an upload,
    headOnly, reset,    \*   libraries of which only the head was kept, or that fsck has reset,
    clean,              \*   whether the last thing done was a repair that found nothing
    budget              \* what may still happen

objects == <<whole, damaged, unsynced>>
tables == <<commits, head, days, validSince>>
history == <<excused, headOnly, reset, clean>>
vars == <<objects, tables, now, server, upload, gc, fsck, history, budget>>

Library == Range(Libs)

Spend(what) ==
    /\ budget[what] > 0
    /\ budget' = [budget EXCEPT ![what] = @ - 1]
Idle == [pc |-> "idle"]

Exists(o) == o = Empty \/ o \in whole \cup damaged
Valid(o) == o = Empty \/ o \in whole

Root(l) == commits[head[l]].root

RECURSIVE ChainFrom(_)
ChainFrom(c) == IF c = 0 THEN << >> ELSE <<c>> \o ChainFrom(commits[c].parent)

Init ==
    /\ whole = UNION {Objects(FirstRoot[l]) : l \in Library}
    /\ damaged = {} /\ unsynced = {}
    /\ commits = [i \in DOMAIN Libs |->
           [lib |-> Libs[i], root |-> FirstRoot[Libs[i]], parent |-> 0, time |-> Start - 2, saved |-> TRUE]]
    /\ head = [l \in Library |-> CHOOSE i \in DOMAIN Libs : Libs[i] = l]
    /\ days \in Days
    /\ validSince = [l \in Library |-> -1]
    /\ now = Start /\ server = "up"
    /\ upload = [u \in Uploaders |-> Idle]
    /\ gc = Idle /\ fsck = Idle
    /\ excused = {} /\ headOnly = {} /\ reset = {} /\ clean = FALSE
    /\ budget \in Budgets

Offline == server = "down" /\ gc = Idle /\ fsck = Idle

----------------------------------------------------------------------------
\* Writing. An object is written to a file of another name, which is renamed.

Store(new) ==
    /\ whole' = whole \cup new
    /\ damaged' = damaged \ new
    /\ unsynced' = unsynced \cup new
    /\ excused' = excused \ new

Upload(u, r) == upload' = [upload EXCEPT ![u] = r]
Begins(u, r) ==
    /\ server = "up" /\ upload[u] = Idle
    /\ Upload(u, r)
    /\ Spend("uploads")
    /\ UNCHANGED <<objects, tables, now, server, gc, fsck, excused, headOnly, reset, clean>>

Unchanged == UNCHANGED <<tables, now, server, gc, fsck, headOnly, reset, clean, budget>>

\* A sync client has the objects of its commit's parent, and asks for the others.
Sync(u, l) ==
    \E root \in NewRoots[l] :
        Begins(u, [pc |-> "check", by |-> "client", lib |-> l, base |-> head[l], root |-> root,
                   todo |-> Objects(root) \ Objects(Root(l))])

CheckExist(u) ==
    /\ server = "up" /\ upload[u].pc = "check"
    /\ Upload(u, [upload[u] EXCEPT !.pc = "write", !.todo = {o \in @ : ~Exists(o)}])
    /\ UNCHANGED <<objects, excused>> /\ Unchanged

\* What a client sends replaces what is there.
Receive(u, o) ==
    /\ server = "up" /\ upload[u].pc = "write" /\ upload[u].by = "client"
    /\ Store({o})
    /\ Upload(u, [upload[u] EXCEPT !.todo = @ \ {o}])
    /\ Unchanged

RecvFs(u, o) == o \notin Blocks /\ Receive(u, o)

\* The blocks are sent last.
PutBlock(u, b) == upload[u].todo \subseteq Blocks /\ Receive(u, b)

WithFile(root, n, f) == [m \in DOMAIN root \cup {n} |-> IF m = n THEN f ELSE root[m]]

\* An upload writes the blocks of the file before the file, and the directory last.
Post(u, p) ==
    LET root == WithFile(Root(p.lib), p.name, p.file)
    IN Begins(u, [pc |-> "write", by |-> "server", lib |-> p.lib, base |-> head[p.lib], root |-> root,
                  todo |-> Objects(p.file) \cup {root}])

\* The server writes only what does not exist.
Write(u, o) ==
    /\ server = "up" /\ upload[u].pc = "write" /\ upload[u].by # "client"
    /\ Store({o} \ {q \in {o} : Exists(q)})
    /\ Upload(u, [upload[u] EXCEPT !.todo = @ \ {o}])
    /\ Unchanged

WriteChunk(u, b) == b \in Blocks /\ Write(u, b)
WriteSeafile(u, f) == f \in Files /\ upload[u].todo \cap Blocks = {} /\ Write(u, f)
SaveDir(u, d) == d \notin Files \cup Blocks /\ upload[u].todo = {d} /\ Write(u, d)

\* Raw blocks are uploaded first, in requests of their own; a later one names them.
PostBlocks(u, p) ==
    Begins(u, [pc |-> "write", by |-> "blocks", lib |-> p.lib, post |-> p, todo |-> BlocksOf[p.file]])

CommitFileBlocks(u) ==
    /\ server = "up" /\ upload[u].pc = "write" /\ upload[u].by = "blocks" /\ upload[u].todo = {}
    /\ LET p == upload[u].post
           root == WithFile(Root(p.lib), p.name, p.file)
       IN Upload(u, IF \E b \in BlocksOf[p.file] : ~Exists(b) THEN Idle
                    ELSE [pc |-> "write", by |-> "server", lib |-> p.lib, base |-> head[p.lib],
                          root |-> root, todo |-> {p.file, root}])
    /\ UNCHANGED <<objects, excused>> /\ Unchanged

\* The clock of a client may be late.
PutCommit(u) ==
    /\ server = "up" /\ upload[u].pc = "write" /\ upload[u].by # "blocks" /\ upload[u].todo = {}
    /\ \E late \in IF upload[u].by = "client" THEN {0, 1} ELSE {0} :
           commits' = Append(commits, [lib |-> upload[u].lib, root |-> upload[u].root,
                          parent |-> upload[u].base, time |-> now - late, saved |-> TRUE])
    /\ Upload(u, [pc |-> "head", by |-> upload[u].by, lib |-> upload[u].lib, base |-> upload[u].base,
                  root |-> upload[u].root, commit |-> Len(commits) + 1])
    /\ UNCHANGED <<objects, head, days, validSince, now, server, gc, fsck, history, budget>>

UpdateHead(u) ==
    /\ server = "up" /\ upload[u].pc = "head"
    /\ head' = IF head[upload[u].lib] = upload[u].base
               THEN [head EXCEPT ![upload[u].lib] = upload[u].commit] ELSE head
    /\ Upload(u, Idle)
    /\ UNCHANGED <<objects, commits, days, validSince, now, server, gc, fsck, history, budget>>

----------------------------------------------------------------------------
\* The server, its machine and its administrator

\* Requests end; clients go on later.
StopServer ==
    /\ server = "up"
    /\ server' = "down"
    /\ upload' = [u \in Uploaders |->
           IF upload[u].pc # "idle" /\ upload[u].by = "server" THEN Idle ELSE upload[u]]
    /\ UNCHANGED <<objects, tables, now, gc, fsck, history, budget>>

StartServer ==
    /\ Offline
    /\ server' = "up" /\ clean' = FALSE
    /\ UNCHANGED <<objects, tables, now, upload, gc, fsck, excused, headOnly, reset, budget>>

WriteBack ==
    /\ unsynced # {}
    /\ unsynced' = {}
    /\ UNCHANGED <<whole, damaged, tables, now, server, upload, gc, fsck, history, budget>>

PowerFailure ==
    /\ \E lost, torn \in SUBSET unsynced :
           /\ lost \cap torn = {}
           /\ whole' = whole \ (lost \cup torn)
           /\ damaged' = damaged \cup torn
           /\ excused' = excused \cup lost \cup torn
    /\ unsynced' = {}
    /\ server' = "down" /\ gc' = Idle /\ fsck' = Idle /\ clean' = FALSE
    /\ upload' = [u \in Uploaders |->
           IF upload[u].pc # "idle" /\ upload[u].by = "server" THEN Idle ELSE upload[u]]
    /\ Spend("failures")
    /\ UNCHANGED <<tables, now, headOnly, reset>>

Tick ==
    /\ Spend("time")
    /\ now' = now + 1
    /\ UNCHANGED <<objects, tables, server, upload, gc, fsck, history>>

SetHistoryLimit(d) ==
    /\ server = "up" /\ d # days
    /\ Spend("limits")
    /\ days' = d
    /\ UNCHANGED <<objects, commits, head, validSince, now, server, upload, gc, fsck, history>>

----------------------------------------------------------------------------
\* Garbage collection

Max2(a, b) == IF a > b THEN a ELSE b

TruncateTime(l) ==
    IF days = 0 THEN 0 ELSE IF days < 0 THEN validSince[l] ELSE Max2(now - days, validSince[l])

\* The traversal ends with the first commit before the time, the head apart.
LastTraversed(c, i, truncate) ==
    truncate = 0 \/ (truncate > 0 /\ commits[c].time < truncate /\ i > 1)

Traversed(l) ==
    LET chain == ChainFrom(head[l])
    IN {chain[i] : i \in {j \in DOMAIN chain :
           \A k \in 1..(j - 1) : ~LastTraversed(chain[k], k, TruncateTime(l))}}

\* A tree is read as far as its files; the blocks may be gone.
Readable(c) ==
    commits[c].saved /\ \A o \in Objects(commits[c].root) \ Blocks : Valid(o)

\* Mutant of LiveBlocks, against LibrariesWhole: virtual repos are not populated with their origin.
LiveBlocksOfLibrary(l) ==
    IF l = Libs[1] THEN UNION {Objects(commits[c].root) \cap Blocks : c \in Traversed(l)} ELSE {}

LiveBlocks(l) == UNION {Objects(commits[c].root) \cap Blocks : c \in Traversed(l)}

Collect(dry) ==
    /\ Offline
    /\ Spend("collections")
    /\ gc' = [pc |-> "index", todo |-> Libs, index |-> {}, dry |-> dry]
    /\ UNCHANGED <<objects, tables, now, server, upload, fsck, history>>

\* A library that cannot be read to the end is left alone, but RepoValidSince is set.
Populate ==
    /\ gc.pc = "index" /\ gc.todo # << >>
    /\ LET l == Head(gc.todo)
           truncate == TruncateTime(l)
           loaded == commits[head[l]].saved
       IN /\ validSince' = IF ~loaded \/ truncate < 0 THEN validSince
                           ELSE [validSince EXCEPT ![l] =
                                    IF truncate = 0 THEN commits[head[l]].time ELSE truncate]
          /\ headOnly' = IF truncate = 0 THEN headOnly \cup {l} ELSE headOnly
          /\ gc' = IF loaded /\ \A c \in Traversed(l) : Readable(c)
                   THEN [gc EXCEPT !.todo = Tail(@), !.index = @ \cup LiveBlocks(l)]
                   ELSE Idle
    /\ UNCHANGED <<objects, commits, head, days, now, server, upload, fsck, excused, reset, clean, budget>>

Populated ==
    /\ gc.pc = "index" /\ gc.todo = << >>
    /\ gc' = IF gc.dry THEN Idle ELSE [gc EXCEPT !.pc = "sweep"]
    /\ UNCHANGED <<objects, tables, now, server, upload, fsck, history, budget>>

RemovesBlock(b) == b \notin gc.index

Sweep(b) ==
    /\ gc.pc = "sweep"
    /\ b \in whole \cup damaged /\ RemovesBlock(b)
    /\ whole' = whole \ {b} /\ damaged' = damaged \ {b} /\ unsynced' = unsynced \ {b}
    /\ excused' = excused \cup
           {b1 \in {b} : \E u \in Uploaders : /\ upload[u].pc # "idle" /\ upload[u].by = "client"
                                              /\ b1 \in Objects(upload[u].root)}
    /\ UNCHANGED <<tables, now, server, upload, gc, fsck, headOnly, reset, clean, budget>>

\* The filter may take a block for a live one, and the process may be stopped.
EndCollect ==
    /\ gc.pc # "idle"
    /\ gc' = Idle
    /\ UNCHANGED <<objects, tables, now, server, upload, fsck, history, budget>>

----------------------------------------------------------------------------
\* fsck

\* The files of a tree in the order of the walk; a damaged directory is not entered.
RECURSIVE Visits(_, _)
Visits(d, path) ==
    LET In(n) == LET o == d[n] p == Append(path, n)
                 IN IF o = Empty THEN << >>
                    ELSE IF o \in Files THEN << [path |-> p, file |-> o] >>
                    ELSE IF o \in whole THEN Visits(o, p) ELSE << >>
        names == SelectSeq(Names, LAMBDA n : n \in DOMAIN d)
    IN FlattenSeq([i \in DOMAIN names |-> In(names[i])])

RECURSIVE FileAt(_, _)
FileAt(d, path) ==
    IF path = << >> THEN d ELSE IF ~Inner(d) THEN Empty ELSE FileAt(d[Head(path)], Tail(path))

\* existing_blocks: the blocks of the files that were checked before, of which a damaged one is removed.
ExistingBlocks(visits, i) ==
    UNION {BlocksOf[visits[j].file] \cap (whole \cup damaged) :
           j \in {k \in 1..(i - 1) : visits[k].file \in whole}}

\* Mutant of BlocksPass, against RepairsRight: blocks are not verified.
BlocksExist(visits, i) == \A b \in BlocksOf[visits[i].file] : Exists(b)

BlocksPass(visits, i) ==
    \A b \in BlocksOf[visits[i].file] : b \in whole \/ b \in ExistingBlocks(visits, i)

DamagedPaths(visits) ==
    {visits[i].path : i \in {j \in DOMAIN visits :
        visits[j].file \notin whole \/ ~BlocksPass(visits, j)}}

RECURSIVE Repaired(_, _, _)
Repaired(d, path, bad) ==
    [n \in DOMAIN d |->
        LET o == d[n] p == Append(path, n)
        IN IF o = Empty \/ p \in bad THEN Empty
           ELSE IF o \in Files THEN o
           ELSE IF o \notin whole THEN Empty ELSE Repaired(o, p, bad)]

RECURSIVE Walked(_)
Walked(d) == \* the objects that were verified
    {d[n] : n \in DOMAIN d} \cup UNION {Walked(d[n]) : n \in {m \in DOMAIN d : Inner(d[m]) /\ d[m] \in whole}}

Verified(d) ==
    Walked(d) \cup UNION {BlocksOf[f] : f \in Walked(d) \cap Files \cap whole}

Drop(gone) == damaged' = damaged \ gone

FsckStart ==
    /\ Offline
    /\ Spend("repairs")
    /\ fsck' = [pc |-> "head", todo |-> Libs, found |-> FALSE]
    /\ clean' = FALSE
    /\ UNCHANGED <<objects, tables, now, server, upload, gc, excused, headOnly, reset>>

NextLib(found) == [pc |-> "head", todo |-> Tail(fsck.todo), found |-> fsck.found \/ found]

Available(l) ==
    {c \in DOMAIN commits : commits[c].lib = l /\ commits[c].saved /\ Valid(commits[c].root)}

\* The head, or when it is damaged the latest commit with a root that is not.
FsckHead ==
    /\ fsck.pc = "head" /\ fsck.todo # << >>
    /\ LET l == Head(fsck.todo)
           good == commits[head[l]].saved /\ Valid(Root(l))
           Tree(c, older) == [pc |-> "tree", todo |-> fsck.todo, found |-> fsck.found,
                              from |-> c, older |-> older]
           roots(least) == {commits[c].root : c \in {d \in DOMAIN commits :
                               commits[d].lib = l /\ commits[d].saved /\ commits[d].time >= least}}
       IN \/ good /\ fsck' = Tree(head[l], FALSE) /\ UNCHANGED damaged
          \/ /\ ~good
             /\ \E c \in Available(l) :
                    /\ \A d \in Available(l) : commits[d].time <= commits[c].time
                    /\ fsck' = Tree(c, TRUE)
                    /\ Drop(roots(commits[c].time) \cup
                              (IF commits[head[l]].saved THEN {Root(l)} ELSE {}))
          \/ ~good /\ Available(l) = {} /\ fsck' = NextLib(TRUE) /\ Drop(roots(0))
    /\ UNCHANGED <<whole, unsynced, tables, now, server, upload, gc, history, budget>>

FsckTree ==
    /\ fsck.pc = "tree"
    /\ LET l == Head(fsck.todo)
           old == commits[fsck.from].root
           root == IF old = Empty THEN Empty ELSE Repaired(old, << >>, DamagedPaths(Visits(old, << >>)))
           new == {o \in Objects(root) : Inner(o) /\ ~Exists(o)}
       IN /\ Drop(IF old = Empty THEN {} ELSE Verified(old))
          /\ whole' = whole \cup new /\ unsynced' = unsynced \cup new
          /\ fsck' = IF root # old \/ fsck.older
                     THEN [pc |-> "branch", todo |-> fsck.todo, found |-> TRUE,
                           from |-> fsck.from, root |-> root]
                     ELSE NextLib(FALSE)
    /\ UNCHANGED <<tables, now, server, upload, gc, history, budget>>

\* The tokens are deleted, so the sync clients start anew, and the branch is set to a commit
\* that is saved afterwards.
FsckBranch ==
    /\ fsck.pc = "branch"
    /\ LET l == Head(fsck.todo)
       IN /\ commits' = Append(commits, [lib |-> l, root |-> fsck.root, parent |-> fsck.from,
                                         time |-> now, saved |-> FALSE])
          /\ head' = [head EXCEPT ![l] = Len(commits) + 1]
          /\ upload' = [u \in Uploaders |->
                 IF upload[u].pc # "idle" /\ upload[u].lib = l /\ upload[u].by = "client" THEN Idle
                 ELSE upload[u]]
          /\ reset' = reset \cup {l}
    /\ fsck' = [fsck EXCEPT !.pc = "commit"]
    /\ UNCHANGED <<objects, days, validSince, now, server, gc, excused, headOnly, clean, budget>>

FsckCommit ==
    /\ fsck.pc = "commit"
    /\ commits' = [commits EXCEPT ![head[Head(fsck.todo)]].saved = TRUE]
    /\ fsck' = NextLib(TRUE)
    /\ UNCHANGED <<objects, head, days, validSince, now, server, upload, gc, history, budget>>

\* A library of which an object cannot be read is left alone.
FsckIOError ==
    /\ fsck.pc = "tree"
    /\ fsck' = NextLib(TRUE)
    /\ UNCHANGED <<objects, tables, now, server, upload, gc, history, budget>>

FsckEnd ==
    /\ fsck.pc = "head" /\ fsck.todo = << >>
    /\ fsck' = Idle
    /\ clean' = ~fsck.found
    /\ UNCHANGED <<objects, tables, now, server, upload, gc, excused, headOnly, reset, budget>>

FsckKilled ==
    /\ fsck.pc # "idle"
    /\ fsck' = Idle
    /\ UNCHANGED <<objects, tables, now, server, upload, gc, history, budget>>

----------------------------------------------------------------------------
Next ==
    \/ \E u \in Uploaders :
           \/ \E l \in Library : Sync(u, l)
           \/ \E p \in Posts : Post(u, p) \/ PostBlocks(u, p)
           \/ CheckExist(u) \/ CommitFileBlocks(u) \/ PutCommit(u) \/ UpdateHead(u)
           \/ upload[u].pc = "write" /\ \E o \in upload[u].todo :
                  RecvFs(u, o) \/ PutBlock(u, o) \/ WriteChunk(u, o) \/ WriteSeafile(u, o) \/ SaveDir(u, o)
    \/ StopServer \/ StartServer \/ WriteBack \/ PowerFailure \/ Tick
    \/ \E d \in Days : SetHistoryLimit(d)
    \/ \E dry \in BOOLEAN : Collect(dry)
    \/ Populate \/ Populated \/ EndCollect \/ \E b \in Blocks : Sweep(b)
    \/ FsckStart \/ FsckHead \/ FsckTree \/ FsckBranch \/ FsckCommit
    \/ FsckIOError \/ FsckEnd \/ FsckKilled

Spec == Init /\ [][Next]_vars

----------------------------------------------------------------------------
\* The head of a library and of each of its virtual repos has all its objects, whole, whatever
\* uploads, collections and interrupted steps came before (populate_gc_index_for_repo,
\* check_existed_file_blocks). Excused are what power failures took, and what a collection
\* took from a client that had asked for it before.
HeadWhole == \A l \in Library : Objects(Root(l)) \ excused \subseteq whole

\* The history from RepoValidSince on can be restored, and so can what the first commit before
\* it holds (the comment in traverse_commit); not where fsck has set the head back.
HistoryWhole ==
    \A l \in Library \ reset :
        LET chain == ChainFrom(head[l])
            Time(i) == commits[chain[i]].time
            Kept(i) == IF l \in headOnly
                       THEN \A j \in 2..i : Time(j) > validSince[l] /\ Time(j) <= Time(j - 1)
                       ELSE \A j \in 2..(i - 1) : Time(j) >= validSince[l]
        IN \A i \in DOMAIN chain : Kept(i) => Objects(commits[chain[i]].root) \ excused \subseteq whole

\* When a repair finds nothing, every head is saved and whole (check_and_recover_repo).
CleanBill == clean => \A l \in Library : commits[head[l]].saved /\ Objects(Root(l)) \subseteq whole

\* A repair leaves what is not damaged in its place (fsck_check_dir_recursive).
Keeps ==
    fsck.pc \in {"branch", "commit"} =>
        \A v \in Range(Visits(commits[fsck.from].root, << >>)) :
            Objects(v.file) \subseteq whole => FileAt(fsck.root, v.path) = v.file

\* The comment at fsck.c:412, "check and recover repo, for damaged file or folder set it empty":
\* what the repair makes the head has nothing damaged or missing in it.
Heals == fsck.pc = "commit" => Objects(fsck.root) \subseteq whole
=============================================================================
