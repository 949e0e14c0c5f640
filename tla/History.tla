------------------------------ MODULE History ------------------------------
(***************************************************************************)
(* The history of a library and what the server reads from it: the list of   *)
(* commits, the revisions of a file, the trash, the time files were last      *)
(* modified, and the difference of two commits.  common/commit-mgr.c walks    *)
(* the graph of commits from a head, the newest first; the readers of          *)
(* server/repo-op.c and common/rpc-service.c are callbacks of that walk.  A     *)
(* reader asks page by page while the library changes, and a commit of a        *)
(* client has the time of its clock, so a parent may be newer than its child.   *)
(*                                                                              *)
(* Trees are those of PathTrees.  A commit is known by its index.               *)
(***************************************************************************)
EXTENDS PathTrees

CONSTANTS
    InitTree,       \* the tree of the first commit
    Files,          \* paths that requests name
    Contents, EmptyId, \* ids of files; EmptyId is that of empty files
    ClientClocks,   \* bound: times that clients give to commits
    Limits,         \* bound: commits per page of the trash
    ScanFrom,       \* bound: commits there are when the trash is first read
    CleanTimes,     \* bound: times before which the history is cleaned; 0 is all
    MaxCommits      \* bound: commits

VARIABLES
    commits,        \* all commits; p1 or p2 is 0 where there is no parent
    head,           \* the head of the library
    side,           \* a commit that a client has not sent yet, or 0
    validSince,     \* RepoValidSince, or -1
    scan            \* the trash as one user reads it

vars == <<commits, head, side, validSince, scan>>

Now == Len(commits)     \* the clock of the server, in commits

Ids == 1..Now
None == 0

NoScan == [pc |-> "none"]

Commit(p1, p2, time, tree, kind) ==
    [p1 |-> p1, p2 |-> p2, time |-> time, tree |-> tree, kind |-> kind]

Init ==
    /\ commits = <<Commit(None, None, 1, InitTree, "other")>>
    /\ head = 1
    /\ side = None
    /\ validSince = -1
    /\ scan = NoScan

TreeOf(c) == commits[c].tree

Parents(c) == {commits[c].p1, commits[c].p2} \ {None}

----------------------------------------------------------------------------
\* The walk.  The list of commits to visit is sorted, newest first; a commit
\* goes before those of the same second.

\* insert_parent_commit()
InsertCommit(s, c) ==
    IF c = None \/ c \in s.seen THEN s
    ELSE LET Newer(d) == commits[d].time > commits[c].time
             newer == SelectSeq(s.list, Newer)
         IN  [s EXCEPT !.list = newer \o <<c>>
                                  \o SubSeq(@, Len(newer) + 1, Len(@)),
                       !.seen = @ \cup {c}]

InsertParents(s, c) == InsertCommit(InsertCommit(s, commits[c].p1), commits[c].p2)

\* Pages end where branches are open, against PagesComplete
PageEndsAnywhere(limit, count, list) == limit > 0 /\ count >= limit

PageEnds(limit, count, list) == limit > 0 /\ count >= limit /\ Len(list) <= 1

Started(from, data) ==
    [list |-> <<from>>, seen |-> {from}, data |-> data, count |-> 0, ended |-> FALSE]

\* What follows in the loop when the callback has made data of the first commit
Onward(s, data, limit) ==
    LET rest == [s EXCEPT !.list = Tail(@), !.data = data]
        more == [InsertParents(rest, Head(s.list)) EXCEPT !.count = @ + 1]
    IN  IF data.stop THEN rest
        ELSE [more EXCEPT !.ended = PageEnds(limit, more.count, more.list)]

\* seaf_commit_manager_traverse_commit_tree_with_limit(), and without one.
\* Read(data, c) is the callback: a record with field stop. PagesAgree shows
\* that so many turns are enough.
Walk(from, Read(_, _), data, limit) ==
    LET Turn(s, i) == IF s.list = <<>> \/ s.ended THEN s
                      ELSE Onward(s, Read(s.data, Head(s.list)), limit)
    IN  FoldLeft(Turn, Started(from, data), [i \in 1..2 * Now |-> i])

\* next_start_commit
NextStart(s) == IF s.list = <<>> THEN None ELSE Head(s.list)

----------------------------------------------------------------------------
ReadAll(data, c) == [data EXCEPT !.out = Append(@, c)]

\* all commits of a head
CommitTree(c) == Range(Walk(c, ReadAll, [stop |-> FALSE, out |-> <<>>], 0).data.out)

----------------------------------------------------------------------------
\* The difference of two commits (common/diff-simple.c)

Diff(st, p, node) == [st |-> st, path |-> p, new |-> p, node |-> node]

FileAt(t, p) == {e \in t : e.path = p /\ e.id # DirId}

\* twoway_diff_files() at a path
DiffFiles(t1, t2, p) ==
    CASE FileAt(t1, p) = FileAt(t2, p) -> {}
      [] FileAt(t1, p) = {} -> {Diff("added", p, NodeAt(t2, p))}
      [] FileAt(t2, p) = {} -> {Diff("deleted", p, NodeAt(t1, p))}
      [] OTHER -> {Diff("modified", p, NodeAt(t2, p))}

\* Folding is forgotten, against DiffExplains
DiffDirsUnfolded(fold, t1, t2, p) ==
    CASE ~HasDir(t1, p) /\ NodeAt(t2, p) = EmptyDir -> {Diff("dir added", p, EmptyDir)}
      [] HasDir(t1, p) /\ ~HasDir(t2, p) -> {Diff("dir deleted", p, NodeAt(t1, p))}
      [] OTHER -> {}

\* twoway_diff_dirs() at a path
DiffDirs(fold, t1, t2, p) ==
    CASE ~HasDir(t1, p) /\ HasDir(t2, p) /\ (fold \/ NodeAt(t2, p) = EmptyDir) ->
            {Diff("dir added", p, NodeAt(t2, p))}
      [] HasDir(t1, p) /\ ~HasDir(t2, p) -> {Diff("dir deleted", p, NodeAt(t1, p))}
      [] OTHER -> {}

\* diff_trees(): what is below a directory that only one has is left out where
\* directories are folded
DiffTrees(fold, t1, t2) ==
    LET shown == {p \in {e.path : e \in t1 \cup t2} :
                    fold => HasDir(t1, Front(p)) /\ HasDir(t2, Front(p))}
    IN  UNION {DiffFiles(t1, t2, p) \cup DiffDirs(fold, t1, t2, p) : p \in shown}

IsEmptyNode(node) == node \in {EmptyDir, Leaf(EmptyId)}

WithNode(ds, st, node) == {x \in ds : x.st = st /\ x.node = node}

\* diff_resolve_renames(): one pair for a content, and for the empty content
\* only if nothing else was added or deleted with it
Renames(ds, del, add, ren) ==
    {LET d == CHOOSE x \in WithNode(ds, del, node) : TRUE
         a == CHOOSE x \in WithNode(ds, add, node) : TRUE
     IN  [d EXCEPT !.st = ren, !.new = a.path] :
        node \in {x.node : x \in {y \in ds :
            /\ WithNode(ds, del, y.node) # {} /\ WithNode(ds, add, y.node) # {}
            /\ IsEmptyNode(y.node) =>
                 /\ Cardinality(WithNode(ds, del, y.node)) = 1
                 /\ Cardinality(WithNode(ds, add, y.node)) = 1}}}

ResolveRenames(ds) ==
    LET rs == Renames(ds, "deleted", "added", "renamed")
              \cup Renames(ds, "dir deleted", "dir added", "dir renamed")
    IN  {d \in ds : ~ \E r \in rs :
            \/ d.st \in {"deleted", "dir deleted"} /\ d.path = r.path
            \/ d.st \in {"added", "dir added"} /\ d.path = r.new} \cup rs

\* diff_commits()
DiffCommits(fold, t1, t2) == ResolveRenames(DiffTrees(fold, t1, t2))

\* threeway_diff_files(): what a merge has that neither parent has
MergeDiffFiles(m, p1, p2, p) ==
    CASE FileAt(m, p) \in {FileAt(p1, p), FileAt(p2, p)} -> {}
      [] FileAt(m, p) = {} /\ (FileAt(p1, p) = {} \/ FileAt(p2, p) = {}) -> {}
      [] FileAt(m, p) = {} -> {Diff("deleted", p, NodeAt(p1, p))}
      [] FileAt(p1, p) = {} /\ FileAt(p2, p) = {} -> {Diff("added", p, NodeAt(m, p))}
      [] OTHER -> {Diff("modified", p, NodeAt(m, p))}

\* diff_merge()
DiffMerge(m, p1, p2) ==
    ResolveRenames(UNION {MergeDiffFiles(m, p1, p2, p) :
                            p \in {e.path : e \in m \cup p1 \cup p2}})

\* seaf_repo_diff() with no old commit
DiffOf(fold, c) ==
    IF commits[c].p1 = None THEN {}
    ELSE IF commits[c].p2 = None THEN DiffCommits(fold, TreeOf(commits[c].p1), TreeOf(c))
    ELSE DiffMerge(TreeOf(c), TreeOf(commits[c].p1), TreeOf(commits[c].p2))

\* diff_results_to_description() mentions a deletion
KindOf(ds) ==
    IF \E d \in ds : d.st \in {"deleted", "dir deleted"} THEN "delete" ELSE "other"

----------------------------------------------------------------------------
\* What is kept of the history

CONSTANT KeepDays       \* RepoHistoryLimit: all is kept if it is negative

Later(a, b) == IF a >= b THEN a ELSE b

\* seaf_repo_manager_get_repo_truncate_time()
TruncateTime ==
    CASE KeepDays > 0 -> Later(Now - KeepDays, validSince)
      [] KeepDays < 0 -> validSince
      [] OTHER -> 0

----------------------------------------------------------------------------
\* The list of commits: get_commit()

ReadCommit(offset, limit, data, c) ==
    LET counted == [data EXCEPT !.head = TRUE, !.count = @ + 1,
                                !.stop = (TruncateTime = 0),
                                !.out = IF data.count >= offset THEN Append(@, c) ELSE @]
    IN  IF \/ TruncateTime > 0 /\ commits[c].time <= TruncateTime /\ data.head
           \/ limit > 0 /\ data.count >= offset + limit
        THEN [data EXCEPT !.stop = TRUE, !.head = TRUE]
        ELSE counted

\* seafile_get_commit_list()
CommitList(offset, limit) ==
    LET Read(data, c) == ReadCommit(offset, limit, data, c)
    IN  Walk(head, Read, [stop |-> FALSE, head |-> FALSE, count |-> 0, out |-> <<>>],
             0).data.out

----------------------------------------------------------------------------
\* The revisions of a file

\* One parent is compared, against FileHistoryRight
SameAsFirst(c, p) == FileAt(TreeOf(commits[c].p1), p) = FileAt(TreeOf(c), p)

SameAsParent(c, p) == \E q \in Parents(c) : FileAt(TreeOf(q), p) = FileAt(TreeOf(c), p)

\* collect_file_revisions(); get_file_info() finds the file of a commit
ReadRevision(p, data, c) ==
    LET file == FileAt(TreeOf(c), p)
        passed == [data EXCEPT !.stop = FALSE]
        found == [passed EXCEPT !.out = Append(@, c)]
    IN  CASE data.latest /\ TruncateTime = 0 -> [data EXCEPT !.stop = TRUE]
          [] data.latest /\ data.second /\ TruncateTime > 0
             /\ commits[c].time < TruncateTime ->
                [data EXCEPT !.stop = TRUE, !.notFound = TRUE]
          [] file = {} -> [data EXCEPT !.stop = TRUE, !.notFound = TRUE]
          [] file # {} /\ commits[c].p1 = None -> found
          [] SameAsParent(c, p) -> passed
          [] OTHER -> [found EXCEPT !.latest = TRUE, !.second = data.latest]

\* the parent that has the old path of a file that this commit renamed, and
\* that path: detect_rename_revision()
RenamedFrom(c, p) ==
    LET old == {d.path : d \in {x \in DiffOf(FALSE, c) : x.st = "renamed" /\ x.new = p}}
    IN  {<<q, o>> \in Parents(c) \X old :
            q = commits[c].p1 \/ ~Has(TreeOf(commits[c].p1), o)}

NoPage == [from |-> None, path |-> <<>>]

\* seaf_repo_manager_list_file_revisions(): the revisions of a page, and what
\* to ask for the next page
RevisionPage(from, p, limit) ==
    LET Read(data, c) == ReadRevision(p, data, c)
        s == Walk(from, Read, [stop |-> FALSE, latest |-> FALSE, second |-> FALSE,
                               notFound |-> FALSE, out |-> <<>>], limit)
        renamed == IF s.data.out = <<>> THEN {} ELSE RenamedFrom(Last(s.data.out), p)
        next == IF renamed # {}
                THEN LET r == CHOOSE x \in renamed : TRUE
                     IN  [from |-> r[1], path |-> r[2]]
                ELSE IF s.data.notFound THEN NoPage
                ELSE [from |-> NextStart(s), path |-> p]
    IN  [revisions |-> s.data.out, next |-> next]

\* All pages, asked for one after the other
Revisions(p, limit) ==
    LET Ask(r, i) ==
            IF r.next.from = None THEN r
            ELSE LET page == RevisionPage(r.next.from, r.next.path, limit)
                 IN  [revisions |-> r.revisions \o page.revisions, next |-> page.next]
    IN  FoldLeft(Ask, [revisions |-> <<>>, next |-> [from |-> head, path |-> p]],
                 [i \in 1..2 * MaxCommits |-> i]).revisions

----------------------------------------------------------------------------
\* When the entries of a directory were last modified

\* check_non_existing_files(): what has not the time of the commit is not in it
Missing(time, c) == {n \in DOMAIN time : time[n] # commits[c].time}

\* collect_files_last_modified(): an entry that differs or is missing is done
ReadModified(dir, now, data, c) ==
    IF ~HasDir(TreeOf(c), dir) THEN [data EXCEPT !.stop = TRUE]
    ELSE LET t     == TreeOf(c)
             there == data.left \cap NamesIn(t, dir)
             same  == {n \in there : NodeAt(t, Child(dir, n)) = now[n]}
             time  == [n \in DOMAIN now |-> IF n \in same THEN commits[c].time
                                            ELSE data.time[n]]
             left  == (data.left \ (there \ same)) \ Missing(time, c)
         IN  [stop |-> left = {}, left |-> left, time |-> time]

\* seaf_repo_manager_calc_files_last_modified(), without a limit
LastModified(dir) ==
    LET names == NamesIn(TreeOf(head), dir)
        now   == [n \in names |-> NodeAt(TreeOf(head), Child(dir, n))]
        Read(data, c) == ReadModified(dir, now, data, c)
    IN  Walk(head, Read, [stop |-> FALSE, left |-> names,
                          time |-> [n \in names |-> commits[head].time]], 0).data.time

----------------------------------------------------------------------------
\* The trash

SameKind(t, e) == \E x \in t : x.path = e.path /\ (x.id = DirId) = (e.id = DirId)

\* find_deleted_recursive(): a deleted directory stands for all it contains
Deleted(child, parent, base) ==
    {e \in TreeOf(parent) :
        /\ IsStrictPrefix(base, e.path)
        /\ HasDir(TreeOf(child), Front(e.path))
        /\ ~SameKind(TreeOf(child), e)}

\* add_deleted_entry(): the first entry of a path stays
AddDeleted(out, child, parent, base) ==
    out \cup {[path |-> e.path, id |-> e.id, commit |-> parent,
               time |-> commits[child].time] :
                e \in {x \in Deleted(child, parent, base) :
                        \A o \in out : o.path # x.path}}

AddDeletedIfAny(out, child, parent, base) ==
    IF parent = None THEN out ELSE AddDeleted(out, child, parent, base)

\* collect_deleted()
ReadDeleted(base, after, data, c) ==
    CASE commits[c].time <= after -> [data EXCEPT !.stop = TRUE]
      [] commits[c].time > after /\ commits[c].kind = "delete" ->
            [stop |-> FALSE,
             out |-> AddDeletedIfAny(AddDeletedIfAny(data.out, c, commits[c].p1, base),
                                     c, commits[c].p2, base)]
      [] OTHER -> [data EXCEPT !.stop = FALSE]

\* scan_commits_for_collect_deleted(): a page of the trash
TrashPage(from, base, limit) ==
    LET Read(data, c) == ReadDeleted(base, TruncateTime, data, c)
        s == Walk(from, Read, [stop |-> FALSE, out |-> {}], limit)
    IN  [out |-> s.data.out, next |-> NextStart(s)]

\* seaf_repo_manager_get_deleted_entries(): what the head has again is left
\* out.  The user keeps the first entry of a path.
ReadPage(s) ==
    LET page == TrashPage(s.next, s.base, s.limit)
        new  == {e \in page.out : ~SameKind(TreeOf(head), e)
                                  /\ \A g \in s.got : g.path # e.path}
    IN  IF TruncateTime = 0
        THEN [s EXCEPT !.pc = "none kept"]
        ELSE [s EXCEPT !.pc = IF page.next = None THEN "done" ELSE "more",
                       !.next = page.next, !.got = @ \cup new,
                       !.had = @ \cup {e \in TreeOf(head) : IsStrictPrefix(s.base, e.path)}]

StartScan(base, limit) ==
    /\ scan = NoScan
    /\ Len(commits) >= ScanFrom
    /\ scan' = ReadPage([pc |-> "more", base |-> base, limit |-> limit, next |-> head,
                         got |-> {}, had |-> {}, from |-> head])
    /\ UNCHANGED <<commits, head, side, validSince>>

NextPage ==
    /\ scan.pc = "more"
    /\ scan' = ReadPage(scan)
    /\ UNCHANGED <<commits, head, side, validSince>>

----------------------------------------------------------------------------
\* How the history grows

DelEntry(t, p) == Prune(t, p)

\* the changes of a tree that operations make, and whether their description
\* says that they delete
Changes(t) ==
    {[tree |-> PutFile(t, p, x), kind |-> "other"] :
        <<p, x>> \in {<<q, y>> \in Files \X Contents :
                        HasDir(t, Front(q)) /\ ~HasDir(t, q) /\ Entry(q, y) \notin t}}
    \cup {[tree |-> DelEntry(t, e.path), kind |-> "delete"] : e \in t}
    \cup {[tree |-> Graft(Prune(t, p), q, NodeAt(t, p)), kind |-> "other"] :
            <<p, q>> \in {<<a, b>> \in Files \X Files :
                            HasFile(t, a) /\ ~Has(t, b) /\ HasDir(t, Front(b))}}

AddCommit(c) == commits' = Append(commits, c)

\* An operation of the server, by gen_new_commit()
Change(ch) ==
    /\ AddCommit(Commit(head, None, Now + 1, ch.tree, ch.kind))
    /\ head' = Len(commits')
    /\ UNCHANGED <<side, validSince, scan>>

\* seaf_repo_manager_revert_on_server()
RevertOnServer(c) ==
    /\ c # head
    /\ AddCommit(Commit(head, None, Now + 1, TreeOf(c), "other"))
    /\ head' = Len(commits')
    /\ UNCHANGED <<side, validSince, scan>>

\* A client that has commit b commits a change, with the time of its own clock
ClientCommit(b, ch, time) ==
    /\ side = None
    /\ AddCommit(Commit(b, None, time, ch.tree,
                        KindOf(DiffCommits(TRUE, TreeOf(b), ch.tree))))
    /\ side' = Len(commits')
    /\ UNCHANGED <<head, validSince, scan>>

\* fast_forward_or_merge() where the head is the parent of the commit
FastForward ==
    /\ side # None
    /\ commits[side].p1 = head
    /\ head' = side
    /\ side' = None
    /\ UNCHANGED <<commits, validSince, scan>>

\* and where it is not; the description is that of gen_merge_description()
MergeSide ==
    LET base == commits[side].p1
        tree == MergePaths(TreeOf(base), TreeOf(head), TreeOf(side))
    IN  /\ side # None
        /\ Len(commits) < MaxCommits
        /\ base # head
        /\ AddCommit(Commit(head, side, Now + 1, tree,
                            KindOf(DiffMerge(tree, TreeOf(head), TreeOf(side)))))
        /\ head' = Len(commits')
        /\ side' = None
        /\ UNCHANGED <<validSince, scan>>

\* seafile_clean_up_repo_history(), update_valid_since_time(): all before a
\* time, or all before the head
CleanUpHistory(time) ==
    LET new == IF time > 0 THEN time ELSE commits[head].time
    IN  /\ new > validSince
        /\ validSince' = new
        /\ UNCHANGED <<commits, head, side, scan>>

\* The bound on commits comes first, for the speed of TLC.
Next ==
    \/ /\ Len(commits) < MaxCommits
       /\ \/ \E ch \in Changes(TreeOf(head)) : Change(ch)
          \/ \E c \in CommitTree(head) : RevertOnServer(c)
          \/ \E b \in CommitTree(head) : \E ch \in Changes(TreeOf(b)), t \in ClientClocks :
                ClientCommit(b, ch, t)
    \/ FastForward
    \/ MergeSide
    \/ \E t \in CleanTimes : CleanUpHistory(t)
    \/ \E base \in DirsOf(TreeOf(head)), limit \in Limits : StartScan(base, limit)
    \/ NextPage

Spec == Init /\ [][Next]_vars

----------------------------------------------------------------------------
\* The commits reachable from c through commits that are Ok
Reachable(c, Ok(_)) ==
    LET Step(cs, i) == cs \cup UNION {{q \in Parents(d) : Ok(q)} : d \in cs}
    IN  FoldLeft(Step, {c} \cap {d \in Ids : Ok(d)}, [i \in Ids |-> i])

Ancestors(c) == Reachable(c, LAMBDA d : TRUE)

NoMerge(c) == \A d \in Ancestors(c) : commits[d].p2 = None

NoSkew(c) == \A d \in Ancestors(c) : \A q \in Parents(d) : commits[q].time < commits[d].time

\* seafile_get_commit_list() pages by counting: whatever the clocks of clients
\* and the merges, the pages together are the list without pages, where no
\* commit is missing or comes twice.
PagesAgree ==
    /\ \A limit \in 1..2 :
        FoldLeft(LAMBDA l, i : l \o CommitList((i - 1) * limit, limit), <<>>,
                 [i \in Ids |-> i]) = CommitList(0, 0)
    /\ TruncateTime < 0 => /\ Range(CommitList(0, 0)) = Ancestors(head)
                           /\ IsInjective(CommitList(0, 0))

\* diff_commits() with and without folding of directories: the old tree of
\* the newest commit with the changes that the diff names, renames included, is the new tree.
Apply(t, ds) ==
    LET gone(e) == \E d \in ds : d.st \notin {"added", "dir added"} /\ IsPrefix(d.path, e.path)
        put == UNION {Graft({}, d.new, d.node) :
                        d \in {x \in ds : x.st \notin {"deleted", "dir deleted"}}}
        dirs == UNION {{Entry(SubSeq(e.path, 1, n), DirId) : n \in 1..Len(e.path) - 1} :
                        e \in put}
    IN  {e \in t : ~gone(e)} \cup put \cup dirs

DiffExplains ==
    LET c == Len(commits) IN commits[c].p1 # None =>
        \A fold \in BOOLEAN, q \in Parents(c) :
            Apply(TreeOf(q), DiffCommits(fold, TreeOf(q), TreeOf(c))) = TreeOf(c)

\* The commits of the list of revisions as one reads the history by hand: back
\* from the head along the file, where a rename continues with the old path
RevisionsByHand(p) ==
    LET Step(r, i) ==
            IF r.at = None THEN r
            ELSE LET c == r.at
                     q == commits[c].p1
                     same == q # None /\ FileAt(TreeOf(q), r.path) = FileAt(TreeOf(c), r.path)
                     old == IF q = None THEN {} ELSE RenamedFrom(c, r.path)
                     on == q # None /\ HasFile(TreeOf(q), r.path)
                 IN  [out |-> IF same THEN r.out ELSE Append(r.out, c),
                      at |-> IF on \/ old # {} THEN q ELSE None,
                      path |-> IF on \/ old = {} THEN r.path ELSE (CHOOSE x \in old : TRUE)[2]]
    IN  FoldLeft(Step, [out |-> <<>>, at |-> head, path |-> p], [i \in Ids |-> i]).out

\* seaf_repo_manager_list_file_revisions(): with merges and clocks that differ,
\* a page without a limit has every commit that changed the file and is reached
\* through commits that have it; without merges the pages together, of any
\* size, are the revisions of the file back to its creation.
RevisionsComplete ==
    TruncateTime < 0 => \A p \in {x \in Files : HasFile(TreeOf(head), x)} :
        /\ Range(RevisionPage(head, p, 0).revisions)
            = {c \in Reachable(head, LAMBDA d : HasFile(TreeOf(d), p)) :
                \A q \in Parents(c) : FileAt(TreeOf(q), p) # FileAt(TreeOf(c), p)}
        /\ NoMerge(head) => \A limit \in 0..2 : Revisions(p, limit) = RevisionsByHand(p)

\* "for each file, if the file id in that commit is different than its current
\* id, then this file is last modified in the commit previous to that commit"
\* (server/repo-op.c:5724): without merges and with times that differ, each
\* entry has the time of the first commit since which it did not change.
LastModifiedRight ==
    NoMerge(head) /\ Cardinality({commits[c].time : c \in Ancestors(head)})
                        = Cardinality(Ancestors(head)) =>
        \A dir \in DirsOf(TreeOf(head)) : \A n \in NamesIn(TreeOf(head), dir) :
            LET Same(c) == NodeAt(TreeOf(c), Child(dir, n)) = NodeAt(TreeOf(head), Child(dir, n))
                run == Reachable(head, Same)
            IN  LastModified(dir)[n] = commits[CHOOSE c \in run : Parents(c) \cap run = {}].time

\* A user who reads all pages of the trash, of any size and while the library
\* changes, has seen every entry that a deletion removed, unless it was there
\* again; with clocks that agree, as the last deletion of its path left it.
TrashComplete ==
    scan.pc = "done" =>
        \A c \in Reachable(scan.from, LAMBDA d : commits[d].time > TruncateTime) :
            commits[c].kind = "delete" =>
                \A q \in Parents(c) : \A e \in Deleted(c, q, scan.base) :
                    \/ \E h \in scan.had : h.path = e.path
                    \/ \E g \in scan.got :
                        /\ g.path = e.path
                        /\ NoSkew(scan.from) => g.time >= commits[c].time

=============================================================================
