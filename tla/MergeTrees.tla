----------------------------- MODULE MergeTrees -----------------------------
(***************************************************************************)
(* The three-way merge of directory trees, common/merge-new.c: entries of   *)
(* one name are merged by merge_entries() if any of the three is a file,    *)
(* then by merge_directories() if any is a directory, which recurses.       *)
(*                                                                          *)
(* A directory is a set of dirents; the id of a file or directory is a hash *)
(* of its content, so here two objects have the same id iff they are equal. *)
(* The order of the entries, by name, does not matter for the result.       *)
(***************************************************************************)
EXTENDS FileMerge, FiniteSets

CONSTANTS
    Theirs,     \* stands for "SFConflict <user> <time>" in a directory name
    SubNames    \* bound: the trees have the names Names at the top and
                \* SubNames below

VARIABLES base, head, remote, merged, done

vars == <<base, head, remote, merged, done>>

File(v)   == [type |-> "file", id |-> v]
Dir(ents) == [type |-> "dir", ents |-> ents]
Absent    == [type |-> "none"]

Entry(n, node) == [name |-> n, node |-> node]

\* the object a directory has under a name: dents[i]
At(dir, n) ==
    IF \E e \in dir : e.name = n THEN (CHOOSE e \in dir : e.name = n).node
    ELSE Absent

IsFile(x) == x.type = "file"
IsDir(x)  == x.type = "dir"

Ents(x) == IF IsDir(x) THEN x.ents ELSE {}

----------------------------------------------------------------------------
\* merge_entries(), for the objects b, h, r that the three have under a name

\* head and remote have the file, with different contents, and both differ
\* from a file of base; or the name is a directory on the side of head
FileRenamed(b, h, r) ==
    /\ IsFile(r)
    /\ \/ IsFile(h) /\ h # r /\ ~(IsFile(b) /\ b \in {h, r})
       \/ IsDir(h) /\ IsFile(b) /\ b # r
       \/ IsDir(h) /\ ~IsFile(b) /\ b # h

\* remote has a directory where head has a file that it changed or added
DirRenamed(b, h, r) ==
    /\ IsDir(r) /\ IsFile(h)
    /\ IF IsFile(b) THEN b # h ELSE b # r

HeadFileStays(b, h, r) ==
    /\ IsFile(h)
    /\ CASE IsFile(r)               -> h = r \/ b # h
         [] ~IsFile(r) /\ IsFile(b) -> b # h
         [] OTHER                   -> TRUE

\* In a conflict only head's version stays, against NoVersionLost
RemoteFileComesUncontested(b, h, r) ==
    /\ IsFile(r) /\ ~IsFile(h)
    /\ IsFile(b) => b # r

RemoteFileComes(b, h, r) ==
    /\ IsFile(r) /\ h # r
    /\ IsFile(b) => b # r

MergeEntries(n, b, h, r) ==
    (IF HeadFileStays(b, h, r) THEN {Entry(n, h)} ELSE {})
    \cup (IF RemoteFileComes(b, h, r)
          THEN {Entry(IF FileRenamed(b, h, r) THEN Append(n, r.id) ELSE n, r)}
          ELSE {})

----------------------------------------------------------------------------
\* merge_directories() and merge_trees_recursive()

\* A directory that remote deleted goes though head changed it (case 3),
\* against AgreesWithFlatMerge
MustRecurseNot3(b, h, r) ==
    \/ IsDir(b) /\ ~IsDir(h) /\ IsDir(r) /\ b # r
    \/ IsDir(h) /\ IsDir(r) /\ h # r /\ b \notin {h, r}

\* cases 3, 5, 6 and 7 that end in the recursive merge
MustRecurse(b, h, r) ==
    \/ IsDir(b) /\ IsDir(h) /\ ~IsDir(r) /\ b # h
    \/ IsDir(b) /\ ~IsDir(h) /\ IsDir(r) /\ b # r
    \/ IsDir(h) /\ IsDir(r) /\ h # r /\ b \notin {h, r}

\* the directory that is taken as it is (cases 2, 4, 6, 7), or none
Taken(b, h, r) ==
    CASE IsDir(h) /\ IsDir(r)   -> IF b = h THEN r ELSE h
      [] IsDir(h) /\ ~IsDir(b)  -> h
      [] IsDir(r) /\ ~IsDir(b)  -> r
      [] OTHER                  -> Absent

RECURSIVE MergeDirs(_, _, _)

MergeDirectories(n, b, h, r) ==
    LET name == IF DirRenamed(b, h, r) THEN Append(n, Theirs) ELSE n
    IN  IF MustRecurse(b, h, r)
        THEN {Entry(name, Dir(MergeDirs(Ents(b), Ents(h), Ents(r))))}
        ELSE IF Taken(b, h, r) = Absent THEN {}
        ELSE {Entry(name, Taken(b, h, r))}

MergeDirs(bd, hd, rd) ==
    UNION {LET b == At(bd, n)
               h == At(hd, n)
               r == At(rd, n)
           IN  MergeEntries(n, b, h, r) \cup MergeDirectories(n, b, h, r)
           : n \in {e.name : e \in bd \cup hd \cup rd}}

----------------------------------------------------------------------------
\* All merges of small trees

Dirs(names, nodes) ==
    {{Entry(<<n>>, t[n]) : n \in {m \in names : t[m] # Absent}}
        : t \in [names -> nodes \cup {Absent}]}

Files == {File(v) : v \in FileIds}

SubDirs == Dirs(SubNames, Files \cup {Dir({})})

Trees == Dirs(Names, Files \cup {Dir(d) : d \in SubDirs})

Init ==
    /\ base \in Trees /\ head \in Trees /\ remote \in Trees
    /\ merged = {} /\ done = FALSE

\* seaf_merge_trees()
Merge ==
    /\ ~done
    /\ merged' = MergeDirs(base, head, remote)
    /\ done' = TRUE
    /\ UNCHANGED <<base, head, remote>>

Next == Merge

Spec == Init /\ [][Next]_vars

----------------------------------------------------------------------------
\* Properties

\* The files of a tree, under their full paths, as FileMerge has them.
RECURSIVE Flat(_)
Flat(dir) ==
    UNION {IF IsFile(e.node) THEN {[name |-> e.name, id |-> e.node.id]}
           ELSE {[name |-> e.name \o f.name, id |-> f.id] : f \in Flat(e.node.ents)}
           : e \in dir}

\* A name is a file in one tree and a directory in another.
RECURSIVE Clash(_, _)
Clash(d1, d2) ==
    \E e \in d1, f \in d2 :
        /\ e.name = f.name
        /\ \/ e.node.type # f.node.type
           \/ IsDir(e.node) /\ IsDir(f.node) /\ Clash(e.node.ents, f.node.ents)

PathTree == INSTANCE PathTrees WITH DirId <- "dir", LastSuffix <- 0

\* The files and directories of a tree, as PathTrees has them.
RECURSIVE Paths(_)
Paths(dir) ==
    UNION {IF IsFile(e.node) THEN {PathTree!Entry(<<e.name>>, e.node.id)}
           ELSE {PathTree!Entry(<<e.name>>, "dir")}
                \cup {PathTree!Entry(<<e.name>> \o x.path, x.id) : x \in Paths(e.node.ents)}
           : e \in dir}

\* Without such clashes the recursive merge, with its short cuts for whole
\* directories, gives the files that the merge of all paths as one flat
\* directory gives, and keeps the directories that MergePaths keeps.  This is
\* why the trees of BranchUpdate can be flat and those of LibraryOps sets of
\* paths.
AgreesWithFlatMerge ==
    done /\ ~Clash(base, head) /\ ~Clash(base, remote) /\ ~Clash(head, remote) =>
        /\ Flat(merged) = MergeFiles(Flat(base), Flat(head), Flat(remote))
        /\ Paths(merged) = PathTree!MergePaths(Paths(base), Paths(head), Paths(remote))

\* No directory has two entries of one name.
RECURSIVE UniqueIn(_)
UniqueIn(dir) ==
    /\ \A e, f \in dir : e.name = f.name => e = f
    /\ \A e \in dir : IsDir(e.node) => UniqueIn(e.node.ents)

\* Files and directories may clash; still no version that head or remote made
\* is lost, head's versions keep their paths, and every name is there once.
NoVersionLost ==
    done => /\ Flat(head) \ Flat(base) \subseteq Flat(merged)
            /\ \A e \in Flat(remote) \ Flat(base) :
                  \E f \in Flat(merged) : f.id = e.id /\ f.name[1] = e.name[1]
            /\ UniqueIn(merged)
=============================================================================
