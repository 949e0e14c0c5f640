------------------------------ MODULE PathTrees ------------------------------
(***************************************************************************)
(* Directory trees as sets of entries: a path and the id of the object it   *)
(* names (common/fs-mgr.c, and the functions of server/repo-op.c that        *)
(* rewrite a tree).  A path is a sequence of names; the root has the empty   *)
(* path and no entry.  A name is itself a sequence: <<n>>, <<n, 1>> for the   *)
(* "n (1)" of generate_unique_filename(), <<n, id>> for a conflict copy.      *)
(* The id of a directory is not kept: two directories are the same when the   *)
(* trees below them are.                                                      *)
(*                                                                            *)
(* A node is a tree with its own root: the entry with the empty path.         *)
(***************************************************************************)
EXTENDS Naturals, FiniteSets, SequencesExt

CONSTANTS
    FileIds,        \* ids of file objects
    DirId,            \* the id every directory has here
    LastSuffix      \* 99 in the code, and a bound on the numbers that a revert tries

Entry(p, x) == [path |-> p, id |-> x]

Leaf(x) == {Entry(<<>>, x)}
EmptyDir == Leaf(DirId)

Name(n) == <<n>>

\* post_file() and others: the path of an entry of a directory
Child(dir, n) == Append(dir, n)

----------------------------------------------------------------------------
\* Looking up

Has(t, p)    == p = <<>> \/ \E e \in t : e.path = p
HasDir(t, p) == p = <<>> \/ Entry(p, DirId) \in t
HasFile(t, p) == \E e \in t : e.path = p /\ e.id # DirId

\* seaf_fs_manager_get_dirent_by_path(): the object at a path
NodeAt(t, p) ==
    {Entry(SubSeq(e.path, Len(p) + 1, Len(e.path)), e.id) :
        e \in {x \in t : IsPrefix(p, x.path)}}
    \cup (IF p = <<>> THEN EmptyDir ELSE {})

IsDirNode(node) == Entry(<<>>, DirId) \in node

\* the names in a directory
NamesIn(t, dir) ==
    {Last(e.path) : e \in {x \in t : x.path # <<>> /\ Front(x.path) = dir}}

\* the file versions of a tree or a node
FilesOf(t) == {e.id : e \in t} \ {DirId}

DirsOf(t) == {<<>>} \cup {e.path : e \in {x \in t : x.id = DirId}}

\* count_dir_files()
CountFiles(t) == Cardinality({e \in t : e.id # DirId})

----------------------------------------------------------------------------
\* Rewriting

Prune(t, p) == {e \in t : ~IsPrefix(p, e.path)}

Graft(t, p, node) == t \cup {Entry(p \o e.path, e.id) : e \in node}

Numbered(n, i) == IF i = 0 THEN n ELSE Append(n, i)

\* the first of some numbers
First(numbers) == CHOOSE i \in numbers : \A j \in numbers : i <= j

FreeSuffixes(t, dir, n) ==
    LET names == NamesIn(t, dir) IN {i \in 0..LastSuffix : Numbered(n, i) \notin names}

UniqueName(t, dir, n) == Numbered(n, First(FreeSuffixes(t, dir, n)))

\* add_new_entries() for one dirent: an entry of that name is replaced,
\* whatever it is, or the new one gets a free name
AddEntry(t, dir, n, node, replace) ==
    IF replace /\ n \in NamesIn(t, dir)
    THEN Graft(Prune(t, Child(dir, n)), Child(dir, n), node)
    ELSE Graft(t, Child(dir, UniqueName(t, dir, n)), node)

\* post_multi_files_recursive(): the tree with none of the items, with the first and so on;
\* an item is a name and a node
Adding(t, dir, items, replace) ==
    LET added[k \in 0..Len(items)] ==
            IF k = 0 THEN t
            ELSE AddEntry(added[k - 1], dir, items[k].name, items[k].node, replace)
    IN  added

AddEntries(t, dir, items, replace) == Adding(t, dir, items, replace)[Len(items)]

\* the request fails when no name is free
Room(t, dir, items, replace) ==
    replace \/ \A k \in 1..Len(items) :
        FreeSuffixes(Adding(t, dir, items, replace)[k - 1], dir, items[k].name) # {}

\* del_file_recursive(), with a list of names
DelEntries(t, dir, names) ==
    {e \in t : ~ \E n \in names : IsPrefix(Child(dir, n), e.path)}

\* put_file_recursive()
PutFile(t, p, x) == {e \in t : e.path # p} \cup {Entry(p, x)}

\* rename_file_recursive(): all entries but the one, then that one under its
\* new name
Rename(t, dir, n, m) ==
    Graft(Prune(t, Child(dir, n)), Child(dir, m), NodeAt(t, Child(dir, n)))

----------------------------------------------------------------------------
\* seaf_merge_trees() on such trees, where no name is a file in one tree and a
\* directory in another; MergeTrees shows that it is the recursive merge.

ConflictName(p, x) == Front(p) \o <<Append(Last(p), x)>>

Contested(b, h, e) == \E x \in h \ b : x.path = e.path /\ x # e

MergedFiles(b, h, r) ==
    LET fb == {e \in b : e.id # DirId}
        fh == {e \in h : e.id # DirId}
        fr == {e \in r : e.id # DirId}
    IN  (fh \cap fr) \cup (fh \ fb)
        \cup {IF Contested(fb, fh, e) THEN Entry(ConflictName(e.path, e.id), e.id)
              ELSE e : e \in fr \ fb}

\* A directory stays if both have it or one has made it; one that a side
\* deleted stays if the other side changed anything in it.
StaysDir(b, h, r, d) ==
    \/ HasDir(h, d) /\ HasDir(r, d)
    \/ ~HasDir(b, d) /\ (HasDir(h, d) \/ HasDir(r, d))
    \/ HasDir(h, d) /\ ~HasDir(r, d) /\ NodeAt(h, d) # NodeAt(b, d)
    \/ HasDir(r, d) /\ ~HasDir(h, d) /\ NodeAt(r, d) # NodeAt(b, d)

MergePaths(b, h, r) ==
    MergedFiles(b, h, r)
    \cup {Entry(d, DirId) :
            d \in {x \in DirsOf(h) \cup DirsOf(r) : x # <<>> /\ StaysDir(b, h, r, x)}}

=============================================================================
