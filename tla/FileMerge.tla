------------------------------ MODULE FileMerge ------------------------------
(***************************************************************************)
(* The three-way merge of one directory of files, merge_entries() of       *)
(* common/merge-new.c, in the form the branch protocol needs: a directory   *)
(* is the set of its dirents, a dirent is a name and the id of the file     *)
(* object (its content).  Names are sequences so that the name made for a   *)
(* conflicting version ("f (SFConflict user time)") extends the name it     *)
(* comes from; the id of a version stands for its modifier and mtime.       *)
(* Sub-directories and directory/file conflicts are in module MergeTrees.   *)
(***************************************************************************)
EXTENDS Naturals, Sequences

CONSTANTS
    Names,      \* base names of files
    FileIds     \* ids of file objects

Path == Seq(Names \cup FileIds)

Dirent == [name : Path, id : FileIds]

PlainName(n) == <<n>>

\* gen_conflict_path(): a conflicting version is kept under another name.
ConflictCopy(e) == [name |-> Append(e.name, e.id), id |-> e.id]

Named(dir, n) == {e \in dir : e.name = n}

\* remote's version of a file that head changed too, to something else.
Conflicting(base, head, e) ==
    \E x \in head \ base : x.name = e.name /\ x # e

\* A merge that drops remote's version in a conflict, against NoFileLost
MergeFilesOurs(base, head, remote) ==
    (head \cap remote) \cup (head \ base)
    \cup {e \in remote \ base : ~Conflicting(base, head, e)}

\* Dirents of head stay if remote has them as well or if they are not base's
\* (added or changed in head, possibly deleted in remote); a dirent of base
\* that remote changed or deleted goes.  Dirents remote added or changed come
\* in, under their own name or, in a conflict, under the conflict name.
MergeFiles(base, head, remote) ==
    LET theirs == remote \ base
    IN  (head \cap remote)
        \cup (head \ base)
        \cup {e \in theirs : ~Conflicting(base, head, e)}
        \cup {ConflictCopy(e) : e \in {x \in theirs : Conflicting(base, head, x)}}
=============================================================================
