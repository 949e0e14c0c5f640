------------------------------- MODULE DirOps -------------------------------
(***************************************************************************)
(* What one file operation of server/repo-op.c does to the directory it    *)
(* works on.  The recursion of the code down to the directory, and the      *)
(* rewriting of the directories on the way back, do not show here: the tree *)
(* of a library is one directory of files (see FileMerge).  Every operator  *)
(* takes the directory of the commit the operation read and gives the       *)
(* directory of the commit it proposes.                                     *)
(***************************************************************************)
EXTENDS FileMerge

CONSTANT LastSuffix     \* 99 in the code

ASSUME LastSuffixAssumption == LastSuffix \in Nat

Exists(dir, name) == Named(dir, name) # {}

\* generate_unique_filename(): "f", "f (1)", "f (2)", ...: the first that is
\* free, up to LastSuffix; here n, n n, n n n, ...  If none is free the
\* operation fails.
Numbered(n, i) == [j \in 1..(i + 1) |-> n]

FirstFree(dir, n, i) ==
    /\ ~Exists(dir, Numbered(n, i))
    /\ \A j \in 0..(i - 1) : Exists(dir, Numbered(n, j))

\* post_file_recursive() without replace_existed
PostFile(dir, n, i, id) == dir \cup {[name |-> Numbered(n, i), id |-> id]}

\* put_file_recursive(): the dirent of that name gets the new id
PutFile(dir, n, id) ==
    (dir \ Named(dir, PlainName(n))) \cup {[name |-> PlainName(n), id |-> id]}

\* del_file_recursive()
DelFile(dir, n) == dir \ Named(dir, PlainName(n))

\* rename_file_recursive(): all dirents but the renamed one, then that one
\* under its new name
RenameFile(dir, n, m) ==
    DelFile(dir, n)
    \cup {[name |-> PlainName(m), id |-> e.id] : e \in Named(dir, PlainName(n))}
=============================================================================
