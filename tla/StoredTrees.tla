---------------------------- MODULE StoredTrees -----------------------------
(***************************************************************************)
(* Objects are named by their content: a file by the blocks it consists of, a *)
(* directory by its entries, so a directory is modelled by the function from  *)
(* its names to what they stand for (common/fs-mgr.c).                        *)
(***************************************************************************)
CONSTANTS
    Blocks, Files, BlocksOf,    \* files, and the blocks of each of them
    Empty                       \* EMPTY_SHA1: the empty file, or directory

RECURSIVE Objects(_)
Objects(o) ==
    IF o = Empty THEN {}
    ELSE IF o \in Files THEN {o} \cup BlocksOf[o]
    ELSE {o} \cup UNION {Objects(o[n]) : n \in DOMAIN o}

Inner(d) == d # Empty /\ d \notin Files
=============================================================================
