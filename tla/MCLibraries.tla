----------------------------- MODULE MCLibraries -----------------------------
(***************************************************************************)
(* Libraries. In "life" one is created, deleted and restored, with a virtual  *)
(* repo of it. In "trees" users work on the files of two: one has a directory *)
(* with a file, the other an empty directory and a file. In "merge" all trees *)
(* with one name at the top and two below are merged.                         *)
(***************************************************************************)
EXTENDS LibraryLife, LibraryOps, TLC

CONSTANTS a, A, B, d, f, g, v0, v1, v2, v3, Theirs

VARIABLES side, base, mine, remote, merged, done

OneOrigin == [v \in VRepos |-> a]

\* threads are interchangeable
Symmetry == Permutations(Workers)

TwoTrees == A :> {Entry(<< <<d>> >>, DirId), Entry(<< <<d>>, <<f>> >>, v1)}
            @@ B :> {Entry(<< <<d>> >>, DirId), Entry(<< <<f>> >>, v2)}
FromTo == {<<A, B>>}

Merges == INSTANCE MergeTrees WITH
    Names <- {d}, SubNames <- {f, g}, FileIds <- {v0, v1, v2}, head <- mine

treeVars == <<base, mine, remote, merged, done>>

NoTrees == base = {} /\ mine = {} /\ remote = {} /\ merged = {} /\ done = FALSE

LibrariesInit ==
    /\ side \in {"life", "trees", "merge"}
    /\ Init /\ OpsInit
    /\ side # "life" => created = {}
    /\ IF side = "merge" THEN Merges!Init ELSE NoTrees

LibrariesNext ==
    /\ UNCHANGED side
    /\ \/ side = "life" /\ Next /\ UNCHANGED <<opsVars, treeVars>>
       \/ side = "trees" /\ OpsNext /\ UNCHANGED <<vars, treeVars>>
       \/ side = "merge" /\ Merges!Next /\ UNCHANGED <<vars, opsVars>>

LibrariesSpec == LibrariesInit /\ [][LibrariesNext]_<<side, vars, opsVars, treeVars>>

----------------------------------------------------------------------------
\* Where no name is a file on one side and a directory on another, the recursive merge is the
\* merge of all paths (seaf_merge_trees).
AgreesWithFlatMerge == Merges!AgreesWithFlatMerge

\* A merge loses no version of a file, and no name is there twice (merge_entries,
\* merge_directories, gen_conflict_path).
NoVersionLost == Merges!NoVersionLost
=============================================================================
