------------------------------ MODULE MCCommits ------------------------------
(***************************************************************************)
(* BranchUpdate with two sets of requests. In "files" file operations of the  *)
(* web API and sync clients race for the head. In "faults" the library is      *)
(* renamed, rolled back and deleted as well, with database errors and crashes. *)
(***************************************************************************)
EXTENDS BranchUpdate, TLC

CONSTANTS p1, p2, u1, f, v0, v1, v2, n1, n2

VARIABLE side

OneFile == {[name |-> <<f>>, id |-> v0]}

Faults == INSTANCE BranchUpdate WITH
    FileIds <- {v0}, RepoNames <- {n1, n2}, Kinds <- {"del", "edit", "describe", "revert", "delete"},
    MaxTime <- 4, MaxFaults <- 1

CommitsInit == side \in {"files", "faults"} /\ Init

CommitsNext ==
    /\ UNCHANGED side
    /\ \/ side = "faults" /\ Faults!Next
       \/ side = "files" /\ Next

CommitsSpec == CommitsInit /\ [][CommitsNext]_<<side, vars>>

\* Threads are alike.
Symmetry == Permutations(Procs)

=============================================================================
