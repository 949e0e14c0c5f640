---------------------------- MODULE MCLibraryLife ----------------------------
(* Small instances of LibraryLife for TLC. *)
EXTENDS LibraryLife

CONSTANTS a

\* every virtual repo is a directory of the library a
OneOrigin == [v \in VRepos |-> a]
=============================================================================
