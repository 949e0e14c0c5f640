---------------------------- MODULE MCVirtualRepo ----------------------------
(* Small instances of VirtualRepo for TLC. *)
EXTENDS VirtualRepo

CONSTANTS d1, d2, d3, f, v0, v1, v2, r1, r2

\* one directory with one file, shared
OneDir == [d \in Dirs |-> IF d = d1 THEN {[name |-> <<f>>, id |-> v0]} ELSE Absent]
OneRepo == [r \in VRepos |-> IF r = r1 THEN d1 ELSE Absent]
=============================================================================
