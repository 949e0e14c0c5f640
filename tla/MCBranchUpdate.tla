--------------------------- MODULE MCBranchUpdate ---------------------------
(* Small instances of BranchUpdate for TLC. *)
EXTENDS BranchUpdate

CONSTANTS p1, p2, f, g, v0, v1, v2, n1, n2, u1

OneFile == {[name |-> <<f>>, id |-> v0]}
=============================================================================
