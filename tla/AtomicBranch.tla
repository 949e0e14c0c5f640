---------------------------- MODULE AtomicBranch ----------------------------
(***************************************************************************)
(* What the branch of a library promises to those who change it: requests   *)
(* are submitted, and each one takes effect in one step, on the tree the    *)
(* library has at that moment.  There are no commit objects here, no        *)
(* retries, no clock.  BranchUpdate implements this.                        *)
(***************************************************************************)
EXTENDS FileMerge

CONSTANTS Procs, InitTree

VARIABLES
    live,   \* the library exists
    tree,   \* its files
    seen,   \* the trees it has had: what a request may be based on
    job     \* the request each thread works on

vars == <<live, tree, seen, job>>

NoJob == [op |-> "none", base |-> {}, tree |-> {}]

\* write: merge the change from base to tree in; revert: set the tree;
\* keep: change nothing that shows in the tree
Job == [op : {"write", "revert", "keep"}, base : SUBSET Dirent,
        tree : SUBSET Dirent]

Init ==
    /\ live = TRUE /\ tree = InitTree /\ seen = {InitTree}
    /\ job = [p \in Procs |-> NoJob]

Submit(p) ==
    /\ job[p] = NoJob
    /\ job'[p] \in Job
    /\ job'[p].op # "keep" => job'[p].base \in seen
    /\ job'[p].op = "revert" => job'[p].tree \in seen
    /\ job' = [job EXCEPT ![p] = job'[p]]
    /\ UNCHANGED <<live, tree, seen>>

Result(j) ==
    CASE j.op = "write"  -> MergeFiles(j.base, tree, j.tree)
      [] j.op = "revert" -> j.tree
      [] j.op = "keep"   -> tree

\* The request takes effect.  It is over, or stays because the thread did not
\* get the answer of the database and may apply it once more.
Apply(p) ==
    /\ job[p] # NoJob /\ live
    /\ tree' = Result(job[p])
    /\ seen' = seen \cup {tree'}
    /\ job'[p] \in {NoJob, job[p]}
    /\ job' = [job EXCEPT ![p] = job'[p]]
    /\ UNCHANGED live

\* The request is given up.
GiveUp(ps) ==
    /\ job' = [p \in Procs |-> IF p \in ps THEN NoJob ELSE job[p]]
    /\ UNCHANGED <<live, tree, seen>>

Delete ==
    /\ live
    /\ live' = FALSE
    /\ tree' = {}
    /\ UNCHANGED <<seen, job>>

Next ==
    \/ \E p \in Procs : Submit(p) \/ Apply(p) \/ GiveUp({p})
    \/ GiveUp(Procs)
    \/ Delete

Spec == Init /\ [][Next]_vars
=============================================================================
