------------------------------ MODULE MCMerging ------------------------------
(***************************************************************************)
(* Merges between a library and its shared directories. In "merge" both       *)
(* sides change, tasks fail and the server crashes. In "share" a second        *)
(* directory is shared meanwhile. In "rename" two shared directories are       *)
(* renamed and deleted. In "pool" only the scheduler works, for three repos.   *)
(***************************************************************************)
EXTENDS MergeScheduler, TLC

CONSTANTS r1, r2, d1, d2, d3, f, v0, v1, v2, Absent, Origin

VARIABLES side, tree, prev, status, vroot, row, waiting, started, task, pending, toAdd, ops,
    faults, removed, home

Shared == {[name |-> <<f>>, id |-> v0]}
Two == d1 :> Shared @@ d2 :> Shared
Three == Two @@ d3 :> Absent

Merge == INSTANCE VirtualRepo WITH
    Names <- {f}, FileIds <- {v0, v1, v2}, LastSuffix <- 0, Dirs <- {d1},
    VRepos <- {r1, r2}, InitTree <- d1 :> Shared, InitPath <- r1 :> d1 @@ r2 :> Absent,
    Kinds <- {"origin", "virtual"}, OriginWaits <- "merging", MaxOps <- 3,
    MaxFaults <- 1, queue <- waiting, running <- started

Share == INSTANCE VirtualRepo WITH
    Names <- {f}, FileIds <- {v0, v1}, LastSuffix <- 0, Dirs <- {d1, d2},
    VRepos <- {r1, r2}, InitTree <- Two, InitPath <- r1 :> d1 @@ r2 :> Absent,
    Kinds <- {"origin", "virtual", "create"}, OriginWaits <- "merging", MaxOps <- 3,
    MaxFaults <- 0, queue <- waiting, running <- started

Rename == INSTANCE VirtualRepo WITH
    Names <- {f}, FileIds <- {v0, v1}, LastSuffix <- 0, Dirs <- {d1, d2, d3},
    VRepos <- {r1, r2}, InitTree <- Three, InitPath <- r1 :> d1 @@ r2 :> d2,
    Kinds <- {"origin", "rename", "rmdir"}, OriginWaits <- "queued", MaxOps <- 3,
    MaxFaults <- 0, queue <- waiting, running <- started

shareVars == <<tree, prev, status, vroot, row, waiting, started, task, pending, toAdd, ops,
    faults, removed, home>>

MergingInit ==
    /\ side \in {"merge", "share", "rename", "pool"}
    /\ Init
    /\ side \in {"merge", "pool"} => Merge!Init
    /\ side = "share" => Share!Init
    /\ side = "rename" => Rename!Init

MergingNext ==
    /\ UNCHANGED side
    /\ \/ side = "merge" /\ Merge!Next /\ UNCHANGED vars
       \/ side = "share" /\ Share!Next /\ UNCHANGED vars
       \/ side = "rename" /\ Rename!Next /\ UNCHANGED vars
       \/ side = "pool" /\ Next /\ UNCHANGED shareVars

\* The fairness of VirtualRepo and of MergeScheduler. The tasks are the same in "merge" and
\* in "share"; no property of "rename" needs fairness.
MergingSpec ==
    /\ MergingInit /\ [][MergingNext]_<<side, vars, shareVars>>
    /\ WF_shareVars(Share!Schedule)
    /\ \A v \in {r1, r2} : /\ WF_shareVars(side = "merge" /\ Merge!TaskStep(v))
                          /\ WF_shareVars(side = "share" /\ Share!TaskStep(v))
                          /\ WF_shareVars(Share!AddMergeTask(v))
    /\ \A v \in {r1, r2, Origin} : WF_shareVars(Share!MergeVirtualRepo(v))
    /\ WF_vars(ScheduleMergeTasks(FALSE))
    /\ \A v \in VRepos : WF_vars(TaskEnds(v)) /\ WF_vars(MergeDone(v))

----------------------------------------------------------------------------
\* No version of a file is lost in merges (merge_virtual_repo).
NoChangeLost == [][/\ side = "merge" => Merge!NothingLost
                   /\ side = "share" => Share!NothingLost]_<<removed, vroot, tree>>

\* Directory and virtual repo meet (merge_virtual_repo, add_merge_task).
Converges ==
    /\ side = "merge" => Merge!Converges
    /\ side = "share" => Share!Converges

\* Virtual repos stay when their directory is renamed (handle_missing_virtual_repo).
KeptWhenRenamed == [][side = "rename" => Rename!DeletedByUsers]_<<status, home>>

\* The tasks run as MergeScheduler says (schedule_merge_tasks).
SchedulerSpec == Merge!SchedulerSpec
=============================================================================
