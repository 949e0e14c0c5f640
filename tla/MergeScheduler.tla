--------------------------- MODULE MergeScheduler ---------------------------
(***************************************************************************)
(* The scheduler of the merges between shared directories and the library   *)
(* they come from (end of server/virtual-repo.c).  Any thread may ask for    *)
(* the merge of a virtual repo; a timer of the main loop hands queued tasks  *)
(* to a pool of threads (lib/job-mgr.c), not more than MaxRunning and never  *)
(* two for one repo; the end of a task is handled in the main loop as well.  *)
(* queue is shared, under q_lock; only the main loop uses running.           *)
(***************************************************************************)
EXTENDS Naturals, Sequences, FiniteSets

CONSTANTS
    VRepos,         \* ids of virtual repos
    MaxRunning,     \* MAX_RUNNING_TASKS, 5 in the code
    PoolFails       \* may the pool refuse a job (pipe() fails)?

ASSUME SchedulerAssumption == 
    IsFiniteSet(VRepos) /\ MaxRunning \in Nat /\ PoolFails \in BOOLEAN

VARIABLES
    queue,      \* scheduler->queue: the repos of the waiting tasks
    running,    \* scheduler->running: repos with a task in the pool
    active,     \* for each repo, how many tasks run for it in the pool,
    ended       \* and how many have ended, the main loop not knowing yet

vars == <<queue, running, active, ended>>

Queued(q) == {q[i] : i \in 1..Len(q)}

\* add_merge_task()
Added(q, v) == IF v \in Queued(q) THEN q ELSE Append(q, v)

\* The tick starts tasks whatever runs, against OneTaskPerRepo
CanStartAny(q, run, k) ==
    /\ k <= Len(q)
    /\ Cardinality(run) + k <= MaxRunning

\* The first k tasks of the queue can all be started in one tick.
CanStart(q, run, k) ==
    /\ k <= Len(q)
    /\ Cardinality(run) + k <= MaxRunning
    /\ \A i \in 1..k : q[i] \notin run

\* A tick that forgets the task it stopped at, against NoTaskDropped
AfterStartDropped(q, k, back) ==
    SubSeq(q, k + 1 + (IF back THEN 1 ELSE 0), Len(q))

\* The queue after k tasks were started; the next one went back to its end,
\* if the tick stopped at a task it could not start.
AfterStart(q, k, back) ==
    IF back THEN Append(SubSeq(q, k + 2, Len(q)), q[k + 1])
    ELSE SubSeq(q, k + 1, Len(q))

\* schedule_merge_tasks() starts k tasks.  It ends when the queue is empty or
\* the pool full; when a repo has a task that runs; or when the pool could not
\* take the job (failed).
Schedule(k, failed) ==
    /\ CanStart(queue, running, k)
    /\ LET stopped == k < Len(queue) /\ Cardinality(running) + k < MaxRunning
       IN  /\ failed => stopped
           /\ stopped /\ ~failed => queue[k + 1] \in running
           /\ queue' = AfterStart(queue, k, stopped)
    /\ running' = running \cup {queue[i] : i \in 1..k}

----------------------------------------------------------------------------
Init ==
    /\ queue = <<>> /\ running = {}
    /\ active = [v \in VRepos |-> 0]
    /\ ended = [v \in VRepos |-> 0]

AddMergeTask(v) ==
    /\ queue' = Added(queue, v)
    /\ UNCHANGED <<running, active, ended>>

ScheduleMergeTasks(failed) ==
    \E k \in 0..Len(queue) :
        /\ Schedule(k, failed)
        /\ active' = [v \in VRepos |->
                        active[v] + Cardinality({i \in 1..k : queue[i] = v})]
        /\ UNCHANGED ended

\* job_thread_wrapper(): the task is over
TaskEnds(v) ==
    /\ active[v] > 0
    /\ active' = [active EXCEPT ![v] = @ - 1]
    /\ ended' = [ended EXCEPT ![v] = @ + 1]
    /\ UNCHANGED <<queue, running>>

\* The repo stays marked as running, against Served
MergeDoneForgets(v) ==
    /\ ended[v] > 0
    /\ ended' = [ended EXCEPT ![v] = @ - 1]
    /\ UNCHANGED <<queue, running, active>>

\* job_done_cb(), merge_virtual_repo_done()
MergeDone(v) ==
    /\ ended[v] > 0
    /\ ended' = [ended EXCEPT ![v] = @ - 1]
    /\ running' = running \ {v}
    /\ UNCHANGED <<queue, active>>

\* The server stops: queue, pool and table are in its memory.
ServerStops ==
    /\ queue' = <<>> /\ running' = {}
    /\ active' = [v \in VRepos |-> 0] /\ ended' = [v \in VRepos |-> 0]

Next ==
    \/ ServerStops
    \/ \E v \in VRepos : AddMergeTask(v) \/ TaskEnds(v) \/ MergeDone(v)
    \/ ScheduleMergeTasks(FALSE)
    \/ PoolFails /\ ScheduleMergeTasks(TRUE)

Spec == Init /\ [][Next]_vars

\* The timer ticks, tasks end and the main loop runs.
FairSpec ==
    /\ Spec
    /\ WF_vars(ScheduleMergeTasks(FALSE))
    /\ \A v \in VRepos : WF_vars(TaskEnds(v)) /\ WF_vars(MergeDone(v))

----------------------------------------------------------------------------
\* Properties

\* The types of the variables.
TypeOK ==
    /\ queue \in Seq(VRepos)
    /\ running \subseteq VRepos
    /\ active \in [VRepos -> Nat] /\ ended \in [VRepos -> Nat]

\* At any time at most one task works on a repo: the tasks of a repo read and
\* set its base commit without a lock and count on that.
OneTaskPerRepo == \A v \in VRepos : active[v] + ended[v] <= 1

\* The pool is never given more than MaxRunning tasks, so that a task that
\* running counts really has a thread.
PoolBound == Cardinality({v \in VRepos : active[v] + ended[v] > 0}) <= MaxRunning

\* A repo waits at most once, whatever was asked while its task ran.
NoTaskTwice == Cardinality(Queued(queue)) = Len(queue)

\* What was asked for is not dropped while the server runs: a repo leaves the queue
\* only when a task for it starts, hence after the change that asked for the merge.
NoTaskDropped ==
    [][~ServerStops => \A v \in Queued(queue) :
         v \in Queued(queue') \/ active'[v] = active[v] + 1]_vars

\* A task that waits is started in the end, also when tasks for its repo and
\* for others keep coming: that a tick stops at the first task it cannot start
\* starves nobody.  Only a pool that refuses jobs again and again may.
Served ==
    <>[][~ScheduleMergeTasks(TRUE)]_vars =>
        \A v \in VRepos : v \in Queued(queue) ~> v \notin Queued(queue)
=============================================================================
