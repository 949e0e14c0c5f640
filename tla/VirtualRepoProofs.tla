-------------------------- MODULE VirtualRepoProofs --------------------------
(***************************************************************************)
(* VirtualRepo implements MergeScheduler, for any virtual repos, directories *)
(* and files, with failures and crashes: what MergeSchedulerProofs proves of  *)
(* the scheduler holds of the merge tasks of shared directories.              *)
(***************************************************************************)
EXTENDS VirtualRepo, FiniteSetTheorems, TLAPS

\* No repo waits twice.
Distinct(q) == \A i, j \in 1..Len(q) : q[i] = q[j] => i = j

\* A repo of which a task is in the pool, or has ended there.
HasTask(v) == task[v].pc \notin {"none", "create"}

Types ==
    /\ queue \in Seq(VRepos) /\ Distinct(queue)
    /\ running \subseteq VRepos /\ toAdd \subseteq VRepos
    /\ DOMAIN task = VRepos /\ \A v \in VRepos : "pc" \in DOMAIN task[v]
    /\ DOMAIN row = VRepos
    /\ status \in [VRepos -> {"new", "live", "gone"}]

\* Nobody asks for the merge of a repo that is not made, and none is made twice: so
\* the thread that makes a repo does not meet a task of it.
NewOK ==
    \A v \in VRepos :
        /\ task[v].pc = "create" => status[v] = "new"
        /\ status[v] = "new" =>
              /\ row[v] = Absent /\ v \notin toAdd /\ v \notin Sched!Queued(queue)
              /\ ~HasTask(v)

\* The table of the main loop knows the tasks.
RunningOK == \A v \in VRepos : v \in running <=> HasTask(v)

SchedInv == Types /\ NewOK /\ RunningOK

----------------------------------------------------------------------------
\* The queue

\* A request that is added does not double one that waits.
LEMMA AddedDistinct ==
    ASSUME NEW q \in Seq(VRepos), Distinct(q), NEW v \in VRepos
    PROVE  /\ Sched!Added(q, v) \in Seq(VRepos)
           /\ Distinct(Sched!Added(q, v))
           /\ Sched!Queued(Sched!Added(q, v)) \subseteq Sched!Queued(q) \cup {v}
<1>1. CASE v \in Sched!Queued(q)
    BY <1>1 DEF Sched!Added
<1>2. CASE v \notin Sched!Queued(q)
    <2>1. /\ Append(q, v) \in Seq(VRepos) /\ Len(Append(q, v)) = Len(q) + 1
          /\ \A i \in 1..Len(q) : Append(q, v)[i] = q[i]
          /\ Append(q, v)[Len(q) + 1] = v
        OBVIOUS
    <2>2. \A i \in 1..Len(q) : q[i] # v
        BY <1>2 DEF Sched!Queued
    <2>3. Distinct(Append(q, v))
        BY <2>1, <2>2 DEF Distinct
    <2>4. Sched!Queued(Append(q, v)) \subseteq Sched!Queued(q) \cup {v}
        BY <2>1 DEF Sched!Queued
    <2> QED
        BY <1>2, <2>1, <2>3, <2>4 DEF Sched!Added
<1> QED
    BY <1>1, <1>2

\* After a tick the rest of the queue is left, in another order perhaps.
LEMMA AfterStartDistinct ==
    ASSUME NEW q \in Seq(VRepos), Distinct(q), NEW k \in 0..Len(q),
           NEW back \in BOOLEAN, back => k < Len(q)
    PROVE  /\ Sched!AfterStart(q, k, back) \in Seq(VRepos)
           /\ Distinct(Sched!AfterStart(q, k, back))
           /\ Sched!Queued(Sched!AfterStart(q, k, back)) \subseteq Sched!Queued(q)
<1>1. \A i \in 1..Len(q) : q[i] \in VRepos
    OBVIOUS
<1>2. CASE ~back
    <2> DEFINE r == SubSeq(q, k + 1, Len(q))
    <2>1. /\ r \in Seq(VRepos) /\ Len(r) = Len(q) - k
          /\ \A i \in 1..(Len(q) - k) : r[i] = q[k + i]
        OBVIOUS
    <2>2. Sched!AfterStart(q, k, back) = r
        BY <1>2 DEF Sched!AfterStart
    <2> HIDE DEF r
    <2>3. \A i \in 1..Len(r) : k + i \in 1..Len(q) /\ r[i] = q[k + i]
        BY <2>1
    <2>4. Distinct(r)
        BY <2>1, <2>3 DEF Distinct
    <2>5. Sched!Queued(r) \subseteq Sched!Queued(q)
        BY <2>3 DEF Sched!Queued
    <2> QED
        BY <2>1, <2>2, <2>4, <2>5
<1>3. CASE back
    <2> DEFINE s == SubSeq(q, k + 2, Len(q))
               r == Append(s, q[k + 1])
               g(i) == IF i = Len(q) - k THEN k + 1 ELSE k + 1 + i
    <2>1. /\ s \in Seq(VRepos) /\ Len(s) = Len(q) - k - 1
          /\ \A i \in 1..(Len(q) - k - 1) : s[i] = q[k + 1 + i]
        BY <1>3
    <2> HIDE DEF s
    <2>2. k + 1 \in 1..Len(q)
        BY <1>3
    <2>3. /\ r \in Seq(VRepos) /\ Len(r) = Len(q) - k
          /\ \A i \in 1..(Len(q) - k - 1) : r[i] = q[k + 1 + i]
          /\ r[Len(q) - k] = q[k + 1]
        BY <1>1, <2>1, <2>2
    <2>4. Sched!AfterStart(q, k, back) = r
        BY <1>3 DEF Sched!AfterStart, s
    <2> HIDE DEF r
    <2>5. ASSUME NEW i \in 1..Len(r) PROVE g(i) \in 1..Len(q) /\ r[i] = q[g(i)]
        <3>1. CASE i = Len(q) - k
            BY <1>3, <2>3, <3>1
        <3>2. CASE i # Len(q) - k
            <4>1. i \in 1..(Len(q) - k - 1)
                <5>1. Len(q) \in Nat /\ Len(r) = Len(q) - k
                    BY <2>3
                <5> QED
                    BY <1>3, <3>2, <5>1
            <4> QED
                BY <1>3, <2>3, <3>2, <4>1
        <3> QED
            BY <3>1, <3>2
    <2>6. \A i, j \in 1..Len(r) : g(i) = g(j) => i = j
        BY <1>3, <2>3
    <2> HIDE DEF g
    <2>7. Distinct(r)
        BY <2>5, <2>6 DEF Distinct
    <2>8. Sched!Queued(r) \subseteq Sched!Queued(q)
        BY <2>5 DEF Sched!Queued
    <2> QED
        BY <2>3, <2>4, <2>7, <2>8
<1> QED
    BY <1>2, <1>3

\* How often a repo is among the first k of the queue.
LEMMA StartedOnce ==
    ASSUME NEW q \in Seq(VRepos), Distinct(q), NEW k \in 0..Len(q), NEW v \in VRepos
    PROVE  Cardinality({i \in 1..k : q[i] = v}) = IF v \in {q[i] : i \in 1..k} THEN 1 ELSE 0
<1>1. CASE v \notin {q[i] : i \in 1..k}
    <2>1. {i \in 1..k : q[i] = v} = {}
        BY <1>1
    <2> QED
        BY <1>1, <2>1, FS_EmptySet
<1>2. CASE v \in {q[i] : i \in 1..k}
    <2>1. PICK i \in 1..k : q[i] = v
        BY <1>2
    <2>2. {j \in 1..k : q[j] = v} = {i}
        BY <2>1 DEF Distinct
    <2> QED
        BY <1>2, <2>2, FS_Singleton
<1> QED
    BY <1>1, <1>2

----------------------------------------------------------------------------
\* The steps

\* A library has no merge tasks at the beginning.
LEMMA SchedStarts == Init => SchedInv
<1> SUFFICES ASSUME Init PROVE SchedInv
    OBVIOUS
<1>1. \A v \in VRepos : task[v] = NoTask
    BY DEF Init
<1>2. NoTask.pc = "none" /\ "pc" \in DOMAIN NoTask
    BY DEF NoTask
<1>3. queue = <<>> /\ running = {} /\ toAdd = {}
    BY DEF Init
<1>4. Types
    BY <1>1, <1>2, <1>3 DEF Init, Types, Distinct
<1>5. NewOK
    BY <1>1, <1>2, <1>3 DEF Init, NewOK, HasTask, Sched!Queued
<1>6. RunningOK
    BY <1>1, <1>2, <1>3 DEF RunningOK, HasTask
<1> QED
    BY <1>4, <1>5, <1>6 DEF SchedInv

\* A step of one task, which stays a task: the rest of the invariant is about rows
\* and about what waits.
LEMMA TaskKept ==
    ASSUME SchedInv, NEW v \in VRepos, NEW t,
           task' = [task EXCEPT ![v] = t], "pc" \in DOMAIN t,
           HasTask(v), t.pc \notin {"none", "create"},
           UNCHANGED <<queue, running>>, toAdd' \subseteq toAdd \cup Rows,
           DOMAIN row' = VRepos, \A w \in VRepos : row[w] = Absent => row'[w] = Absent,
           status' \in [VRepos -> {"new", "live", "gone"}],
           \A w \in VRepos : status'[w] = "new" <=> status[w] = "new"
    PROVE  SchedInv'
<1>1. /\ task'[v] = t /\ \A w \in VRepos \ {v} : task'[w] = task[w]
      /\ DOMAIN task' = VRepos
    BY DEF SchedInv, Types
<1>2. Types'
    BY <1>1 DEF SchedInv, Types, Rows
<1>3. \A w \in VRepos : HasTask(w)' <=> HasTask(w)
    BY <1>1 DEF HasTask
<1>4. \A w \in VRepos : task'[w].pc = "create" <=> task[w].pc = "create"
    BY <1>1 DEF HasTask
<1>5. NewOK'
    BY <1>3, <1>4 DEF SchedInv, NewOK, Rows, Sched!Queued
<1>6. RunningOK'
    BY <1>3 DEF SchedInv, RunningOK
<1> QED
    BY <1>2, <1>5, <1>6 DEF SchedInv

\* What Moved() does: rows and repos come from those that are there.
LEMMA MovedKeeps ==
    ASSUME Types, NewOK, NEW vs \in SUBSET VRepos, NEW new, NEW base, Moved(vs, new, base),
           \A w \in vs : status[w] # "new"
    PROVE  /\ DOMAIN row' = VRepos /\ \A w \in VRepos : row[w] = Absent => row'[w] = Absent
           /\ status' \in [VRepos -> {"new", "live", "gone"}]
           /\ \A w \in VRepos : status'[w] = "new" <=> status[w] = "new"
BY DEF Types, NewOK, Moved

\* The steps of a merge task between its start and its end
Working(v) ==
    \/ ReadVirtual(v) \/ ReadOrigin(v) \/ HandleMissing(v) \/ UpdateVirtual(v)
    \/ UpdateOrigin(v) \/ SetBase(v) \/ Cleanup(v) \/ Enqueue(v) \/ UpdateFails(v)

\* What task v has after such a step.
LEMMA WorkingEffect ==
    ASSUME SchedInv, NEW v \in VRepos, Working(v)
    PROVE  /\ HasTask(v) /\ task[v].pc # "ended"
           /\ \E t : /\ task' = [task EXCEPT ![v] = t] /\ "pc" \in DOMAIN t
                     /\ t.pc \notin {"none", "create"}
<1> DEFINE Result(t) == /\ task' = [task EXCEPT ![v] = t] /\ "pc" \in DOMAIN t
                        /\ t.pc \notin {"none", "create"}
<1>1. "pc" \in DOMAIN task[v]
    BY DEF SchedInv, Types
<1>2. ASSUME NEW t, "pc" \in DOMAIN t
      PROVE  "pc" \in DOMAIN [t EXCEPT !.pc = "ended"] /\ [t EXCEPT !.pc = "ended"].pc = "ended"
    BY <1>2
<1>3. ASSUME End(v) PROVE \E t : Result(t)
    <2>1. Result([task[v] EXCEPT !.pc = "ended"])
        BY <1>1, <1>2, <1>3 DEF End, Go
    <2> QED
        BY <2>1
<1>4. ASSUME NEW t, "pc" \in DOMAIN t, NEW c
      PROVE  "pc" \in DOMAIN Decide(t, c) /\ Decide(t, c).pc \in {"ended", "updateV", "updateO"}
    BY <1>4 DEF Decide
<1>5. CASE ReadVirtual(v)
    <2>1. CASE End(v)
        BY <1>3, <1>5, <2>1 DEF ReadVirtual, HasTask
    <2>2. CASE Go(v, [task[v] EXCEPT !.pc = "origin", !.path = row[v].path,
                                     !.base = row[v].base, !.root = vroot[v]])
        <3>1. Result([task[v] EXCEPT !.pc = "origin", !.path = row[v].path,
                                     !.base = row[v].base, !.root = vroot[v]])
            BY <1>1, <2>2 DEF Go
        <3> QED
            BY <1>5, <3>1 DEF ReadVirtual, HasTask
    <2> QED
        BY <1>5, <2>1, <2>2 DEF ReadVirtual
<1>6. CASE ReadOrigin(v)
    <2> DEFINE t == [task[v] EXCEPT !.otree = tree, !.oprev = prev]
    <2>1. "pc" \in DOMAIN t
        BY <1>1
    <2>2. "pc" \in DOMAIN [t EXCEPT !.pc = "missing"] /\ [t EXCEPT !.pc = "missing"].pc = "missing"
        BY <2>1
    <2>3. Go(v, [t EXCEPT !.pc = "missing"]) \/ Go(v, Decide(t, tree[t.path]))
        BY <1>6 DEF ReadOrigin
    <2>4. Result([t EXCEPT !.pc = "missing"]) \/ Result(Decide(t, tree[t.path]))
        <3> HIDE DEF t
        <3> QED
            BY <1>4, <2>1, <2>2, <2>3 DEF Go
    <2> QED
        BY <1>6, <2>4 DEF ReadOrigin, HasTask
<1>7. CASE HandleMissing(v)
    <2>1. PICK d : Go(v, Decide(task[v], task[v].otree[d])) \/ End(v)
        BY <1>7 DEF HandleMissing
    <2>2. CASE Go(v, Decide(task[v], task[v].otree[d]))
        <3>1. Result(Decide(task[v], task[v].otree[d]))
            BY <1>1, <1>4, <2>2 DEF Go
        <3> QED
            BY <1>7, <3>1 DEF HandleMissing, HasTask
    <2> QED
        BY <1>3, <1>7, <2>1, <2>2 DEF HandleMissing, HasTask
<1>8. CASE UpdateVirtual(v)
    <2> DEFINE t == [task[v] EXCEPT !.pc = IF task[v].both THEN "updateO" ELSE "setBase"]
    <2>1. Go(v, t) \/ End(v)
        BY <1>8 DEF UpdateVirtual
    <2>2. "pc" \in DOMAIN t /\ t.pc \in {"updateO", "setBase"}
        BY <1>1
    <2>3. CASE Go(v, t)
        <3>1. Result(t)
            BY <2>2, <2>3 DEF Go
        <3> QED
            BY <1>8, <3>1 DEF UpdateVirtual, HasTask
    <2> QED
        BY <1>3, <1>8, <2>1, <2>3 DEF UpdateVirtual, HasTask
<1>9. CASE UpdateOrigin(v)
    <2> DEFINE t == [task[v] EXCEPT !.pc = "setBase", !.newbase = tree', !.both = TRUE]
    <2>1. Go(v, t) \/ End(v)
        BY <1>9 DEF UpdateOrigin
    <2>2. "pc" \in DOMAIN t /\ t.pc = "setBase"
        BY <1>1
    <2>3. CASE Go(v, t)
        <3>1. Result(t)
            BY <2>2, <2>3 DEF Go
        <3> QED
            BY <1>9, <3>1 DEF UpdateOrigin, HasTask
    <2> QED
        BY <1>3, <1>9, <2>1, <2>3 DEF UpdateOrigin, HasTask
<1>10. CASE SetBase(v)
    <2>1. CASE Go(v, [task[v] EXCEPT !.pc = "cleanup"])
        <3>1. Result([task[v] EXCEPT !.pc = "cleanup"])
            BY <1>1, <2>1 DEF Go
        <3> QED
            BY <1>10, <3>1 DEF SetBase, HasTask
    <2> QED
        BY <1>3, <1>10, <2>1 DEF SetBase, HasTask
<1>11. CASE Cleanup(v)
    <2>1. Result([task[v] EXCEPT !.pc = "enqueue"])
        BY <1>1, <1>11 DEF Cleanup, Go
    <2> QED
        BY <1>11, <2>1 DEF Cleanup, HasTask
<1>12. CASE Enqueue(v)
    BY <1>3, <1>12 DEF Enqueue, HasTask
<1>13. CASE UpdateFails(v)
    BY <1>3, <1>13 DEF UpdateFails, HasTask
<1> QED
    BY <1>5, <1>6, <1>7, <1>8, <1>9, <1>10, <1>11, <1>12, <1>13 DEF Working

\* What it does to what the scheduler and the requests know.
LEMMA WorkingKeeps ==
    ASSUME SchedInv, NEW v \in VRepos, Working(v)
    PROVE  /\ UNCHANGED <<queue, running>> /\ toAdd' \subseteq toAdd \cup Rows
           /\ DOMAIN row' = VRepos /\ \A w \in VRepos : row[w] = Absent => row'[w] = Absent
           /\ status' \in [VRepos -> {"new", "live", "gone"}]
           /\ \A w \in VRepos : status'[w] = "new" <=> status[w] = "new"
<1>1. Types /\ NewOK
    BY DEF SchedInv
<1>2. status[v] # "new"
    BY WorkingEffect, <1>1 DEF NewOK
<1>3. CASE HandleMissing(v)
    <2>1. PICK d : Moved({v}, [w \in {v} |-> d], task[v].otree)
        BY <1>3 DEF HandleMissing
    <2>2. \A w \in {v} : status[w] # "new"
        BY <1>2
    <2>3. {v} \in SUBSET VRepos
        OBVIOUS
    <2> QED
        BY <1>1, <1>3, <2>1, <2>2, <2>3, MovedKeeps DEF HandleMissing, sched, calls
<1>4. CASE Cleanup(v)
    <2> DEFINE lost == {w \in Rows : tree[row[w].path] = Absent}
    <2>1. PICK new \in [lost -> Dirs \cup {Absent}] : Moved(lost, new, tree)
        BY <1>4 DEF Cleanup
    <2>2. lost \in SUBSET VRepos /\ \A w \in lost : status[w] # "new"
        BY <1>1 DEF Rows, NewOK
    <2> HIDE DEF lost
    <2> QED
        BY <1>1, <1>4, <2>1, <2>2, MovedKeeps DEF Cleanup, sched, calls
<1>5. CASE SetBase(v)
    BY <1>1, <1>5 DEF SetBase, Types, sched, calls
<1>6. CASE Enqueue(v)
    BY <1>1, <1>6 DEF Enqueue, Types, sched, vrepos, Rows
<1>7. CASE ReadVirtual(v) \/ ReadOrigin(v) \/ UpdateVirtual(v) \/ UpdateOrigin(v) \/ UpdateFails(v)
    BY <1>1, <1>7 DEF ReadVirtual, ReadOrigin, UpdateVirtual, UpdateOrigin, UpdateFails, Types,
       sched, calls, vrepos
<1> QED
    BY <1>3, <1>4, <1>5, <1>6, <1>7 DEF Working

\* The invariant after it.
LEMMA WorkingInv ==
    ASSUME SchedInv, NEW v \in VRepos, Working(v)
    PROVE  SchedInv'
<1>1. PICK t : /\ task' = [task EXCEPT ![v] = t] /\ "pc" \in DOMAIN t
               /\ t.pc \notin {"none", "create"}
    BY WorkingEffect
<1>2. HasTask(v)
    BY WorkingEffect
<1> QED
    BY <1>1, <1>2, WorkingKeeps, TaskKept

\* Users change files, rename and delete directories.
Users == \/ \E d \in Dirs : OriginWrite(d) \/ OriginDelete(d)
         \/ \E d, e \in Dirs : OriginRename(d, e)
         \/ \E v \in VRepos : VirtualWrite(v)

\* The threads of users and the making of virtual repos leave the scheduler alone.
LEMMA UsersInv == ASSUME SchedInv, Users PROVE SchedInv' /\ UNCHANGED <<queue, running, task>>
<1>1. UNCHANGED <<queue, running, task, toAdd, row, status>>
    BY DEF Users, OriginWrite, OriginDelete, OriginRename, VirtualWrite, ChangeOrigin, sched, vrepos
<1> QED
    BY <1>1 DEF SchedInv, Types, NewOK, RunningOK, HasTask, Distinct, Sched!Queued

\* create_virtual_repo() begins: the repo is not made.
LEMMA BeginCreateInv ==
    ASSUME SchedInv, NEW v \in VRepos, NEW d \in Dirs, BeginCreate(v, d)
    PROVE  /\ SchedInv' /\ UNCHANGED <<queue, running>>
           /\ task[v].pc = "none" /\ task'[v].pc = "create"
           /\ \A w \in VRepos \ {v} : task'[w] = task[w]
<1>1. /\ task[v].pc = "none" /\ task'[v].pc = "create" /\ "pc" \in DOMAIN task'[v]
      /\ \A w \in VRepos \ {v} : task'[w] = task[w]
      /\ DOMAIN task' = VRepos /\ status[v] = "new"
      /\ UNCHANGED <<queue, running, toAdd, row, status>>
    BY DEF BeginCreate, NoTask, SchedInv, Types, vrepos, sched, calls
<1>2. \A w \in VRepos : HasTask(w)' <=> HasTask(w)
    BY <1>1 DEF HasTask
<1>3. Types'
    BY <1>1 DEF SchedInv, Types
<1>4. NewOK'
    BY <1>1, <1>2 DEF SchedInv, NewOK, Sched!Queued
<1>5. RunningOK'
    BY <1>1, <1>2 DEF SchedInv, RunningOK
<1> QED
    BY <1>1, <1>3, <1>4, <1>5 DEF SchedInv

\* It stores the rows; from now on merges can be asked for.
LEMMA CreateInv ==
    ASSUME SchedInv, NEW v \in VRepos, Create(v)
    PROVE  /\ SchedInv' /\ UNCHANGED <<queue, running>>
           /\ task[v].pc = "create" /\ task'[v].pc = "none"
           /\ \A w \in VRepos \ {v} : task'[w] = task[w]
<1>1. /\ task[v].pc = "create" /\ task'[v].pc = "none" /\ "pc" \in DOMAIN task'[v]
      /\ \A w \in VRepos \ {v} : task'[w] = task[w]
      /\ DOMAIN task' = VRepos /\ DOMAIN row' = VRepos
      /\ status' = [status EXCEPT ![v] = "live"]
      /\ \A w \in VRepos \ {v} : row'[w] = row[w]
      /\ UNCHANGED <<queue, running, toAdd>>
    BY DEF Create, NoTask, SchedInv, Types, sched, calls
<1>2. \A w \in VRepos : HasTask(w)' <=> HasTask(w)
    BY <1>1 DEF HasTask
<1>3. Types'
    BY <1>1 DEF SchedInv, Types
<1>4. NewOK'
    BY <1>1, <1>2 DEF SchedInv, NewOK, Types, Sched!Queued
<1>5. RunningOK'
    BY <1>1, <1>2 DEF SchedInv, RunningOK
<1> QED
    BY <1>1, <1>3, <1>4, <1>5 DEF SchedInv

\* A request asks for the merges of repos that are made.
LEMMA MergeVirtualRepoInv ==
    ASSUME SchedInv, NEW r, MergeVirtualRepo(r)
    PROVE  SchedInv' /\ UNCHANGED <<queue, running, task>>
<1>1. toAdd' \subseteq toAdd \cup Rows /\ UNCHANGED <<queue, running, task, row, status>>
    BY DEF MergeVirtualRepo, vrepos, sched
<1>2. Types'
    BY <1>1 DEF SchedInv, Types, Rows
<1>3. NewOK' /\ RunningOK'
    BY <1>1 DEF SchedInv, NewOK, RunningOK, HasTask, Rows, Sched!Queued
<1> QED
    BY <1>1, <1>2, <1>3 DEF SchedInv

\* add_merge_task()
LEMMA AddMergeTaskInv ==
    ASSUME SchedInv, NEW v \in VRepos, AddMergeTask(v)
    PROVE  SchedInv'
<1>1. /\ v \in toAdd /\ toAdd' = toAdd \ {v} /\ queue' = Sched!Added(queue, v)
      /\ UNCHANGED <<running, task, row, status>>
    BY DEF AddMergeTask, vrepos
<1>2. queue \in Seq(VRepos) /\ Distinct(queue)
    BY DEF SchedInv, Types
<1>3. /\ queue' \in Seq(VRepos) /\ Distinct(queue')
      /\ Sched!Queued(queue') \subseteq Sched!Queued(queue) \cup {v}
    BY <1>1, <1>2, AddedDistinct
<1>4. Types'
    BY <1>1, <1>3 DEF SchedInv, Types
<1>5. status[v] # "new"
    BY <1>1 DEF SchedInv, NewOK
<1>6. NewOK' /\ RunningOK'
    BY <1>1, <1>3, <1>5 DEF SchedInv, NewOK, RunningOK, HasTask
<1> QED
    BY <1>4, <1>6 DEF SchedInv

\* A tick that starts k tasks.
LEMMA ScheduleInv ==
    ASSUME SchedInv, Schedule
    PROVE  /\ SchedInv'
           /\ \E k \in 0..Len(queue) :
                 /\ Sched!Schedule(k, FALSE)
                 /\ \A v \in VRepos :
                       IF v \in {queue[i] : i \in 1..k}
                       THEN task[v].pc = "none" /\ task'[v].pc = "start"
                       ELSE task'[v] = task[v]
<1>1. PICK k \in 0..Len(queue) : Sched!Schedule(k, FALSE)
    BY DEF Schedule
<1> DEFINE T == {queue[i] : i \in 1..k}
<1>2. queue \in Seq(VRepos) /\ Distinct(queue) /\ running \subseteq VRepos
    BY DEF SchedInv, Types
<1>3. T \subseteq VRepos /\ T \subseteq Sched!Queued(queue)
    BY <1>2 DEF Sched!Queued
<1>4. running' = running \cup T /\ T \cap running = {}
    BY <1>1 DEF Sched!Schedule, Sched!CanStart
<1>5. PICK stopped \in BOOLEAN :
        /\ stopped => k < Len(queue)
        /\ queue' = Sched!AfterStart(queue, k, stopped)
    BY <1>1 DEF Sched!Schedule
<1>6. /\ queue' \in Seq(VRepos) /\ Distinct(queue')
      /\ Sched!Queued(queue') \subseteq Sched!Queued(queue)
    BY <1>2, <1>5, AfterStartDistinct
<1>7. /\ task' = [v \in VRepos |-> IF v \in running' \ running
                                   THEN [NoTask EXCEPT !.pc = "start"] ELSE task[v]]
      /\ UNCHANGED <<row, status, toAdd>>
    BY DEF Schedule, vrepos, calls
<1>8. [NoTask EXCEPT !.pc = "start"].pc = "start" /\ "pc" \in DOMAIN [NoTask EXCEPT !.pc = "start"]
    BY DEF NoTask
<1> HIDE DEF T
<1>9. /\ \A v \in T : task'[v].pc = "start" /\ "pc" \in DOMAIN task'[v]
      /\ \A v \in VRepos \ T : task'[v] = task[v]
      /\ DOMAIN task' = VRepos
    BY <1>3, <1>4, <1>7, <1>8
<1>10. \A v \in T : task[v].pc = "none" /\ status[v] # "new"
    BY <1>3, <1>4 DEF SchedInv, NewOK, RunningOK, HasTask
<1>11. Types'
    BY <1>3, <1>4, <1>6, <1>7, <1>9 DEF SchedInv, Types
<1>12. NewOK'
    <2> SUFFICES ASSUME NEW v \in VRepos
                 PROVE  /\ task'[v].pc = "create" => status'[v] = "new"
                        /\ status'[v] = "new" =>
                              /\ row'[v] = Absent /\ v \notin toAdd'
                              /\ v \notin Sched!Queued(queue') /\ ~HasTask(v)'
        BY DEF NewOK
    <2>1. /\ task[v].pc = "create" => status[v] = "new"
          /\ status[v] = "new" =>
                row[v] = Absent /\ v \notin toAdd /\ v \notin Sched!Queued(queue) /\ ~HasTask(v)
        BY DEF SchedInv, NewOK
    <2> QED
        BY <1>6, <1>7, <1>9, <1>10, <2>1 DEF HasTask
<1>13. RunningOK'
    BY <1>3, <1>4, <1>9 DEF SchedInv, RunningOK, HasTask
<1>14. \A v \in VRepos : IF v \in T THEN task[v].pc = "none" /\ task'[v].pc = "start"
                         ELSE task'[v] = task[v]
    BY <1>9, <1>10
<1> QED
    BY <1>1, <1>11, <1>12, <1>13, <1>14 DEF SchedInv, T

\* merge_virtual_repo_done()
LEMMA MergeDoneInv ==
    ASSUME SchedInv, NEW v \in VRepos, MergeDone(v)
    PROVE  /\ SchedInv' /\ task[v].pc = "ended" /\ task'[v].pc = "none"
           /\ \A w \in VRepos \ {v} : task'[w] = task[w]
<1>1. /\ task[v].pc = "ended" /\ task'[v].pc = "none" /\ "pc" \in DOMAIN task'[v]
      /\ \A w \in VRepos \ {v} : task'[w] = task[w]
      /\ DOMAIN task' = VRepos /\ running' = running \ {v}
      /\ UNCHANGED <<queue, toAdd, row, status>>
    BY DEF MergeDone, NoTask, SchedInv, Types, vrepos, calls
<1>2. \A w \in VRepos : HasTask(w)' <=> w # v /\ HasTask(w)
    BY <1>1 DEF HasTask
<1>3. Types'
    BY <1>1 DEF SchedInv, Types
<1>4. NewOK'
    BY <1>1, <1>2 DEF SchedInv, NewOK, Sched!Queued
<1>5. RunningOK'
    BY <1>1, <1>2 DEF SchedInv, RunningOK
<1> QED
    BY <1>1, <1>3, <1>4, <1>5 DEF SchedInv

\* The server stops.
LEMMA CrashInv ==
    ASSUME SchedInv, Crash
    PROVE  /\ SchedInv' /\ queue' = <<>> /\ running' = {}
           /\ \A v \in VRepos : task'[v].pc = "none"
<1>1. /\ queue' = <<>> /\ running' = {} /\ toAdd' = {}
      /\ \A v \in VRepos : task'[v].pc = "none" /\ "pc" \in DOMAIN task'[v]
      /\ DOMAIN task' = VRepos /\ UNCHANGED <<row, status>>
    BY DEF Crash, NoTask, vrepos
<1>2. Types'
    BY <1>1 DEF SchedInv, Types, Distinct
<1>3. NewOK' /\ RunningOK'
    BY <1>1 DEF SchedInv, NewOK, RunningOK, HasTask, Sched!Queued
<1> QED
    BY <1>1, <1>2, <1>3 DEF SchedInv

----------------------------------------------------------------------------
\* The refinement

\* The tasks of a repo that the pool has, as MergeScheduler counts them.
Active(v) == IF task[v].pc \in {"none", "create", "ended"} THEN 0 ELSE 1
Ended(v) == IF task[v].pc = "ended" THEN 1 ELSE 0

\* Steps that the scheduler does not see.
LEMMA SchedStutter ==
    ASSUME UNCHANGED <<queue, running>>,
           \A v \in VRepos : Active(v)' = Active(v) /\ Ended(v)' = Ended(v)
    PROVE  UNCHANGED Sched!vars
<1>1. \A v \in VRepos :
        /\ (IF task'[v].pc \in {"none", "create", "ended"} THEN 0 ELSE 1)
             = IF task[v].pc \in {"none", "create", "ended"} THEN 0 ELSE 1
        /\ (IF task'[v].pc = "ended" THEN 1 ELSE 0) = IF task[v].pc = "ended" THEN 1 ELSE 0
    BY DEF Active, Ended
<1>2. [v \in VRepos |-> IF task'[v].pc \in {"none", "create", "ended"} THEN 0 ELSE 1]
        = [v \in VRepos |-> IF task[v].pc \in {"none", "create", "ended"} THEN 0 ELSE 1]
    BY <1>1
<1>3. [v \in VRepos |-> IF task'[v].pc = "ended" THEN 1 ELSE 0]
        = [v \in VRepos |-> IF task[v].pc = "ended" THEN 1 ELSE 0]
    BY <1>1
<1> QED
    BY <1>2, <1>3 DEF Sched!vars

\* Both count alike.
LEMMA SameCount == ASSUME NEW S PROVE Sched!Cardinality(S) = Cardinality(S)
BY DEF Sched!Cardinality, Cardinality

\* Each step keeps the invariant and is a step of MergeScheduler, or none.
LEMMA SchedStep == SchedInv /\ [Next]_vars => SchedInv' /\ [Sched!Next]_(Sched!vars)
<1> SUFFICES ASSUME SchedInv, [Next]_vars PROVE SchedInv' /\ [Sched!Next]_(Sched!vars)
    OBVIOUS
<1>1. CASE Users
    <2>1. SchedInv' /\ UNCHANGED <<queue, running, task>>
        BY <1>1, UsersInv
    <2>2. UNCHANGED Sched!vars
        BY <2>1, SchedStutter DEF Active, Ended
    <2> QED
        BY <2>1, <2>2
<1>2. ASSUME NEW v \in VRepos, NEW d \in Dirs, BeginCreate(v, d)
      PROVE  SchedInv' /\ [Sched!Next]_(Sched!vars)
    <2>1. UNCHANGED Sched!vars
        BY <1>2, BeginCreateInv, SchedStutter DEF Active, Ended
    <2> QED
        BY <1>2, <2>1, BeginCreateInv
<1>3. ASSUME NEW v \in VRepos, Create(v) PROVE SchedInv' /\ [Sched!Next]_(Sched!vars)
    <2>1. UNCHANGED Sched!vars
        BY <1>3, CreateInv, SchedStutter DEF Active, Ended
    <2> QED
        BY <1>3, <2>1, CreateInv
<1>4. ASSUME NEW r, MergeVirtualRepo(r) PROVE SchedInv' /\ [Sched!Next]_(Sched!vars)
    <2>1. UNCHANGED Sched!vars
        BY <1>4, MergeVirtualRepoInv, SchedStutter DEF Active, Ended
    <2> QED
        BY <1>4, <2>1, MergeVirtualRepoInv
<1>5. ASSUME NEW v \in VRepos, AddMergeTask(v) PROVE SchedInv' /\ [Sched!Next]_(Sched!vars)
    <2>1. Sched!AddMergeTask(v)
        BY <1>5 DEF AddMergeTask, Sched!AddMergeTask
    <2> QED
        BY <1>5, <2>1, AddMergeTaskInv DEF Sched!Next
<1>6. ASSUME NEW v \in VRepos, Working(v) PROVE SchedInv' /\ [Sched!Next]_(Sched!vars)
    <2>1. PICK t : /\ task' = [task EXCEPT ![v] = t] /\ "pc" \in DOMAIN t
                   /\ t.pc \notin {"none", "create"}
        BY <1>6, WorkingEffect
    <2>2. /\ task[v].pc \notin {"none", "create", "ended"}
          /\ UNCHANGED <<queue, running>>
        BY <1>6, WorkingEffect, WorkingKeeps DEF HasTask
    <2>3. task'[v].pc = t.pc /\ \A w \in VRepos \ {v} : task'[w] = task[w]
        BY <2>1 DEF SchedInv, Types
    <2>4. CASE t.pc # "ended"
        <3>1. UNCHANGED Sched!vars
            BY <2>1, <2>2, <2>3, <2>4, SchedStutter DEF Active, Ended
        <3> QED
            BY <1>6, <3>1, WorkingInv
    <2>5. CASE t.pc = "ended"
        <3> DEFINE a == [w \in VRepos |-> IF task[w].pc \in {"none", "create", "ended"} THEN 0 ELSE 1]
                   e == [w \in VRepos |-> IF task[w].pc = "ended" THEN 1 ELSE 0]
                   a1 == [w \in VRepos |-> IF task'[w].pc \in {"none", "create", "ended"} THEN 0 ELSE 1]
                   e1 == [w \in VRepos |-> IF task'[w].pc = "ended" THEN 1 ELSE 0]
        <3>1. /\ a \in [VRepos -> Int] /\ a1 \in [VRepos -> Int]
              /\ a[v] = 1 /\ a1[v] = 0 /\ \A w \in VRepos \ {v} : a1[w] = a[w]
            BY <2>2, <2>3, <2>5
        <3>2. /\ e \in [VRepos -> Int] /\ e1 \in [VRepos -> Int]
              /\ e[v] = 0 /\ e1[v] = 1 /\ \A w \in VRepos \ {v} : e1[w] = e[w]
            BY <2>2, <2>3, <2>5
        <3>3. a[v] > 0 /\ a1 = [a EXCEPT ![v] = @ - 1] /\ e1 = [e EXCEPT ![v] = @ + 1]
            <4> HIDE DEF a, e, a1, e1
            <4>1. a1 = [a EXCEPT ![v] = @ - 1]
                BY <3>1
            <4>2. e1 = [e EXCEPT ![v] = @ + 1]
                BY <3>2
            <4> QED
                BY <3>1, <4>1, <4>2
        <3>4. Sched!TaskEnds(v)
            BY <2>2, <3>3 DEF Sched!TaskEnds
        <3> QED
            BY <1>6, <3>4, WorkingInv DEF Sched!Next
    <2> QED
        BY <2>4, <2>5
<1>7. ASSUME NEW v \in VRepos, MergeDone(v) PROVE SchedInv' /\ [Sched!Next]_(Sched!vars)
    <2>1. /\ SchedInv' /\ task[v].pc = "ended" /\ task'[v].pc = "none"
          /\ \A w \in VRepos \ {v} : task'[w] = task[w]
        BY <1>7, MergeDoneInv
    <2> DEFINE a == [w \in VRepos |-> IF task[w].pc \in {"none", "create", "ended"} THEN 0 ELSE 1]
               e == [w \in VRepos |-> IF task[w].pc = "ended" THEN 1 ELSE 0]
               a1 == [w \in VRepos |-> IF task'[w].pc \in {"none", "create", "ended"} THEN 0 ELSE 1]
               e1 == [w \in VRepos |-> IF task'[w].pc = "ended" THEN 1 ELSE 0]
    <2>2. a1 = a
        BY <2>1
    <2>3. e[v] > 0 /\ e1 = [e EXCEPT ![v] = @ - 1]
        <3>1. /\ e \in [VRepos -> Int] /\ e1 \in [VRepos -> Int]
              /\ e[v] = 1 /\ e1[v] = 0 /\ \A w \in VRepos \ {v} : e1[w] = e[w]
            BY <2>1
        <3> HIDE DEF e, e1
        <3> QED
            BY <3>1
    <2>4. Sched!MergeDone(v)
        BY <1>7, <2>2, <2>3 DEF MergeDone, Sched!MergeDone
    <2> QED
        BY <2>1, <2>4 DEF Sched!Next
<1>8. CASE Schedule
    <2>1. PICK k \in 0..Len(queue) :
            /\ Sched!Schedule(k, FALSE)
            /\ \A v \in VRepos : IF v \in {queue[i] : i \in 1..k}
                                 THEN task[v].pc = "none" /\ task'[v].pc = "start"
                                 ELSE task'[v] = task[v]
        BY <1>8, ScheduleInv
    <2> DEFINE a == [w \in VRepos |-> IF task[w].pc \in {"none", "create", "ended"} THEN 0 ELSE 1]
               e == [w \in VRepos |-> IF task[w].pc = "ended" THEN 1 ELSE 0]
               a1 == [w \in VRepos |-> IF task'[w].pc \in {"none", "create", "ended"} THEN 0 ELSE 1]
               e1 == [w \in VRepos |-> IF task'[w].pc = "ended" THEN 1 ELSE 0]
    <2>2. e1 = e
        BY <2>1
    <2>3. ASSUME NEW v \in VRepos
          PROVE  a1[v] = a[v] + Cardinality({i \in 1..k : queue[i] = v})
        <3>1. Cardinality({i \in 1..k : queue[i] = v})
                = IF v \in {queue[i] : i \in 1..k} THEN 1 ELSE 0
            BY StartedOnce DEF SchedInv, Types
        <3>2. CASE v \in {queue[i] : i \in 1..k}
            BY <2>1, <3>1, <3>2
        <3>3. CASE v \notin {queue[i] : i \in 1..k}
            BY <2>1, <3>1, <3>3
        <3> QED
            BY <3>2, <3>3
    <2>4. a1 = [v \in VRepos |-> a[v] + Cardinality({i \in 1..k : queue[i] = v})]
        BY <2>3
    <2>5. Sched!ScheduleMergeTasks(FALSE)
        <3>1. /\ Sched!Schedule(k, FALSE)
              /\ a1 = [v \in VRepos |-> a[v] + Sched!Cardinality({i \in 1..k : queue[i] = v})]
              /\ e1 = e
            BY <2>1, <2>2, <2>4, SameCount
        <3> QED
            BY <3>1 DEF Sched!ScheduleMergeTasks
    <2> QED
        BY <1>8, <2>5, ScheduleInv DEF Sched!Next
<1>9. CASE Crash
    <2>1. /\ SchedInv' /\ queue' = <<>> /\ running' = {}
          /\ \A v \in VRepos : task'[v].pc = "none"
        BY <1>9, CrashInv
    <2>2. Sched!ServerStops
        BY <2>1 DEF Sched!ServerStops
    <2> QED
        BY <2>1, <2>2 DEF Sched!Next
<1>10. CASE UNCHANGED vars
    <2>1. UNCHANGED <<queue, running, task, toAdd, row, status>>
        BY <1>10 DEF vars
    <2>2. SchedInv'
        BY <2>1 DEF SchedInv, Types, NewOK, RunningOK, HasTask, Distinct, Sched!Queued
    <2>3. UNCHANGED Sched!vars
        BY <2>1, SchedStutter DEF Active, Ended
    <2> QED
        BY <2>2, <2>3
<1> QED
    BY <1>1, <1>2, <1>3, <1>4, <1>5, <1>6, <1>7, <1>8, <1>9, <1>10
    DEF Next, UserStep, TaskStep, Users, Working

\* Merge tasks of shared directories are scheduled as MergeScheduler says, also when tasks
\* fail, users rename and delete directories, share new ones, and the server stops
\* (schedule_merge_tasks(), add_merge_task(), merge_virtual_repo_done()).
THEOREM TasksAreScheduled == Spec => SchedulerSpec
<1>1. Init => SchedInv
    BY SchedStarts
<1>2. Init => Sched!Init
    <2> SUFFICES ASSUME Init PROVE Sched!Init
        OBVIOUS
    <2>1. \A v \in VRepos : task[v].pc = "none"
        BY DEF Init, NoTask
    <2> QED
        BY <2>1 DEF Init, Sched!Init
<1> QED
    BY <1>1, <1>2, SchedStep, PTL DEF Spec, SchedulerSpec, Sched!Spec
=============================================================================
