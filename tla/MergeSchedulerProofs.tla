------------------------ MODULE MergeSchedulerProofs ------------------------
(***************************************************************************)
(* The scheduler of merge tasks never runs two tasks for one repo, respects  *)
(* the size of the pool, and neither doubles nor drops a request: for any    *)
(* number of repos and any size of the pool.                                 *)
(***************************************************************************)
EXTENDS MergeScheduler, FiniteSetTheorems, TLAPS

\* No repo waits twice.
Distinct(q) == \A i, j \in 1..Len(q) : q[i] = q[j] => i = j

\* The main loop's table agrees with the pool, which it does not see.
RunningOK ==
    \A v \in VRepos : IF v \in running THEN active[v] + ended[v] = 1
                      ELSE active[v] = 0 /\ ended[v] = 0

\* The inductive invariant.
Inv ==
    /\ TypeOK
    /\ RunningOK
    /\ Cardinality(running) <= MaxRunning
    /\ Distinct(queue)

----------------------------------------------------------------------------
\* Facts about the queue

\* A request that is added does not double one that waits.
LEMMA AddedDistinct ==
    ASSUME NEW q \in Seq(VRepos), Distinct(q), NEW v \in VRepos
    PROVE  /\ Added(q, v) \in Seq(VRepos)
           /\ Distinct(Added(q, v))
           /\ Queued(q) \subseteq Queued(Added(q, v))
<1>1. CASE v \in Queued(q)
    BY <1>1 DEF Added
<1>2. CASE v \notin Queued(q)
    <2>1. /\ Append(q, v) \in Seq(VRepos) /\ Len(Append(q, v)) = Len(q) + 1
          /\ \A i \in 1..Len(q) : Append(q, v)[i] = q[i]
          /\ Append(q, v)[Len(q) + 1] = v
        OBVIOUS
    <2>2. \A i \in 1..Len(q) : q[i] # v
        BY <1>2 DEF Queued
    <2>3. Distinct(Append(q, v))
        BY <2>1, <2>2 DEF Distinct
    <2>4. Queued(q) \subseteq Queued(Append(q, v))
        BY <2>1 DEF Queued
    <2> QED
        BY <1>2, <2>1, <2>3, <2>4 DEF Added
<1> QED
    BY <1>1, <1>2

\* The queue after a tick that started k tasks: the rest is still there, once.
LEMMA AfterStartDistinct ==
    ASSUME NEW q \in Seq(VRepos), Distinct(q), NEW k \in 0..Len(q),
           NEW back \in BOOLEAN, back => k < Len(q)
    PROVE  /\ AfterStart(q, k, back) \in Seq(VRepos)
           /\ Distinct(AfterStart(q, k, back))
           /\ \A i \in (k + 1)..Len(q) : q[i] \in Queued(AfterStart(q, k, back))
<1>1. \A i \in 1..Len(q) : q[i] \in VRepos
    OBVIOUS
<1>2. CASE ~back
    <2> DEFINE r == SubSeq(q, k + 1, Len(q))
    <2>1. /\ r \in Seq(VRepos) /\ Len(r) = Len(q) - k
          /\ \A i \in 1..(Len(q) - k) : r[i] = q[k + i]
        OBVIOUS
    <2>2. AfterStart(q, k, back) = r
        BY <1>2 DEF AfterStart
    <2> HIDE DEF r
    <2>3. Distinct(r)
        BY <2>1 DEF Distinct
    <2>4. ASSUME NEW i \in (k + 1)..Len(q) PROVE q[i] \in Queued(r)
        <3>1. i - k \in 1..(Len(q) - k) /\ r[i - k] = q[i]
            BY <2>1
        <3> QED
            BY <2>1, <3>1 DEF Queued
    <2> QED
        BY <2>1, <2>2, <2>3, <2>4
<1>3. CASE back
    <2> DEFINE s == SubSeq(q, k + 2, Len(q))
               r == Append(s, q[k + 1])
    <2>1. /\ s \in Seq(VRepos) /\ Len(s) = Len(q) - k - 1
          /\ \A i \in 1..(Len(q) - k - 1) : s[i] = q[k + 1 + i]
        BY <1>3
    <2> HIDE DEF s
    <2>2. k + 1 \in 1..Len(q)
        BY <1>3
    <2>3. /\ r \in Seq(VRepos) /\ Len(r) = Len(q) - k
          /\ \A i \in 1..(Len(q) - k - 1) : r[i] = q[k + 1 + i]
          /\ r[Len(q) - k] = q[k + 1]
        BY <1>1, <2>1, <2>2
    <2>4. AfterStart(q, k, back) = r
        BY <1>3 DEF AfterStart, s
    <2> HIDE DEF r
    <2>5. Distinct(r)
        <3> DEFINE g(i) == IF i = Len(q) - k THEN k + 1 ELSE k + 1 + i
        <3>1. ASSUME NEW i \in 1..Len(r) PROVE g(i) \in 1..Len(q) /\ r[i] = q[g(i)]
            <4>1. CASE i = Len(q) - k
                BY <1>3, <2>3, <4>1
            <4>2. CASE i # Len(q) - k
                <5>1. i \in 1..(Len(q) - k - 1)
                    <6>1. Len(q) \in Nat /\ Len(r) = Len(q) - k
                        BY <2>3
                    <6> QED
                        BY <1>3, <4>2, <6>1
                <5> QED
                    BY <1>3, <2>3, <4>2, <5>1
            <4> QED
                BY <4>1, <4>2
        <3>2. \A i, j \in 1..Len(r) : g(i) = g(j) => i = j
            BY <1>3, <2>3
        <3> HIDE DEF g
        <3> QED
            BY <3>1, <3>2 DEF Distinct
    <2>6. ASSUME NEW i \in (k + 1)..Len(q) PROVE q[i] \in Queued(r)
        <3>1. CASE i = k + 1
            BY <1>3, <2>3, <3>1 DEF Queued
        <3>2. CASE i # k + 1
            <4>1. i - k - 1 \in 1..(Len(q) - k - 1) /\ r[i - k - 1] = q[i]
                BY <2>3, <3>2
            <4> QED
                BY <1>3, <2>3, <4>1 DEF Queued
        <3> QED
            BY <3>1, <3>2
    <2> QED
        BY <2>3, <2>4, <2>5, <2>6
<1> QED
    BY <1>2, <1>3

\* The repos of the first k tasks: how many they are, and how often each.
LEMMA StartedCount ==
    ASSUME NEW q \in Seq(VRepos), Distinct(q), NEW k \in 0..Len(q)
    PROVE  /\ IsFiniteSet({q[i] : i \in 1..k})
           /\ Cardinality({q[i] : i \in 1..k}) <= k
           /\ \A v \in VRepos :
                Cardinality({i \in 1..k : q[i] = v}) =
                    IF v \in {q[i] : i \in 1..k} THEN 1 ELSE 0
<1> DEFINE T == {q[i] : i \in 1..k}
           f == [i \in 1..k |-> q[i]]
<1>1. f \in Surjection(1..k, T)
    BY DEF Surjection
<1>2. IsFiniteSet(1..k) /\ Cardinality(1..k) = k
    BY FS_Interval
<1>3. IsFiniteSet(T) /\ Cardinality(T) <= k
    BY <1>1, <1>2, FS_Surjection
<1>4. ASSUME NEW v \in VRepos
      PROVE  Cardinality({i \in 1..k : q[i] = v}) = IF v \in T THEN 1 ELSE 0
    <2>1. CASE v \notin T
        <3>1. {i \in 1..k : q[i] = v} = {}
            BY <2>1
        <3> QED
            BY <2>1, <3>1, FS_EmptySet
    <2>2. CASE v \in T
        <3>1. PICK i \in 1..k : q[i] = v
            BY <2>2
        <3>2. {j \in 1..k : q[j] = v} = {i}
            BY <3>1 DEF Distinct
        <3> QED
            BY <2>2, <3>2, FS_Singleton
    <2> QED
        BY <2>1, <2>2
<1> QED
    BY <1>3, <1>4

----------------------------------------------------------------------------
\* The steps

\* What a tick does that starts k tasks: they are new in the table running, the
\* pool has one more task for each and the rest of the queue is kept.
LEMMA TickStep ==
    ASSUME Inv, NEW failed \in BOOLEAN, NEW k \in 0..Len(queue),
           Schedule(k, failed),
           active' = [v \in VRepos |->
                        active[v] + Cardinality({i \in 1..k : queue[i] = v})]
    PROVE  LET T == {queue[i] : i \in 1..k} IN
           /\ T \subseteq VRepos /\ T \cap running = {} /\ running' = running \cup T
           /\ Cardinality(running') <= MaxRunning
           /\ queue' \in Seq(VRepos) /\ Distinct(queue')
           /\ \A i \in (k + 1)..Len(queue) : queue[i] \in Queued(queue')
           /\ active' = [v \in VRepos |-> active[v] + IF v \in T THEN 1 ELSE 0]
<1> DEFINE T == {queue[i] : i \in 1..k}
<1>1. /\ queue \in Seq(VRepos) /\ Distinct(queue) /\ running \subseteq VRepos
      /\ Cardinality(running) <= MaxRunning /\ MaxRunning \in Nat
      /\ IsFiniteSet(running) /\ Cardinality(running) \in Nat
    <2>1. running \subseteq VRepos /\ IsFiniteSet(VRepos)
        BY SchedulerAssumption DEF Inv, TypeOK
    <2>2. IsFiniteSet(running) /\ Cardinality(running) \in Nat
        BY <2>1, FS_Subset, FS_CardinalityType
    <2> QED
        BY <2>1, <2>2, SchedulerAssumption DEF Inv, TypeOK
<1>2. /\ k <= Len(queue) /\ Cardinality(running) + k <= MaxRunning
      /\ \A i \in 1..k : queue[i] \notin running
    BY DEF Schedule, CanStart
<1>3. T \subseteq VRepos /\ T \cap running = {} /\ running' = running \cup T
    BY <1>1, <1>2 DEF Schedule
<1>4. IsFiniteSet(T) /\ Cardinality(T) <= k /\ Cardinality(T) \in Nat
    BY <1>1, StartedCount, FS_CardinalityType
<1>5. Cardinality(running') <= MaxRunning
    <2>1. Cardinality(running') =
            Cardinality(running) + Cardinality(T) - Cardinality(running \cap T)
        BY <1>1, <1>3, <1>4, FS_Union
    <2>2. Cardinality(running \cap T) = 0
        BY <1>3, FS_EmptySet
    <2> HIDE DEF T
    <2> QED
        BY <1>1, <1>2, <1>4, <2>1, <2>2
<1>6. PICK stopped \in BOOLEAN :
        /\ stopped => k < Len(queue)
        /\ queue' = AfterStart(queue, k, stopped)
    BY DEF Schedule
<1>7. /\ queue' \in Seq(VRepos) /\ Distinct(queue')
      /\ \A i \in (k + 1)..Len(queue) : queue[i] \in Queued(queue')
    BY <1>1, <1>6, AfterStartDistinct
<1>8. active' = [v \in VRepos |-> active[v] + IF v \in T THEN 1 ELSE 0]
    BY <1>1, StartedCount
<1> QED
    BY <1>3, <1>5, <1>7, <1>8

\* The invariant holds at the beginning.
LEMMA InitInv == Init => Inv
<1> SUFFICES ASSUME Init PROVE Inv
    OBVIOUS
<1>1. TypeOK
    BY DEF Init, TypeOK
<1>2. RunningOK /\ Distinct(queue)
    BY DEF Init, RunningOK, Distinct
<1>3. Cardinality(running) <= MaxRunning
    BY SchedulerAssumption, FS_EmptySet DEF Init
<1> QED
    BY <1>1, <1>2, <1>3 DEF Inv

\* Each step keeps it.
LEMMA NextInv == Inv /\ [Next]_vars => Inv'
<1> SUFFICES ASSUME Inv, [Next]_vars PROVE Inv'
    OBVIOUS
<1>1. TypeOK /\ RunningOK /\ Distinct(queue) /\ Cardinality(running) <= MaxRunning
    BY DEF Inv
<1>2. ASSUME NEW v \in VRepos, AddMergeTask(v) PROVE Inv'
    <2>1. queue' \in Seq(VRepos) /\ Distinct(queue')
        BY <1>1, <1>2, AddedDistinct DEF AddMergeTask, TypeOK
    <2> QED
        BY <1>1, <1>2, <2>1 DEF AddMergeTask, Inv, TypeOK, RunningOK
<1>3. ASSUME NEW v \in VRepos, TaskEnds(v) PROVE Inv'
    <2>1. TypeOK'
        BY <1>1, <1>3 DEF TaskEnds, TypeOK
    <2>2. RunningOK'
        BY <1>1, <1>3 DEF TaskEnds, TypeOK, RunningOK
    <2> QED
        BY <1>1, <1>3, <2>1, <2>2 DEF TaskEnds, Inv
<1>4. ASSUME NEW v \in VRepos, MergeDone(v) PROVE Inv'
    <2>1. TypeOK'
        BY <1>1, <1>4 DEF MergeDone, TypeOK
    <2>2. RunningOK'
        BY <1>1, <1>4 DEF MergeDone, TypeOK, RunningOK
    <2>3. Cardinality(running') <= MaxRunning
        <3>1. IsFiniteSet(running)
            BY <1>1, SchedulerAssumption, FS_Subset DEF TypeOK
        <3>2. running' \in SUBSET running
            BY <1>4 DEF MergeDone
        <3>3. IsFiniteSet(running') /\ Cardinality(running') <= Cardinality(running)
            BY <3>1, <3>2, FS_Subset
        <3>4. Cardinality(running) \in Nat /\ Cardinality(running') \in Nat
            BY <3>1, <3>3, FS_CardinalityType
        <3> QED
            BY <1>1, <3>3, <3>4, SchedulerAssumption
    <2> QED
        BY <1>1, <1>4, <2>1, <2>2, <2>3 DEF MergeDone, Inv
<1>5. ASSUME NEW failed \in BOOLEAN, ScheduleMergeTasks(failed) PROVE Inv'
    <2>1. PICK k \in 0..Len(queue) :
            /\ Schedule(k, failed)
            /\ active' = [v \in VRepos |->
                            active[v] + Cardinality({i \in 1..k : queue[i] = v})]
            /\ UNCHANGED ended
        BY <1>5 DEF ScheduleMergeTasks
    <2> DEFINE T == {queue[i] : i \in 1..k}
    <2>2. /\ T \subseteq VRepos /\ T \cap running = {} /\ running' = running \cup T
          /\ Cardinality(running') <= MaxRunning
          /\ queue' \in Seq(VRepos) /\ Distinct(queue')
          /\ active' = [v \in VRepos |-> active[v] + IF v \in T THEN 1 ELSE 0]
        BY <2>1, TickStep
    <2> HIDE DEF T
    <2>3. /\ active \in [VRepos -> Nat] /\ ended \in [VRepos -> Nat]
          /\ running \subseteq VRepos /\ ended' = ended
        BY <1>1, <2>1 DEF TypeOK
    <2>4. active' \in [VRepos -> Nat]
          /\ \A v \in VRepos : active'[v] = IF v \in T THEN active[v] + 1 ELSE active[v]
        BY <2>2, <2>3
    <2>5. TypeOK'
        BY <2>2, <2>3, <2>4 DEF TypeOK
    <2>6. RunningOK'
        <3> SUFFICES ASSUME NEW v \in VRepos
                     PROVE  IF v \in running' THEN active'[v] + ended'[v] = 1
                            ELSE active'[v] = 0 /\ ended'[v] = 0
            BY DEF RunningOK
        <3>1. IF v \in running THEN active[v] + ended[v] = 1
              ELSE active[v] = 0 /\ ended[v] = 0
            BY <1>1 DEF RunningOK
        <3>2. CASE v \in T
            BY <2>2, <2>3, <2>4, <3>1, <3>2
        <3>3. CASE v \notin T
            BY <2>2, <2>3, <2>4, <3>1, <3>3
        <3> QED
            BY <3>2, <3>3
    <2> QED
        BY <2>2, <2>5, <2>6 DEF Inv
<1>6. CASE UNCHANGED vars
    BY <1>1, <1>6 DEF vars, Inv, TypeOK, RunningOK
<1>7. CASE ServerStops
    <2>1. TypeOK' /\ RunningOK' /\ Distinct(queue')
        BY <1>7 DEF ServerStops, TypeOK, RunningOK, Distinct
    <2>2. Cardinality(running') <= MaxRunning
        BY <1>7, SchedulerAssumption, FS_EmptySet DEF ServerStops
    <2> QED
        BY <2>1, <2>2 DEF Inv
<1> QED
    BY <1>2, <1>3, <1>4, <1>5, <1>6, <1>7 DEF Next

\* The inductive invariant holds.
LEMMA SpecInv == Spec => []Inv
    BY InitInv, NextInv, PTL DEF Spec

----------------------------------------------------------------------------
\* What the invariant implies

\* One task per repo: two tasks of a repo never run at the same time, although
\* requests for its merge come while one runs (schedule_merge_tasks()).
THEOREM OneTask == Spec => []OneTaskPerRepo
<1>1. Inv => OneTaskPerRepo
    <2> SUFFICES ASSUME Inv, NEW v \in VRepos PROVE active[v] + ended[v] <= 1
        BY DEF OneTaskPerRepo
    <2> QED
        BY DEF Inv, RunningOK, TypeOK
<1> QED
    BY SpecInv, <1>1, PTL

\* The pool is never given more tasks than it has threads.
THEOREM PoolIsBounded == Spec => []PoolBound
<1>1. Inv => PoolBound
    <2> SUFFICES ASSUME Inv PROVE PoolBound
        OBVIOUS
    <2>1. {v \in VRepos : active[v] + ended[v] > 0} = running
        BY DEF Inv, RunningOK, TypeOK
    <2> QED
        BY <2>1 DEF PoolBound, Inv
<1> QED
    BY SpecInv, <1>1, PTL

\* No repo waits twice (add_merge_task()).
THEOREM WaitsOnce == Spec => []NoTaskTwice
<1>1. Inv => NoTaskTwice
    <2> SUFFICES ASSUME Inv PROVE Cardinality(Queued(queue)) = Len(queue)
        BY DEF NoTaskTwice
    <2>1. queue \in Seq(VRepos) /\ Distinct(queue)
        BY DEF Inv, TypeOK
    <2> DEFINE f == [i \in 1..Len(queue) |-> queue[i]]
    <2>2. f \in Surjection(1..Len(queue), Queued(queue))
        BY <2>1 DEF Surjection, Queued
    <2>3. f \in Injection(1..Len(queue), Queued(queue))
        BY <2>1, <2>2 DEF Injection, IsInjective, Distinct, Surjection
    <2>4. IsFiniteSet(1..Len(queue)) /\ Cardinality(1..Len(queue)) = Len(queue)
        <3>1. Len(queue) \in Nat
            BY <2>1
        <3>2. \A n \in Nat : IsFiniteSet(1..n) /\ Cardinality(1..n) = n
            BY FS_Interval
        <3> QED
            BY <3>1, <3>2
    <2> QED
        BY <2>2, <2>3, <2>4, FS_Surjection
<1> QED
    BY SpecInv, <1>1, PTL

\* A request is not dropped: a repo leaves the queue only when a task for it
\* starts, or the server stops.
THEOREM NotDropped == Spec => NoTaskDropped
<1> DEFINE Kept == ~ServerStops => \A v \in Queued(queue) :
                     v \in Queued(queue') \/ active'[v] = active[v] + 1
<1>1. Inv /\ [Next]_vars => [Kept]_vars
    <2> SUFFICES ASSUME Inv, Next PROVE Kept
        OBVIOUS
    <2>1. queue \in Seq(VRepos) /\ Distinct(queue)
        BY DEF Inv, TypeOK
    <2>2. ASSUME NEW v \in VRepos, AddMergeTask(v) PROVE Kept
        BY <2>1, <2>2, AddedDistinct DEF AddMergeTask
    <2>3. ASSUME NEW v \in VRepos, TaskEnds(v) \/ MergeDone(v) PROVE Kept
        BY <2>3 DEF TaskEnds, MergeDone
    <2>4. ASSUME NEW failed \in BOOLEAN, ScheduleMergeTasks(failed) PROVE Kept
        <3>1. PICK k \in 0..Len(queue) :
                /\ Schedule(k, failed)
                /\ active' = [v \in VRepos |->
                                active[v] + Cardinality({i \in 1..k : queue[i] = v})]
            BY <2>4 DEF ScheduleMergeTasks
        <3> DEFINE T == {queue[i] : i \in 1..k}
        <3>2. /\ T \subseteq VRepos
              /\ \A i \in (k + 1)..Len(queue) : queue[i] \in Queued(queue')
              /\ active' = [v \in VRepos |-> active[v] + IF v \in T THEN 1 ELSE 0]
            BY <3>1, TickStep
        <3>3. \A i \in 1..Len(queue) : i \in 1..k \/ i \in (k + 1)..Len(queue)
            BY <2>1
        <3>4. \A v \in T : active'[v] = active[v] + 1
            BY <3>2
        <3> QED
            BY <3>2, <3>3, <3>4 DEF Queued
    <2> QED
        BY <2>2, <2>3, <2>4 DEF Next
<1> QED
    BY SpecInv, <1>1, PTL DEF Spec, NoTaskDropped
=============================================================================
