------------------------------- MODULE Sizes --------------------------------
(***************************************************************************)
(* The sizes of libraries, which threads of a pool compute after changes      *)
(* (server/size-sched.c), and the quota of a user, which uploads are checked  *)
(* against (server/quota-mgr.c, repo-op.c, http-server.c). What is put into a *)
(* virtual repo is charged to the owner of its origin, where a merge puts it. *)
(*                                                                          *)
(* A library is modelled by the files at its paths. Of a path in a directory  *)
(* that is shared, only one side changes before the next merge: VirtualRepo   *)
(* and MergeTrees are about the merge of changes on both.                     *)
(***************************************************************************)
EXTENDS Integers, Sequences, FiniteSets, Functions, SequencesExt

CONSTANTS
    Libs, Owner, Origin,    \* libraries, the user of each, and the origin of the virtual repos
    Names, Sub,             \* paths, and those in the directory of a virtual repo
    FileIds, SizeOf,        \* files, and the size of each
    Quota,                  \* the quota of a user, or INFINITE_QUOTA
    PoolSizes, Requests,    \* values of size_sched_thread_num, and uploads under way at a time
    Nothing,
    FirstTree,              \* the files of a library at the start
    MaxCommits, MaxFailures \* bounds: the commits, and the failures and restarts

\* A library is no virtual repo of a virtual repo, and its owner is a user.
SizesAssumption ==
    /\ IsFiniteSet(Libs) /\ Nothing \notin Libs \cup [head : Nat, size : Int, count : Int]
    /\ Origin \in [Libs -> Libs \cup {Nothing}] /\ Owner \in [Libs -> DOMAIN Quota]
    /\ \A l \in Libs : Origin[l] # Nothing => Origin[Origin[l]] = Nothing
    /\ \A u \in DOMAIN Quota : Quota[u] \in Int
    /\ SizeOf \in [FileIds -> Nat] /\ Nothing \notin FileIds
    /\ IsFiniteSet(Names) /\ Sub \subseteq DOMAIN FirstTree
    /\ FirstTree \in [Names -> FileIds \cup {Nothing}]
    /\ \A n \in PoolSizes : n \in Nat

VARIABLES
    trees, tip,     \* the trees of the commits, and the commit each library is at
    base,           \* the tree of a virtual repo at its last merge
    merging,        \* the virtual repos whose merge is due
    row,            \* RepoSize and RepoFileCount
    threads,        \* the size of the pool
    queue, job,     \* its queue, and what its threads do
    put,            \* uploads under way
    failures,       \* how often something has failed
    missed,         \* history: libraries whose job failed or was lost,
    over            \*   whether an upload went over a quota it had been checked against

libraries == <<trees, tip, base, merging>>
vars == <<libraries, row, threads, queue, job, put, failures, missed, over>>

INFINITE_QUOTA == -2
Idle == [pc |-> "idle"]
Virtual(l) == Origin[l] # Nothing
Charged(l) == IF Virtual(l) THEN Origin[l] ELSE l
Shared(l) == {v \in Libs : Origin[v] = l}

SizesIn(t) == [n \in DOMAIN t |-> IF t[n] = Nothing THEN 0 ELSE SizeOf[t[n]]]
Size(t) == SumFunction(SizesIn(t))
Count(t) == Cardinality({n \in DOMAIN t : t[n] # Nothing})
Content(l) == trees[tip[l]]
On(t, ns) == [n \in ns |-> t[n]]

Init ==
    /\ LET ls == SetToSeq(Libs)
       IN /\ trees = [i \in DOMAIN ls |-> IF Virtual(ls[i]) THEN On(FirstTree, Sub) ELSE FirstTree]
          /\ tip = [l \in Libs |-> CHOOSE i \in DOMAIN ls : ls[i] = l]
          /\ base = [v \in {l \in Libs : Virtual(l)} |-> On(FirstTree, Sub)]
    /\ merging = {}
    /\ \E known \in BOOLEAN :
           /\ row = [l \in Libs |-> IF known THEN [head |-> tip[l], size |-> Size(Content(l)),
                                                  count |-> Count(Content(l))] ELSE Nothing]
           /\ missed = IF known THEN {} ELSE Libs
    /\ threads \in PoolSizes
    /\ queue = << >>
    /\ job = [w \in 1..threads |-> Idle]
    /\ put = [r \in Requests |-> Idle]
    /\ failures = 0
    /\ over = FALSE

----------------------------------------------------------------------------
\* The jobs of the pool

\* The library is read first, and its row afterwards.
Take(w) ==
    /\ job[w].pc = "idle" /\ queue # << >>
    /\ queue' = Tail(queue)
    /\ job' = [job EXCEPT ![w] = [pc |-> "read", lib |-> Head(queue), head |-> tip[Head(queue)]]]
    /\ UNCHANGED <<libraries, row, threads, put, failures, missed, over>>

\* A row of the library's head is right already.
Current(l, c) == missed' = IF c = tip[l] THEN missed \ {l} ELSE missed

UpToDate(info, c) == info # Nothing /\ info.head = c

ReadRow(w) ==
    /\ job[w].pc = "read"
    /\ LET l == job[w].lib info == row[l]
       IN IF UpToDate(info, job[w].head)
          THEN Current(l, info.head) /\ job' = [job EXCEPT ![w] = Idle]
          ELSE /\ job' = [job EXCEPT ![w] =
                              [pc |-> "write", lib |-> l, head |-> job[w].head, info |-> info]]
               /\ UNCHANGED missed
    /\ UNCHANGED <<libraries, row, threads, queue, put, failures, over>>

\* Of the paths that are gone and those that are new with one content, the diff names one pair
\* as renamed.
Diff(old, new) ==
    LET all == DOMAIN old
        gone == {n \in all : old[n] # Nothing /\ new[n] = Nothing}
        come == {n \in all : old[n] = Nothing /\ new[n] # Nothing}
        renamed == {f \in FileIds : (\E n \in gone : old[n] = f) /\ (\E n \in come : new[n] = f)}
    IN [deleted |-> gone \ {CHOOSE n \in gone : old[n] = f : f \in renamed},
        added |-> come \ {CHOOSE n \in come : new[n] = f : f \in renamed},
        modified |-> {n \in all : old[n] # new[n]} \ (gone \cup come)]

\* Mutant of ChangeOf, against SizesRight: the size a modified file had is not taken away.
ChangeOfNew(old, new) ==
    LET d == Diff(old, new)
    IN [size |-> SumFunctionOnSet(SizesIn(new), d.added \cup d.modified)
                 - SumFunctionOnSet(SizesIn(old), d.deleted),
        count |-> Cardinality(d.added) - Cardinality(d.deleted)]

ChangeOf(old, new) ==
    LET d == Diff(old, new)
    IN [size |-> SumFunctionOnSet(SizesIn(new), d.added \cup d.modified)
                 - SumFunctionOnSet(SizesIn(old), d.deleted \cup d.modified),
        count |-> Cardinality(d.added) - Cardinality(d.deleted)]

\* Without a row, or when its commit cannot be read, all files are counted.
Computed(info, c, readable) ==
    IF info # Nothing /\ readable
    THEN LET change == ChangeOf(trees[info.head], trees[c])
         IN [head |-> c, size |-> info.size + change.size, count |-> info.count + change.count]
    ELSE [head |-> c, size |-> Size(trees[c]), count |-> Count(trees[c])]

WriteRow(w) ==
    /\ job[w].pc = "write"
    /\ \E readable \in BOOLEAN :
           row' = [row EXCEPT ![job[w].lib] = Computed(job[w].info, job[w].head, readable)]
    /\ Current(job[w].lib, job[w].head)
    /\ job' = [job EXCEPT ![w] = Idle]
    /\ UNCHANGED <<libraries, threads, queue, put, failures, over>>

\* An object or a row that cannot be read or written.
JobFails(w) ==
    /\ job[w].pc # "idle"
    /\ failures < MaxFailures /\ failures' = failures + 1
    /\ missed' = missed \cup {job[w].lib}
    /\ job' = [job EXCEPT ![w] = Idle]
    /\ UNCHANGED <<libraries, row, threads, queue, put, over>>

\* The queue is in memory, and so are the merges and the uploads.
Restart ==
    /\ failures < MaxFailures /\ failures' = failures + 1
    /\ missed' = missed \cup Range(queue)
                        \cup {job[w].lib : w \in {x \in 1..threads : job[x].pc # "idle"}}
                        \cup {put[r].lib : r \in {x \in Requests : put[x].pc = "schedule"}}
    /\ queue' = << >>
    /\ job' = [w \in 1..threads |-> Idle]
    /\ put' = [r \in Requests |-> Idle]
    /\ merging' = {}
    /\ UNCHANGED <<trees, tip, base, row, threads, over>>

----------------------------------------------------------------------------
\* Quotas

OwnLibs(u) == {l \in Libs : ~Virtual(l) /\ Owner[l] = u}
UserUsage(u) ==
    SumFunctionOnSet([l \in Libs |-> row[l].size], {l \in OwnLibs(u) : row[l] # Nothing})

\* Mutant of WithinQuota, against QuotaHolds: the size of the upload is left out.
WithinQuotaNow(l, delta) ==
    LET u == Owner[Charged(l)]
    IN Quota[u] = INFINITE_QUOTA \/ UserUsage(u) < Quota[u]

WithinQuota(l, delta) ==
    LET u == Owner[Charged(l)]
    IN Quota[u] = INFINITE_QUOTA \/ UserUsage(u) + delta < Quota[u]

InStep(v) == Content(v) = On(Content(Origin[v]), Sub)
Settled(u) ==
    /\ \A l \in OwnLibs(u) : row[l] # Nothing /\ row[l].size = Size(Content(l))
    /\ \A v \in Libs : Virtual(v) => InStep(v)

----------------------------------------------------------------------------
\* Changes of libraries

Changed(l, t) ==
    /\ Len(trees) < MaxCommits
    /\ trees' = Append(trees, t)
    /\ tip' = [tip EXCEPT ![l] = Len(trees) + 1]

\* The other side of a shared directory has not changed the path.
Free(l, n) ==
    \A v \in Libs : Virtual(v) /\ n \in Sub =>
        /\ v = l => Content(Origin[v])[n] = base[v][n]
        /\ Origin[v] = l => Content(v)[n] = base[v][n]

Merges(l) == merging' = merging \cup Shared(l) \cup (IF Virtual(l) THEN {l} ELSE {})

\* Any change ends what a checked upload can rely on.
Unsettled(ps) == [r \in Requests |->
    IF ps[r].pc = "checked" THEN [ps[r] EXCEPT !.settled = FALSE] ELSE ps[r]]

\* Web uploads, uploads of raw blocks and sync clients ask before they put a file.
CheckQuota(r, by, l, n, f) ==
    /\ put[r].pc = "idle"
    /\ n \in DOMAIN Content(l)
    /\ WithinQuota(l, SizeOf[f])
    /\ put' = [put EXCEPT ![r] = [pc |-> "checked", by |-> by, lib |-> l, name |-> n, file |-> f,
                                  settled |-> Settled(Owner[Charged(l)])]]
    /\ UNCHANGED <<libraries, row, threads, queue, job, failures, missed, over>>

\* The update of the branch by a sync client is checked for nothing more than what is there.
\* The merge is not asked for after an upload of raw blocks.
PutFile(r) ==
    LET p == put[r]
        l == p.lib
        t == [Content(l) EXCEPT ![p.name] = p.file]
        u == Owner[Charged(l)]
        After(b) == IF b = Charged(l) THEN [Content(b) EXCEPT ![p.name] = p.file] ELSE Content(b)
        Used == SumFunctionOnSet([b \in Libs |-> Size(After(b))], OwnLibs(u))
    IN /\ p.pc = "checked"
       /\ p.by = "sync" => WithinQuota(l, 0)
       /\ Free(l, p.name) /\ Changed(l, t)
       /\ IF p.by = "blocks" THEN UNCHANGED merging ELSE Merges(l)
       /\ put' = [Unsettled(put) EXCEPT ![r] = [pc |-> "schedule", lib |-> l]]
       /\ over' = (over \/ (p.settled /\ Quota[u] # INFINITE_QUOTA /\ Used >= Quota[u]))
       /\ UNCHANGED <<base, row, threads, queue, job, failures, missed>>

PutFails(r) ==
    /\ put[r].pc = "checked"
    /\ put' = [put EXCEPT ![r] = Idle]
    /\ UNCHANGED <<libraries, row, threads, queue, job, failures, missed, over>>

ScheduleSize(r) ==
    /\ put[r].pc = "schedule"
    /\ queue' = queue \o <<put[r].lib>>
    /\ put' = [put EXCEPT ![r] = Idle]
    /\ UNCHANGED <<libraries, row, threads, job, failures, missed, over>>

Delete(r, l, n) ==
    /\ put[r].pc = "idle"
    /\ n \in DOMAIN Content(l) /\ Content(l)[n] # Nothing
    /\ Free(l, n) /\ Changed(l, [Content(l) EXCEPT ![n] = Nothing])
    /\ Merges(l)
    /\ put' = [Unsettled(put) EXCEPT ![r] = [pc |-> "schedule", lib |-> l]]
    /\ UNCHANGED <<base, row, threads, queue, job, failures, missed, over>>

\* No job is scheduled when a file is renamed.
Rename(l, n, m) ==
    LET t == Content(l)
    IN /\ {n, m} \subseteq DOMAIN t /\ t[n] # Nothing /\ t[m] = Nothing
       /\ Free(l, n) /\ Free(l, m)
       /\ Changed(l, [t EXCEPT ![m] = t[n], ![n] = Nothing])
       /\ Merges(l)
       /\ put' = Unsettled(put)
       /\ UNCHANGED <<base, row, threads, queue, job, failures, missed, over>>

\* The merge takes what each side changed and schedules the jobs of those it changes.
Merge(v) ==
    LET o == Origin[v]
        merged == [n \in Sub |-> IF Content(v)[n] # base[v][n] THEN Content(v)[n] ELSE Content(o)[n]]
        into == [n \in DOMAIN Content(o) |-> IF n \in Sub THEN merged[n] ELSE Content(o)[n]]
        new == (IF Content(v) = merged THEN << >> ELSE << [lib |-> v, tree |-> merged] >>)
            \o (IF Content(o) = into THEN << >> ELSE << [lib |-> o, tree |-> into] >>)
    IN /\ v \in merging
       /\ Len(trees) + Len(new) <= MaxCommits + 2
       /\ merging' = (merging \ {v}) \cup (IF Content(o) = into THEN {} ELSE Shared(o) \ {v})
       /\ trees' = trees \o [i \in DOMAIN new |-> new[i].tree]
       /\ tip' = [l \in Libs |-> IF \E i \in DOMAIN new : new[i].lib = l
                                 THEN Len(trees) + CHOOSE i \in DOMAIN new : new[i].lib = l
                                 ELSE tip[l]]
       /\ base' = [base EXCEPT ![v] = merged]
       /\ queue' = queue \o [i \in DOMAIN new |-> new[i].lib]
       /\ UNCHANGED <<row, threads, job, put, failures, missed, over>>

----------------------------------------------------------------------------
Next ==
    \/ \E w \in 1..threads : Take(w) \/ ReadRow(w) \/ WriteRow(w) \/ JobFails(w)
    \/ Restart
    \/ \E r \in Requests, l \in Libs, n \in Names :
           \/ \E by \in {"web", "blocks", "sync"}, f \in FileIds : CheckQuota(r, by, l, n, f)
           \/ Delete(r, l, n)
    \/ \E r \in Requests : PutFile(r) \/ PutFails(r) \/ ScheduleSize(r)
    \/ \E l \in Libs, n, m \in Names : Rename(l, n, m)
    \/ \E v \in merging : Merge(v)

Spec == Init /\ [][Next]_vars

----------------------------------------------------------------------------
\* A row has the size and the number of the files of the commit it names, whatever was renamed,
\* modified or deleted since the row before it, and in whatever order the threads write
\* (compute_repo_size, set_repo_size_and_file_count).
RowRight ==
    \A l \in Libs : row[l] # Nothing =>
        /\ row[l].size = Size(trees[row[l].head])
        /\ row[l].count = Count(trees[row[l].head])

\* When nothing is to be done for a library and no job of it was lost, its row has the size of
\* its head. With a pool of one thread: of two jobs of a library the one that began earlier may
\* write later.
SizeFollows ==
    threads = 1 =>
        \A l \in Libs \ missed :
            \/ l \in Range(queue) \/ \E w \in 1..threads : job[w].pc # "idle" /\ job[w].lib = l
            \/ \E r \in Requests : put[r].pc = "schedule" /\ put[r].lib = l
            \/ row[l] # Nothing /\ row[l].size = Size(Content(l)) /\ row[l].count = Count(Content(l))

\* Both of a row: it is right for its commit, and follows the library.
SizesRight == RowRight /\ SizeFollows

\* An upload that was checked when all sizes were known, and that nothing changed under, leaves
\* the user charged for it below the quota (seaf_quota_manager_check_quota_with_delta).
QuotaHolds == ~over
=============================================================================
