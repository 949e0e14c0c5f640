-------------------------- MODULE LibrariesProofs --------------------------
(***************************************************************************)
(* Proofs about LibraryLife and LibraryOps, for any libraries, threads and   *)
(* bounds. LibraryLife: the types; that a library one can open is complete;   *)
(* and what the trash and the collector rely on: a library is never lost      *)
(* between the tables, virtual repos go with their library, and a restored    *)
(* library has every commit acknowledged before its deletion was asked for.   *)
(* LibraryOps, in the second half: no file version is lost that no operation  *)
(* was meant to remove, and the progress of a copy task is true.              *)
(***************************************************************************)
EXTENDS LibraryLife, LibraryOps, SequenceTheorems, WellFoundedInduction, TLAPS

\* What is known of an operation in progress, by its kind
CreateOK(o) ==
    /\ o.lib \in Libs \ created /\ o.on = o.lib
    /\ o.at \in {"commit", "branch", "repo", "owner"}
    /\ o.at # "commit" => o.lib \in store
    /\ o.at \in {"repo", "owner"} => head[o.lib] # 0
DeleteOK(o) ==
    /\ o.lib \in created
    /\ o.on \in {o.lib} \cup VRepos
    /\ o.at \in {"read", "trash", "repo", "branch", "owner", "shares", "next",
                 "virt", "garbage"}
UnshareOK(o) ==
    /\ o.lib \in VRepos /\ o.on = o.lib
    /\ o.at \in {"repo", "branch", "owner", "garbage", "virt"}
PurgeOK(o) ==
    /\ o.lib \in Libs /\ o.on = o.lib
    /\ o.at \in {"garbage", "trash"}
RestoreOK(o) ==
    /\ o.lib \in Libs /\ o.on = o.lib
    /\ o.at \in {"read", "transaction"}
    /\ o.at = "transaction" => o.h # 0 /\ o.lib \in store

OpOK(o) ==
    /\ o.kind = "create" => CreateOK(o)
    /\ o.kind = "delete" => DeleteOK(o)
    /\ o.kind = "unshare" => UnshareOK(o)
    /\ o.kind = "purge" => PurgeOK(o)
    /\ o.kind = "restore" => RestoreOK(o)

OpsOK == \A w \in Workers : ops[w] # Idle => OpOK(ops[w])

\* An id is new for each creation.
CreatesApart ==
    \A w, x \in Workers :
        w # x /\ ops[w].kind = "create" /\ ops[x].kind = "create"
            => ops[w].lib # ops[x].lib

Inv == TypeOK /\ OpsOK /\ CreatesApart

-----------------------------------------------------------------------------
(* Facts about what a step does to the operations                          *)

\* An operation that has begun is a record of the right form.
LEMMA StartedType ==
  ASSUME NEW kind \in Kinds, NEW i \in Ids, NEW at \in Places
  PROVE  /\ Started(kind, i, at) \in Op
         /\ Started(kind, i, at) # Idle
  BY DEF Started, Op, Kinds, Idle

Others(w) == \A x \in Workers : x # w => ops'[x] = ops[x]

\* An operation in progress is a record of the right form.
LEMMA InProgress ==
  ASSUME TypeOK, NEW w \in Workers, ops[w] # Idle
  PROVE  ops[w] \in Op
  BY DEF TypeOK

\* Go changes the place of one operation.
LEMMA GoFacts ==
  ASSUME TypeOK, NEW w \in Workers, ops[w] # Idle, NEW at \in Places, Go(w, at)
  PROVE  /\ ops' \in [Workers -> Op \cup {Idle}] /\ Others(w)
         /\ ops'[w] \in Op /\ ops'[w] # Idle
         /\ ops'[w].kind = ops[w].kind /\ ops'[w].lib = ops[w].lib
         /\ ops'[w].on = ops[w].on /\ ops'[w].h = ops[w].h
         /\ ops'[w].todo = ops[w].todo /\ ops'[w].at = at
<1>1. ops[w] \in Op
  BY InProgress
<1>2. [ops[w] EXCEPT !.at = at] \in Op
  BY <1>1 DEF Op
<1>3. ops' = [ops EXCEPT ![w] = [ops[w] EXCEPT !.at = at]]
  BY DEF Go, TypeOK
<1>4. [ops[w] EXCEPT !.at = at] # Idle
  BY <1>2 DEF Op, Idle, Kinds
<1> QED
  BY <1>1, <1>2, <1>3, <1>4 DEF TypeOK, Others, Op

\* End makes one thread idle.
LEMMA EndFacts ==
  ASSUME TypeOK, NEW w \in Workers, End(w)
  PROVE  /\ ops' \in [Workers -> Op \cup {Idle}] /\ Others(w)
         /\ ops'[w] = Idle
  BY DEF TypeOK, Others, End

\* A step that gives one thread another operation
LEMMA ChangeFacts ==
  ASSUME TypeOK, NEW w \in Workers, NEW o \in Op, ops' = [ops EXCEPT ![w] = o]
  PROVE  /\ ops' \in [Workers -> Op \cup {Idle}] /\ Others(w)
         /\ ops'[w] = o /\ ops'[w] # Idle
  BY DEF TypeOK, Others, Op, Idle, Kinds

\* What a step must keep for the operations of the other threads: creations
\* keep their commit and their branch.
Kept ==
    /\ created' = created
    /\ store \subseteq store'
    /\ \A l \in Libs \ created : head[l] # 0 => head'[l] # 0

\* A step of one thread keeps what is known of every operation, if its own new state is right.
LEMMA OpsStep ==
  ASSUME Inv, NEW w \in Workers, Others(w), Kept,
         ops'[w] # Idle => OpOK(ops[w])',
         ops'[w].kind = "create" =>
             \/ ops[w].kind = "create" /\ ops'[w].lib = ops[w].lib
             \/ \A x \in Workers \ {w} : ops[x].kind = "create" => ops[x].lib # ops'[w].lib
  PROVE  OpsOK' /\ CreatesApart'
<1>1. ASSUME NEW x \in Workers, x # w, ops'[x] # Idle PROVE OpOK(ops[x])'
  <2>1. ops'[x] = ops[x] /\ OpOK(ops[x])
    BY <1>1 DEF Others, Inv, OpsOK
  <2>2. CreateOK(ops[x]) => CreateOK(ops[x])'
    BY <2>1 DEF CreateOK, Kept
  <2>3. RestoreOK(ops[x]) => RestoreOK(ops[x])'
    BY <2>1 DEF RestoreOK, Kept
  <2>4. DeleteOK(ops[x]) => DeleteOK(ops[x])'
    BY <2>1 DEF DeleteOK, Kept
  <2> QED
    BY <2>1, <2>2, <2>3, <2>4 DEF OpOK, UnshareOK, PurgeOK
<1>2. OpsOK'
  BY <1>1 DEF OpsOK
<1>3. CreatesApart'
  BY DEF CreatesApart, Inv, Others
<1> QED
  BY <1>2, <1>3

-----------------------------------------------------------------------------
(* Types and operations are kept by every action: one lemma for each phase. *)

\* No operation is under way at first.
LEMMA InitInv == Init => Inv
<1>1. Init => TypeOK
  BY LifeAssumption DEF Init, TypeOK, Ids
<1>2. Init => OpsOK /\ CreatesApart
  BY DEF Init, OpsOK, CreatesApart, Idle
<1> QED
  BY <1>1, <1>2 DEF Inv

\* An operation begins.
LEMMA StartInv == ASSUME Inv, NEW w \in Workers, Start(w) PROVE Inv'
<1> USE LifeAssumption
<1>1. ASSUME NEW l \in Libs, StartCreate(w, l) PROVE Inv'
  <2>1. Started("create", l, "commit") \in Op
    BY StartedType DEF Kinds, Places, Ids
  <2>2. /\ ops' \in [Workers -> Op \cup {Idle}] /\ Others(w)
        /\ ops'[w] = Started("create", l, "commit")
    BY <1>1, <2>1, ChangeFacts DEF StartCreate, Inv
  <2>3. TypeOK'
    BY <1>1, <2>2 DEF StartCreate, Inv, TypeOK, tables, history
  <2>4. Kept
    BY <1>1 DEF StartCreate, Kept, tables, history
  <2>5. OpOK(ops[w])'
    BY <1>1, <2>2 DEF StartCreate, Started, OpOK, CreateOK, history
  <2>6. \A x \in Workers : ops[x].kind = "create" => ops[x].lib # ops'[w].lib
    BY <1>1, <2>2 DEF StartCreate, Started, Busy, Kinds
  <2> QED
    BY <2>2, <2>3, <2>4, <2>5, <2>6, OpsStep DEF Inv
<1>2. ASSUME NEW l \in Libs, StartDelete(w, l) PROVE Inv'
  <2>1. Started("delete", l, "read") \in Op
    BY StartedType DEF Kinds, Places, Ids
  <2>2. /\ ops' \in [Workers -> Op \cup {Idle}] /\ Others(w)
        /\ ops'[w] = Started("delete", l, "read")
    BY <1>2, <2>1, ChangeFacts DEF StartDelete, Inv
  <2>3. TypeOK'
    BY <1>2, <2>2 DEF StartDelete, Inv, TypeOK, Ids, tables, history
  <2>4. Kept
    BY <1>2 DEF StartDelete, Kept, tables, history
  <2>5. OpOK(ops[w])' /\ ops'[w].kind # "create"
    BY <1>2, <2>2 DEF StartDelete, Started, OpOK, DeleteOK, history
  <2> QED
    BY <2>2, <2>3, <2>4, <2>5, OpsStep DEF Inv
<1>3. ASSUME NEW l \in Libs, StartPurge(w, l) PROVE Inv'
  <2>1. Started("purge", l, "garbage") \in Op
    BY StartedType DEF Kinds, Places, Ids
  <2>2. /\ ops' \in [Workers -> Op \cup {Idle}] /\ Others(w)
        /\ ops'[w] = Started("purge", l, "garbage")
    BY <1>3, <2>1, ChangeFacts DEF StartPurge, Inv
  <2>3. TypeOK'
    BY <1>3, <2>2 DEF StartPurge, Inv, TypeOK, Ids, tables, history
  <2>4. Kept
    BY <1>3 DEF StartPurge, Kept, tables, history
  <2>5. OpOK(ops[w])' /\ ops'[w].kind # "create"
    BY <1>3, <2>2 DEF StartPurge, Started, OpOK, PurgeOK, history
  <2> QED
    BY <2>2, <2>3, <2>4, <2>5, OpsStep DEF Inv
<1>4. ASSUME NEW l \in Libs, StartRestore(w, l) PROVE Inv'
  <2>1. Started("restore", l, "read") \in Op
    BY StartedType DEF Kinds, Places, Ids
  <2>2. /\ ops' \in [Workers -> Op \cup {Idle}] /\ Others(w)
        /\ ops'[w] = Started("restore", l, "read")
    BY <1>4, <2>1, ChangeFacts DEF StartRestore, Inv
  <2>3. TypeOK'
    BY <1>4, <2>2 DEF StartRestore, Inv, TypeOK, Ids, tables, history
  <2>4. Kept
    BY <1>4 DEF StartRestore, Kept, tables, history
  <2>5. OpOK(ops[w])' /\ ops'[w].kind # "create"
    BY <1>4, <2>2 DEF StartRestore, Started, OpOK, RestoreOK, history
  <2> QED
    BY <2>2, <2>3, <2>4, <2>5, OpsStep DEF Inv
<1>5. ASSUME NEW v \in VRepos, StartUnshare(w, v) PROVE Inv'
  <2>1. Started("unshare", v, "repo") \in Op
    BY StartedType DEF Kinds, Places, Ids
  <2>2. /\ ops' \in [Workers -> Op \cup {Idle}] /\ Others(w)
        /\ ops'[w] = Started("unshare", v, "repo")
    BY <1>5, <2>1, ChangeFacts DEF StartUnshare, Inv
  <2>3. TypeOK'
    BY <1>5, <2>2 DEF StartUnshare, Inv, TypeOK, Ids, tables, history
  <2>4. Kept
    BY <1>5 DEF StartUnshare, Kept, tables, history
  <2>5. OpOK(ops[w])' /\ ops'[w].kind # "create"
    BY <1>5, <2>2 DEF StartUnshare, Started, OpOK, UnshareOK, history
  <2> QED
    BY <2>2, <2>3, <2>4, <2>5, OpsStep DEF Inv
<1> QED
  BY <1>1, <1>2, <1>3, <1>4, <1>5 DEF Start

\* The thread ends its operation, and what others rely on is kept.
LEMMA EndStep ==
  ASSUME Inv, NEW w \in Workers, End(w), Kept
  PROVE  OpsOK' /\ CreatesApart' /\ ops' \in [Workers -> Op \cup {Idle}]
<1>1. /\ ops' \in [Workers -> Op \cup {Idle}] /\ Others(w)
      /\ ops'[w] = Idle /\ ops'[w].kind # "create"
  BY EndFacts DEF Inv, Idle
<1> QED
  BY <1>1, OpsStep

\* The thread goes to another statement.
LEMMA GoStep ==
  ASSUME Inv, NEW w \in Workers, ops[w] # Idle, NEW at \in Places, Go(w, at), Kept,
         OpOK(ops[w])'
  PROVE  OpsOK' /\ CreatesApart' /\ ops' \in [Workers -> Op \cup {Idle}]
<1>1. /\ ops' \in [Workers -> Op \cup {Idle}] /\ Others(w)
      /\ ops'[w].kind = ops[w].kind /\ ops'[w].lib = ops[w].lib
  BY GoFacts DEF Inv
<1> QED
  BY <1>1, OpsStep

\* Creation
LEMMA CreateInv == ASSUME Inv, NEW w \in Workers, Create(w) PROVE Inv'
<1> USE LifeAssumption
<1>1. CASE AddCommit(w)
  <2>1. ops[w] \in Op /\ ops[w].kind = "create" /\ CreateOK(ops[w])
    BY <1>1, InProgress DEF AddCommit, At, Inv, OpsOK, OpOK, Op, Kinds,
       DeleteOK, UnshareOK, PurgeOK, RestoreOK
  <2>2. Kept
    BY <1>1 DEF AddCommit, Kept, tables, history
  <2>3. OpOK(ops[w])'
    BY <1>1, <2>1, GoFacts DEF AddCommit, At, Inv, Places, OpOK, CreateOK, tables, history
  <2>4. OpsOK' /\ CreatesApart' /\ ops' \in [Workers -> Op \cup {Idle}]
    BY <1>1, <2>2, <2>3, GoStep DEF AddCommit, At, Places
  <2>5. TypeOK'
    BY <1>1, <2>1, <2>4 DEF AddCommit, Inv, TypeOK, Op, tables, history
  <2> QED
    BY <2>4, <2>5 DEF Inv
<1>2. CASE AddBranch(w)
  <2>1. ops[w] \in Op /\ CreateOK(ops[w])
    BY <1>2, InProgress DEF AddBranch, At, Inv, OpsOK, OpOK
  <2>2. Kept
    BY <1>2, <2>1 DEF AddBranch, Kept, history, Inv, TypeOK, CreateOK, Ids
  <2>3. OpOK(ops[w])'
    BY <1>2, <2>1, GoFacts DEF AddBranch, At, Inv, TypeOK, Ids, Places, OpOK, CreateOK, history
  <2>4. OpsOK' /\ CreatesApart' /\ ops' \in [Workers -> Op \cup {Idle}]
    BY <1>2, <2>2, <2>3, GoStep DEF AddBranch, At, Places
  <2>5. TypeOK'
    BY <1>2, <2>1, <2>4 DEF AddBranch, Inv, TypeOK, Op, history
  <2> QED
    BY <2>4, <2>5 DEF Inv
<1>3. CASE AddRepo(w)
  <2>1. ops[w] \in Op /\ CreateOK(ops[w])
    BY <1>3, InProgress DEF AddRepo, At, Inv, OpsOK, OpOK
  <2>2. Kept
    BY <1>3, <2>1 DEF AddRepo, Kept, history, Inv, TypeOK, CreateOK, Ids
  <2>3. OpOK(ops[w])'
    BY <1>3, <2>1, GoFacts DEF AddRepo, At, Inv, TypeOK, Ids, Places, OpOK, CreateOK, history
  <2>4. OpsOK' /\ CreatesApart' /\ ops' \in [Workers -> Op \cup {Idle}]
    BY <1>3, <2>2, <2>3, GoStep DEF AddRepo, At, Places
  <2>5. TypeOK'
    BY <1>3, <2>1, <2>4 DEF AddRepo, Inv, TypeOK, Op, history
  <2> QED
    BY <2>4, <2>5 DEF Inv
<1>4. CASE SetOwner(w)
  <2>1. ops[w] \in Op /\ CreateOK(ops[w])
    BY <1>4, InProgress DEF SetOwner, At, Inv, OpsOK, OpOK
  <2>2. /\ ops' \in [Workers -> Op \cup {Idle}] /\ Others(w) /\ ops'[w] = Idle
    BY <1>4, EndFacts DEF SetOwner, Inv
  <2>3. ASSUME NEW x \in Workers, ops'[x] # Idle PROVE OpOK(ops[x])'
    <3>1. x # w /\ ops'[x] = ops[x] /\ OpOK(ops[x])
      BY <2>2, <2>3 DEF Others, Inv, OpsOK
    <3>2. CreateOK(ops[x]) /\ ops[x].kind = "create" => CreateOK(ops[x])'
      BY <1>4, <3>1 DEF SetOwner, CreateOK, Inv, CreatesApart
    <3> QED
      BY <1>4, <3>1, <3>2 DEF SetOwner, OpOK, DeleteOK, UnshareOK, PurgeOK, RestoreOK
  <2>4. CreatesApart'
    BY <2>2 DEF CreatesApart, Inv, Others, Idle
  <2>5. TypeOK'
    BY <1>4, <2>1, <2>2 DEF SetOwner, CreateOK, Inv, TypeOK, Op
  <2> QED
    BY <2>3, <2>4, <2>5 DEF Inv, OpsOK
<1>5. CASE CreateFails(w)
  <2>1. Kept
    BY <1>5 DEF CreateFails, Kept, tables, history
  <2>2. OpsOK' /\ CreatesApart' /\ ops' \in [Workers -> Op \cup {Idle}]
    BY <1>5, <2>1, EndStep DEF CreateFails
  <2>3. TypeOK'
    BY <1>5, <2>2 DEF CreateFails, Fault, Inv, TypeOK, tables, history
  <2> QED
    BY <2>2, <2>3 DEF Inv
<1> QED
  BY <1>1, <1>2, <1>3, <1>4, <1>5 DEF Create

\* Deletion
LEMMA DeleteInv == ASSUME Inv, NEW w \in Workers, Delete(w) PROVE Inv'
<1> USE LifeAssumption
<1>0. TypeOK /\ (ops[w] # Idle => ops[w] \in Op /\ OpOK(ops[w]))
  BY InProgress DEF Inv, OpsOK
<1>1. CASE GetHeadCommit(w)
  <2>0. ops[w] # Idle /\ ops[w] \in Op /\ DeleteOK(ops[w]) /\ ops[w].lib \in Libs
    BY <1>1, <1>0 DEF GetHeadCommit, At, OpOK, DeleteOK, TypeOK
  <2>1. Kept /\ UNCHANGED <<tables, store, history>>
    BY <1>1 DEF GetHeadCommit, Kept, tables, history
  <2>2. ASSUME NEW h \in Nat, ReadHead(w, h)
        PROVE  OpsOK' /\ CreatesApart' /\ ops' \in [Workers -> Op \cup {Idle}]
    <3> DEFINE o == [ops[w] EXCEPT !.h = h, !.at = IF h = 0 THEN "repo" ELSE "trash"]
    <3>1. o \in Op
      BY <2>0 DEF Op, Places
    <3>2. ops' = [ops EXCEPT ![w] = o]
      BY <2>2, <1>0 DEF ReadHead, TypeOK
    <3>3. /\ ops' \in [Workers -> Op \cup {Idle}] /\ Others(w) /\ ops'[w] = o
      BY <3>1, <3>2, <1>0, ChangeFacts
    <3>4. ops'[w].kind = "delete" /\ DeleteOK(ops[w])' /\ ops[w].kind = "delete"
      BY <1>1, <2>0, <2>1, <3>3 DEF GetHeadCommit, DeleteOK, Op, history
    <3>5. OpOK(ops[w])'
      BY <3>4 DEF OpOK
    <3> QED
      BY <2>1, <3>3, <3>4, <3>5, OpsStep
  <2>3. HeadCommit(ops[w].lib) \in Nat
    BY <2>0, <1>0 DEF HeadCommit, TypeOK, Ids
  <2>4. OpsOK' /\ CreatesApart' /\ ops' \in [Workers -> Op \cup {Idle}]
    BY <1>1, <2>1, <2>2, <2>3, EndStep DEF GetHeadCommit
  <2>5. TypeOK'
    BY <1>0, <1>1, <2>1, <2>4 DEF GetHeadCommit, NoFault, Fault, TypeOK, tables, history
  <2> QED
    BY <2>4, <2>5 DEF Inv
<1>2. CASE AddToTrash(w)
  <2>0. ops[w] # Idle /\ ops[w] \in Op /\ DeleteOK(ops[w])
    BY <1>2, <1>0 DEF AddToTrash, At, OpOK
  <2>1. Kept
    BY <1>2 DEF AddToTrash, Kept, history
  <2>3. OpOK(ops[w])'
    BY <1>0, <1>2, <2>0, GoFacts DEF AddToTrash, Places, OpOK, DeleteOK, history
  <2>4. OpsOK' /\ CreatesApart' /\ ops' \in [Workers -> Op \cup {Idle}]
    BY <1>2, <2>0, <2>1, <2>3, GoStep DEF AddToTrash, Places
  <2>5. trash' \in [Libs -> Nat]
    BY <1>0, <1>2, <2>0 DEF AddToTrash, Trashed, TypeOK, Op
  <2>6. TypeOK'
    BY <1>0, <1>2, <2>4, <2>5 DEF AddToTrash, NoFault, Fault, TypeOK, history
  <2> QED
    BY <2>4, <2>6 DEF Inv
<1>3. CASE DelRepoRow(w)
  <2>0. ops[w] # Idle /\ ops[w] \in Op /\ OpOK(ops[w])
    BY <1>3, <1>0 DEF DelRepoRow, At
  <2>1. Kept
    BY <1>3 DEF DelRepoRow, Kept, history
  <2>2. ASSUME NEW at \in {"branch", "next"}, Go(w, at), at = "next" => ops[w].on # ops[w].lib
        PROVE  OpOK(ops[w])'
    BY <1>0, <1>3, <2>0, <2>2, GoFacts
       DEF DelRepoRow, Places, OpOK, DeleteOK, UnshareOK, history
  <2>4. OpsOK' /\ CreatesApart' /\ ops' \in [Workers -> Op \cup {Idle}]
    BY <1>3, <2>0, <2>1, <2>2, GoStep, EndStep DEF DelRepoRow, Places
  <2>6. TypeOK'
    BY <1>0, <1>3, <2>4 DEF DelRepoRow, NoFault, Fault, TypeOK, history
  <2> QED
    BY <2>4, <2>6 DEF Inv
<1>4. CASE DelBranch(w)
  <2>0. ops[w] # Idle /\ ops[w] \in Op /\ OpOK(ops[w]) /\ ops[w].on \in created \cup VRepos
    BY <1>4, <1>0 DEF DelBranch, At, OpOK, DeleteOK, UnshareOK
  <2>1. Kept
    BY <1>0, <1>4, <2>0 DEF DelBranch, Kept, history, TypeOK, Ids
  <2>3. OpOK(ops[w])'
    BY <1>0, <1>4, <2>0, GoFacts
       DEF DelBranch, Places, OpOK, DeleteOK, UnshareOK, history
  <2>4. OpsOK' /\ CreatesApart' /\ ops' \in [Workers -> Op \cup {Idle}]
    BY <1>4, <2>0, <2>1, <2>3, GoStep DEF DelBranch, Places
  <2>5. head' \in [Ids -> Nat]
    BY <1>0, <1>4, <2>0 DEF DelBranch, TypeOK
  <2>6. TypeOK'
    BY <1>0, <1>4, <2>4, <2>5 DEF DelBranch, NoFault, Fault, TypeOK, history
  <2> QED
    BY <2>4, <2>6 DEF Inv
<1>5. CASE DelOwner(w)
  <2>0. ops[w] # Idle /\ ops[w] \in Op /\ OpOK(ops[w])
    BY <1>5, <1>0 DEF DelOwner, At
  <2>1. Kept
    BY <1>5 DEF DelOwner, Kept, history
  <2>2. ASSUME NEW at \in {"shares", "garbage"}, Go(w, at), at = "shares" => ops[w].on \in Libs
        PROVE  OpOK(ops[w])'
    BY <1>0, <1>5, <2>0, <2>2, GoFacts
       DEF DelOwner, Places, OpOK, DeleteOK, UnshareOK, history
  <2>4. OpsOK' /\ CreatesApart' /\ ops' \in [Workers -> Op \cup {Idle}]
    BY <1>5, <2>0, <2>1, <2>2, GoStep DEF DelOwner, Places
  <2>6. TypeOK'
    BY <1>0, <1>5, <2>4 DEF DelOwner, NoFault, Fault, TypeOK, history
  <2> QED
    BY <2>4, <2>6 DEF Inv
<1>6. CASE ListShares(w)
  <2>0. ops[w] # Idle /\ ops[w] \in Op /\ OpOK(ops[w])
    BY <1>6, <1>0 DEF ListShares, At
  <2>1. Kept /\ UNCHANGED <<tables, store, history>>
    BY <1>6 DEF ListShares, Kept, tables, history
  <2>2. PICK listed \in {virt \cap SharesOf(ops[w].lib), {}} :
          ops' = [ops EXCEPT ![w].todo = listed, ![w].at = "next"]
    BY <1>6 DEF ListShares
  <2> DEFINE o == [ops[w] EXCEPT !.todo = listed, !.at = "next"]
  <2>3. o \in Op
    BY <1>0, <2>0, <2>2 DEF Op, Places, TypeOK
  <2>4. ops' = [ops EXCEPT ![w] = o]
    BY <1>0, <2>2 DEF TypeOK
  <2>5. /\ ops' \in [Workers -> Op \cup {Idle}] /\ Others(w) /\ ops'[w] = o
    BY <1>0, <2>3, <2>4, ChangeFacts
  <2>6. OpOK(ops[w])' /\ ops'[w].kind # "create"
    BY <1>6, <2>0, <2>1, <2>5 
       DEF ListShares, At, OpOK, Op, Kinds, CreateOK, DeleteOK, UnshareOK, PurgeOK, RestoreOK, history
  <2>7. OpsOK' /\ CreatesApart'
    BY <2>1, <2>5, <2>6, OpsStep
  <2>8. TypeOK'
    BY <1>0, <1>6, <2>1, <2>5 DEF ListShares, NoFault, Fault, TypeOK, tables, history
  <2> QED
    BY <2>7, <2>8 DEF Inv
<1>7. CASE NextShare(w)
  <2>0. ops[w] # Idle /\ ops[w] \in Op /\ OpOK(ops[w])
    BY <1>7, <1>0 DEF NextShare, At
  <2>1. Kept /\ UNCHANGED <<tables, store, history>>
    BY <1>7 DEF NextShare, Kept, tables, history
  <2>2. ASSUME NEW v \in ops[w].todo,
               ops' = [ops EXCEPT ![w].on = v, ![w].todo = @ \ {v}, ![w].at = "repo"]
        PROVE  OpsOK' /\ CreatesApart' /\ ops' \in [Workers -> Op \cup {Idle}]
    <3> DEFINE o == [ops[w] EXCEPT !.on = v, !.todo = @ \ {v}, !.at = "repo"]
    <3>0. v \in VRepos
      BY <2>0 DEF Op
    <3>1. o \in Op
      BY <2>0, <3>0 DEF Op, Places, Ids
    <3>2. ops' = [ops EXCEPT ![w] = o]
      BY <1>0, <2>2 DEF TypeOK
    <3>3. /\ ops' \in [Workers -> Op \cup {Idle}] /\ Others(w) /\ ops'[w] = o
      BY <1>0, <3>1, <3>2, ChangeFacts
    <3>4. ops[w].kind = "delete" /\ ops[w].lib \in created
      BY <1>7, <2>0
         DEF NextShare, At, OpOK, Op, Kinds, CreateOK, DeleteOK, UnshareOK, PurgeOK, RestoreOK
    <3>5. ops'[w].kind = "delete" /\ DeleteOK(ops[w])'
      BY <2>0, <2>1, <3>0, <3>3, <3>4 DEF DeleteOK, Op, history
    <3>6. OpOK(ops[w])'
      BY <3>5 DEF OpOK
    <3> QED
      BY <2>1, <3>3, <3>5, <3>6, OpsStep
  <2>3. ASSUME Go(w, "virt")
        PROVE  OpsOK' /\ CreatesApart' /\ ops' \in [Workers -> Op \cup {Idle}]
    <3>1. OpOK(ops[w])'
      BY <1>0, <1>7, <2>0, <2>1, <2>3, GoFacts
         DEF NextShare, At, Places, OpOK, CreateOK, DeleteOK, UnshareOK, PurgeOK, RestoreOK, history
    <3> QED
      BY <2>0, <2>1, <2>3, <3>1, GoStep DEF Places
  <2>4. OpsOK' /\ CreatesApart' /\ ops' \in [Workers -> Op \cup {Idle}]
    BY <1>7, <2>2, <2>3 DEF NextShare
  <2>5. TypeOK'
    BY <1>0, <1>7, <2>1, <2>4 DEF NextShare, TypeOK, tables, history
  <2> QED
    BY <2>4, <2>5 DEF Inv
<1>8. CASE DelVirtualRows(w)
  <2>0. ops[w] # Idle /\ ops[w] \in Op /\ OpOK(ops[w])
    BY <1>8, <1>0 DEF DelVirtualRows, At
  <2>1. Kept
    BY <1>8 DEF DelVirtualRows, Kept, history
  <2>2. ASSUME ops[w].kind = "delete",
               ops' = [ops EXCEPT ![w].on = ops[w].lib, ![w].at = "garbage"]
        PROVE  OpsOK' /\ CreatesApart' /\ ops' \in [Workers -> Op \cup {Idle}]
    <3> DEFINE o == [ops[w] EXCEPT !.on = ops[w].lib, !.at = "garbage"]
    <3>1. o \in Op
      BY <2>0 DEF Op, Places
    <3>2. ops' = [ops EXCEPT ![w] = o]
      BY <1>0, <2>2 DEF TypeOK
    <3>3. /\ ops' \in [Workers -> Op \cup {Idle}] /\ Others(w) /\ ops'[w] = o
      BY <1>0, <3>1, <3>2, ChangeFacts
    <3>4. ops'[w].kind = "delete" /\ DeleteOK(ops[w])'
      BY <1>8, <2>0, <2>2, <3>3 DEF DelVirtualRows, OpOK, DeleteOK, Op, history
    <3>5. OpOK(ops[w])'
      BY <3>4 DEF OpOK
    <3> QED
      BY <2>1, <3>3, <3>4, <3>5, OpsStep
  <2>3. OpsOK' /\ CreatesApart' /\ ops' \in [Workers -> Op \cup {Idle}]
    BY <1>8, <2>1, <2>2, EndStep DEF DelVirtualRows
  <2>4. TypeOK'
    BY <1>0, <1>8, <2>3 DEF DelVirtualRows, NoFault, Fault, TypeOK, history
  <2> QED
    BY <2>3, <2>4 DEF Inv
<1> QED
  BY <1>1, <1>2, <1>3, <1>4, <1>5, <1>6, <1>7, <1>8 DEF Delete

\* Records for the collector, purge and restore
LEMMA TrashInv == ASSUME Inv, NEW w \in Workers, Trash(w) PROVE Inv'
<1> USE LifeAssumption
<1>0. TypeOK /\ (ops[w] # Idle => ops[w] \in Op /\ OpOK(ops[w]))
  BY InProgress DEF Inv, OpsOK
<1>1. CASE AddDeletedRepoRecord(w)
  <2>0. ops[w] # Idle /\ ops[w] \in Op /\ OpOK(ops[w])
    BY <1>1, <1>0 DEF AddDeletedRepoRecord, At
  <2>1. Kept
    BY <1>1 DEF AddDeletedRepoRecord, Kept, history
  <2>2. /\ ops[w].kind \in {"unshare", "delete", "purge"}
        /\ ops[w].kind = "delete" => ops[w].on \in Libs \cup VRepos
    BY <1>1, <2>0 DEF AddDeletedRepoRecord, At, OpOK, Op, Kinds, Ids,
       CreateOK, DeleteOK, UnshareOK, PurgeOK, RestoreOK
  <2>3. ASSUME NEW at \in {"virt", "next", "trash"}, Go(w, at),
               at = "virt" => ops[w].kind = "unshare",
               at = "next" => ops[w].kind = "delete",
               at = "trash" => ops[w].kind = "purge"
        PROVE  OpOK(ops[w])'
    BY <1>0, <1>1, <2>0, <2>2, <2>3, GoFacts
       DEF AddDeletedRepoRecord, Places, OpOK, DeleteOK, UnshareOK, PurgeOK, history
  <2>4. ASSUME NEW b \in BOOLEAN, AfterRecord(w, b)
        PROVE  \/ End(w)
               \/ Go(w, "virt") /\ ops[w].kind = "unshare"
               \/ Go(w, "next") /\ ops[w].kind = "delete"
               \/ Go(w, "trash") /\ ops[w].kind = "purge"
    BY <2>2, <2>4 DEF AfterRecord
  <2>5. OpsOK' /\ CreatesApart' /\ ops' \in [Workers -> Op \cup {Idle}]
    <3>1. \/ End(w)
          \/ Go(w, "virt") /\ ops[w].kind = "unshare"
          \/ Go(w, "next") /\ ops[w].kind = "delete"
          \/ Go(w, "trash") /\ ops[w].kind = "purge"
      BY <1>1, <2>4 DEF AddDeletedRepoRecord
    <3> QED
      BY <2>0, <2>1, <2>3, <3>1, GoStep, EndStep DEF Places
  <2>6. garbage' \in SUBSET Ids
    BY <1>0, <1>1, <2>0 DEF AddDeletedRepoRecord, TypeOK, Op
  <2>7. faults' \in 0..MaxFaults
    <3>1. faults' = faults \/ (faults < MaxFaults /\ faults' = faults + 1)
      BY <1>1, Zenon DEF AddDeletedRepoRecord, NoFault, Fault
    <3> QED
      BY <1>0, <3>1 DEF TypeOK
  <2>8. TypeOK'
    BY <1>0, <1>1, <2>5, <2>6, <2>7 DEF AddDeletedRepoRecord, TypeOK, history
  <2> QED
    BY <2>5, <2>8 DEF Inv
<1>2. CASE DelFromTrash(w)
  <2>1. Kept
    BY <1>2 DEF DelFromTrash, Kept, history
  <2>2. OpsOK' /\ CreatesApart' /\ ops' \in [Workers -> Op \cup {Idle}]
    BY <1>2, <2>1, EndStep DEF DelFromTrash
  <2>3. TypeOK'
    BY <1>0, <1>2, <2>2 DEF DelFromTrash, NoFault, Fault, TypeOK, history
  <2> QED
    BY <2>2, <2>3 DEF Inv
<1>3. CASE GetRepoFromTrash(w)
  <2>0. ops[w] # Idle /\ ops[w] \in Op /\ OpOK(ops[w]) /\ ops[w].kind = "restore"
    BY <1>3, <1>0 DEF GetRepoFromTrash, At
  <2>1. Kept /\ UNCHANGED <<tables, store, history>>
    BY <1>3 DEF GetRepoFromTrash, Kept, tables, history
  <2>2. ASSUME trash[ops[w].lib] # 0, ops[w].lib \in store,
               ops' = [ops EXCEPT ![w].h = trash[ops[w].lib], ![w].at = "transaction"]
        PROVE  OpsOK' /\ CreatesApart' /\ ops' \in [Workers -> Op \cup {Idle}]
    <3> DEFINE o == [ops[w] EXCEPT !.h = trash[ops[w].lib], !.at = "transaction"]
    <3>0. trash[ops[w].lib] \in Nat
      BY <1>0, <2>0 DEF TypeOK, OpOK, RestoreOK
    <3>1. o \in Op
      BY <2>0, <3>0 DEF Op, Places
    <3>2. ops' = [ops EXCEPT ![w] = o]
      BY <1>0, <2>2 DEF TypeOK
    <3>3. /\ ops' \in [Workers -> Op \cup {Idle}] /\ Others(w) /\ ops'[w] = o
      BY <1>0, <3>1, <3>2, ChangeFacts
    <3>4. ops'[w].kind = "restore" /\ RestoreOK(ops[w])'
      BY <2>0, <2>1, <2>2, <3>3 DEF OpOK, RestoreOK, Op
    <3>5. OpOK(ops[w])'
      BY <3>4 DEF OpOK
    <3> QED
      BY <2>1, <3>3, <3>4, <3>5, OpsStep
  <2>3. OpsOK' /\ CreatesApart' /\ ops' \in [Workers -> Op \cup {Idle}]
    BY <1>3, <2>1, <2>2, EndStep DEF GetRepoFromTrash
  <2>4. TypeOK'
    BY <1>0, <1>3, <2>1, <2>3 DEF GetRepoFromTrash, NoFault, Fault, TypeOK, tables, history
  <2> QED
    BY <2>3, <2>4 DEF Inv
<1>4. CASE RestoreFromTrash(w)
  <2>0. /\ ops[w] # Idle /\ ops[w] \in Op /\ OpOK(ops[w]) /\ ops[w].kind = "restore"
        /\ RestoreOK(ops[w])
    BY <1>4, <1>0 DEF RestoreFromTrash, At, OpOK, Op, Kinds,
       CreateOK, DeleteOK, UnshareOK, PurgeOK
  <2>1. /\ RestoredHead(ops[w].lib, ops[w].h) \in [Ids -> Nat]
        /\ \A l \in Ids : head[l] # 0 => RestoredHead(ops[w].lib, ops[w].h)[l] # 0
    BY <1>0, <2>0 DEF RestoredHead, TypeOK, Op, RestoreOK
  <2>2. head' \in [Ids -> Nat] /\ \A l \in Ids : head[l] # 0 => head'[l] # 0
    BY <1>0, <1>4, <2>1 DEF RestoreFromTrash, TypeOK
  <2>3. Kept
    BY <1>4, <2>2 DEF RestoreFromTrash, Kept, history, Ids
  <2>4. OpsOK' /\ CreatesApart' /\ ops' \in [Workers -> Op \cup {Idle}]
    BY <1>4, <2>3, EndStep DEF RestoreFromTrash
  <2>5. TypeOK'
    BY <1>0, <1>4, <2>0, <2>2, <2>4 
       DEF RestoreFromTrash, NoFault, Fault, TypeOK, RestoreOK, Ids, history
  <2> QED
    BY <2>4, <2>5 DEF Inv
<1> QED
  BY <1>1, <1>2, <1>3, <1>4 DEF Trash

\* Commits, the collector and crashes; stuttering
LEMMA OtherInv ==
  ASSUME Inv
  PROVE  /\ \A l \in Libs : Commit(l) => Inv'
         /\ \A i \in Ids : Collect(i) => Inv'
         /\ Crash => Inv'
         /\ UNCHANGED vars => Inv'
<1> USE LifeAssumption
<1>1. ASSUME NEW l \in Libs, Commit(l) PROVE Inv'
  <2>1. Kept /\ ops' = ops
    BY <1>1 DEF Commit, Kept, history, Inv, TypeOK, Ids
  <2>2. OpsOK' /\ CreatesApart'
    BY <1>1, <2>1 DEF Commit, Kept, Inv, OpsOK, CreatesApart, OpOK, CreateOK, DeleteOK,
       UnshareOK, PurgeOK, RestoreOK, history
  <2>3. TypeOK'
    BY <1>1 DEF Commit, Inv, TypeOK, Ids, history
  <2> QED
    BY <2>2, <2>3 DEF Inv
<1>2. ASSUME NEW i \in Ids, Collect(i) PROVE Inv'
  <2>1. OpsOK' /\ CreatesApart'
    BY <1>2 DEF Collect, AllIdle, OpsOK, CreatesApart, Idle
  <2>2. TypeOK'
    BY <1>2 DEF Collect, Inv, TypeOK, history
  <2> QED
    BY <2>1, <2>2 DEF Inv
<1>3. ASSUME Crash PROVE Inv'
  BY <1>3 DEF Crash, Inv, TypeOK, OpsOK, CreatesApart, Idle, tables, history
<1>4. ASSUME UNCHANGED vars PROVE Inv'
  BY <1>4 DEF vars, tables, history, Inv, TypeOK, OpsOK, CreatesApart, OpOK, CreateOK,
     DeleteOK, UnshareOK, PurgeOK, RestoreOK
<1> QED
  BY <1>1, <1>2, <1>3, <1>4

\* Every step keeps the types and what is known of the operations.
LEMMA NextInv == Inv /\ [Next]_vars => Inv'
  BY StartInv, CreateInv, DeleteInv, TrashInv, OtherInv DEF Next

\* The tables, the operations and the counters keep their types: no operation
\* reads an error value as a head, or leaves a statement for another kind.
THEOREM TypeCorrect == Spec => []TypeOK
<1>1. Init => Inv
  BY InitInv
<1>2. Inv /\ [Next]_vars => Inv'
  BY NextInv
<1>3. Inv => TypeOK
  BY DEF Inv
<1> QED
  BY <1>1, <1>2, <1>3, PTL DEF Spec

-----------------------------------------------------------------------------
(* A library one can open is complete, without overlapping deletions.      *)

Complete(l) == head[l] # 0 /\ l \in owner /\ l \in store

\* A deletion that has not come to its statement on table Repo
BeforeRepo(o) == o.on = o.lib /\ o.at \in {"read", "trash", "repo"}

DeleteLive ==
    \A w \in Workers : ops[w].kind = "delete" =>
        /\ BeforeRepo(ops[w]) => (ops[w].lib \in repo => Complete(ops[w].lib))
        /\ ~BeforeRepo(ops[w]) => ops[w].lib \notin repo

\* What the web server sees to
DeletesApart ==
    \A w, x \in Workers :
        w # x /\ ops[w].kind = "delete" /\ ops[x].kind \in {"delete", "restore"}
            => ops[w].lib # ops[x].lib

Live ==
    /\ \A l \in created \cap repo : ~Busy(l, {"delete"}) => Complete(l)
    /\ DeleteLive
    /\ DeletesApart

\* No library that was created comes into table Repo or loses a part there.
Steady ==
    /\ created' = created
    /\ \A l \in created : l \in repo' => l \in repo /\ (Complete(l) => Complete(l)')

\* A step that brings no library into table Repo, and takes no part of one there, keeps
\* libraries complete; a deletion that goes past its statement on Repo leaves no row.
LEMMA LiveStep ==
  ASSUME Inv, Live, NEW w \in Workers, Others(w), Steady,
         ops'[w].kind \in {"delete", "restore"} =>
             ops[w].kind = ops'[w].kind /\ ops[w].lib = ops'[w].lib,
         ops'[w].kind = "delete" =>
             /\ BeforeRepo(ops[w])' => BeforeRepo(ops[w])
             /\ BeforeRepo(ops[w]) /\ ~BeforeRepo(ops[w])' => ops[w].lib \notin repo'
  PROVE  Live'
<1>0. \A x \in Workers : ops[x].kind = "delete" => ops[x].lib \in created
  BY DEF Inv, OpsOK, OpOK, DeleteOK, Idle
<1>1. ASSUME NEW l \in created' \cap repo', ~Busy(l, {"delete"})' PROVE Complete(l)'
  <2>1. l \in created /\ l \in repo /\ (Complete(l) => Complete(l)')
    BY <1>1 DEF Steady
  <2>2. CASE ~Busy(l, {"delete"})
    BY <2>1, <2>2 DEF Live
  <2>3. CASE Busy(l, {"delete"})
    <3>1. ops[w].kind = "delete" /\ ops[w].lib = l
      BY <1>1, <2>3 DEF Busy, Others
    <3>2. Complete(l)
      BY <2>1, <3>1 DEF Live, DeleteLive
    <3> QED
      BY <2>1, <3>2
  <2> QED
    BY <2>2, <2>3
<1>2. DeleteLive'
  <2> SUFFICES ASSUME NEW x \in Workers, ops'[x].kind = "delete"
      PROVE  /\ BeforeRepo(ops[x])' => (ops'[x].lib \in repo' => Complete(ops[x].lib)')
             /\ ~BeforeRepo(ops[x])' => ops'[x].lib \notin repo'
    BY DEF DeleteLive
  <2>1. ops[x].kind = "delete" /\ ops'[x].lib = ops[x].lib /\ ops[x].lib \in created
    BY <1>0 DEF Others
  <2>2. BeforeRepo(ops[x])' => BeforeRepo(ops[x])
    BY DEF Others, BeforeRepo
  <2>3. ~BeforeRepo(ops[x])' => ~BeforeRepo(ops[x]) \/ ops[x].lib \notin repo'
    BY DEF Others, BeforeRepo
  <2>4. ops[x].lib \in repo' =>
          ops[x].lib \in repo /\ (Complete(ops[x].lib) => Complete(ops[x].lib)')
    <3>1. ASSUME NEW l \in created, l = ops[x].lib, l \in repo', Complete(l)
          PROVE  Complete(ops[x].lib)'
      BY <2>1, <3>1 DEF Steady, Complete
    <3> QED
      BY <2>1, <3>1 DEF Steady
  <2>5. /\ BeforeRepo(ops[x]) => (ops[x].lib \in repo => Complete(ops[x].lib))
        /\ ~BeforeRepo(ops[x]) => ops[x].lib \notin repo
    BY <2>1 DEF Live, DeleteLive
  <2> QED
    BY <2>1, <2>2, <2>3, <2>4, <2>5
<1>3. DeletesApart'
  BY DEF DeletesApart, Live, Others
<1> QED
  BY <1>1, <1>2, <1>3 DEF Live

\* The libraries that exist at first are complete.
LEMMA InitLive == Init => Live
<1> SUFFICES ASSUME Init PROVE Live
  OBVIOUS
<1>1. \A w \in Workers : ops[w].kind = "none"
  BY DEF Init, Idle
<1>2. \A l \in created : Complete(l)
  BY LifeAssumption DEF Init, Complete, Ids
<1> QED
  BY <1>1, <1>2 DEF Live, DeleteLive, DeletesApart

\* An operation begins: a deletion finds the library complete.
LEMMA StartLive ==
  ASSUME ~Overlaps, Inv, Live, NEW w \in Workers, Start(w) PROVE Live'
<1> USE LifeAssumption
<1>0. ops[w] = Idle /\ ops[w].kind = "none"
  BY DEF Start, StartCreate, StartDelete, StartPurge, StartRestore, StartUnshare, Idle
<1>1. ASSUME UNCHANGED <<tables, store, created>>, NEW kind \in {"create", "unshare", "purge"},
             NEW i \in Ids, NEW at \in Places, ops' = [ops EXCEPT ![w] = Started(kind, i, at)]
      PROVE  Live'
  <2>1. Others(w) /\ ops'[w] = Started(kind, i, at)
    BY <1>1, StartedType, ChangeFacts DEF Inv, Kinds
  <2>2. ops'[w].kind \notin {"delete", "restore"}
    BY <1>1, <2>1 DEF Started
  <2>3. Steady
    BY <1>1 DEF Steady, Complete, tables
  <2> QED
    BY <2>1, <2>2, <2>3, LiveStep
<1>2. ASSUME NEW l \in Libs, StartDelete(w, l) PROVE Live'
  <2>1. Others(w) /\ ops'[w] = Started("delete", l, "read")
    BY <1>2, StartedType, ChangeFacts DEF StartDelete, Inv, Kinds, Places, Ids
  <2>2. l \in created /\ l \in repo /\ ~Busy(l, {"delete", "restore"})
    BY <1>2 DEF StartDelete
  <2>3. UNCHANGED <<repo, head, owner, store, created>>
    BY <1>2 DEF StartDelete, tables
  <2>4. Complete(l)
    BY <2>2 DEF Live, Busy
  <2>5. ASSUME NEW k \in created' \cap repo', ~Busy(k, {"delete"})' PROVE Complete(k)'
    <3>1. ~Busy(k, {"delete"})
      BY <1>0, <2>1, <2>5 DEF Busy, Others
    <3> QED
      BY <2>3, <2>5, <3>1 DEF Live, Complete
  <2>6. DeleteLive'
    BY <2>1, <2>2, <2>3, <2>4 DEF Live, DeleteLive, Others, BeforeRepo, Started, Complete
  <2>7. DeletesApart'
    BY <2>1, <2>2 DEF Live, DeletesApart, Others, Started, Busy
  <2> QED
    BY <2>5, <2>6, <2>7 DEF Live
<1>3. ASSUME NEW l \in Libs, StartRestore(w, l) PROVE Live'
  <2>1. Others(w) /\ ops'[w] = Started("restore", l, "read")
    BY <1>3, StartedType, ChangeFacts DEF StartRestore, Inv, Kinds, Places, Ids
  <2>2. ~Busy(l, {"delete"})
    BY <1>3 DEF StartRestore
  <2>3. UNCHANGED <<repo, head, owner, store, created>>
    BY <1>3 DEF StartRestore, tables, history
  <2>5. ASSUME NEW k \in created' \cap repo', ~Busy(k, {"delete"})' PROVE Complete(k)'
    <3>1. ~Busy(k, {"delete"})
      BY <1>0, <2>1, <2>5 DEF Busy, Others
    <3> QED
      BY <2>3, <2>5, <3>1 DEF Live, Complete
  <2>6. DeleteLive'
    BY <2>1, <2>3 DEF Live, DeleteLive, Others, BeforeRepo, Started, Complete
  <2>7. DeletesApart'
    BY <2>1, <2>2 DEF Live, DeletesApart, Others, Started, Busy
  <2> QED
    BY <2>5, <2>6, <2>7 DEF Live
<1>4. ASSUME NEW l \in Libs, StartCreate(w, l) \/ StartPurge(w, l) PROVE Live'
  BY <1>1, <1>4 DEF StartCreate, StartPurge, Ids, Places, history
<1>5. ASSUME NEW v \in VRepos, StartUnshare(w, v) PROVE Live'
  BY <1>1, <1>5 DEF StartUnshare, Ids, Places, history
<1> QED
  BY <1>2, <1>3, <1>4, <1>5 DEF Start

\* An operation ends.
LEMMA EndLive ==
  ASSUME Inv, Live, NEW w \in Workers, Steady, End(w) PROVE Live'
  BY EndFacts, LiveStep DEF Inv, Idle

\* An operation other than a deletion goes on.
LEMMA GoLive ==
  ASSUME Inv, Live, NEW w \in Workers, ops[w] # Idle, Steady,
         NEW at \in Places, Go(w, at), ops[w].kind # "delete"
  PROVE  Live'
  BY GoFacts, LiveStep DEF Inv

\* Creation puts the row in table Repo last, and the library counts as created
\* when it has its owner.
LEMMA CreateLive ==
  ASSUME Inv, Live, NEW w \in Workers, Create(w) PROVE Live'
<1> USE LifeAssumption
<1>0. TypeOK /\ (ops[w] # Idle => ops[w] \in Op /\ OpOK(ops[w]))
  BY InProgress DEF Inv, OpsOK
<1>1. CASE AddCommit(w)
  <2>1. ops[w].kind # "delete" /\ ops[w] # Idle
    BY <1>0, <1>1 DEF AddCommit, At, OpOK, DeleteOK
  <2>2. Steady
    BY <1>1 DEF AddCommit, Steady, Complete, tables, history
  <2> QED
    BY <1>1, <2>1, <2>2, GoLive DEF AddCommit, Places
<1>2. CASE AddBranch(w)
  <2>1. ops[w].kind # "delete" /\ ops[w] # Idle /\ CreateOK(ops[w])
    BY <1>0, <1>2 DEF AddBranch, At, OpOK
  <2>2. Steady
    BY <1>0, <1>2, <2>1 DEF AddBranch, Steady, Complete, history, CreateOK, TypeOK, Ids
  <2> QED
    BY <1>2, <2>1, <2>2, GoLive DEF AddBranch, Places
<1>3. CASE AddRepo(w)
  <2>1. ops[w].kind # "delete" /\ ops[w] # Idle /\ CreateOK(ops[w])
    BY <1>0, <1>3 DEF AddRepo, At, OpOK
  <2>2. Steady
    BY <1>0, <1>3, <2>1 DEF AddRepo, Steady, Complete, history, CreateOK
  <2> QED
    BY <1>3, <2>1, <2>2, GoLive DEF AddRepo, Places
<1>4. CASE SetOwner(w)
  <2>1. /\ ops[w].kind = "create" /\ ops[w] # Idle /\ CreateOK(ops[w]) /\ ops[w].at = "owner"
    BY <1>0, <1>4 DEF SetOwner, At, OpOK
  <2>2. Others(w) /\ ops'[w] = Idle /\ ops'[w].kind = "none"
    BY <1>0, <1>4, EndFacts DEF SetOwner, Idle
  <2>3. /\ UNCHANGED <<repo, head, store>> /\ created' = created \cup {ops[w].lib}
        /\ owner' = owner \cup {ops[w].lib}
    BY <1>4 DEF SetOwner
  <2>4. ASSUME NEW k \in created' \cap repo', ~Busy(k, {"delete"})' PROVE Complete(k)'
    <3>1. ~Busy(k, {"delete"})
      BY <2>1, <2>2, <2>4 DEF Busy, Others
    <3>2. CASE k = ops[w].lib
      BY <2>1, <2>3, <3>2 DEF CreateOK, Complete
    <3>3. CASE k # ops[w].lib
      BY <2>3, <2>4, <3>1, <3>3 DEF Live, Complete
    <3> QED
      BY <3>2, <3>3
  <2>5. DeleteLive'
    BY <2>2, <2>3 DEF Live, DeleteLive, Others, BeforeRepo, Complete
  <2>6. DeletesApart'
    BY <2>2 DEF Live, DeletesApart, Others
  <2> QED
    BY <2>4, <2>5, <2>6 DEF Live
<1>5. CASE CreateFails(w)
  <2>1. ops[w].kind = "create" /\ ops[w] # Idle
    BY <1>5 DEF CreateFails, Idle
  <2>2. Steady
    BY <1>5 DEF CreateFails, Steady, Complete, tables, history
  <2> QED
    BY <1>5, <2>1, <2>2, EndLive DEF CreateFails
<1> QED
  BY <1>1, <1>2, <1>3, <1>4, <1>5 DEF Create

\* Deletion takes the row of table Repo first.
LEMMA DeleteKeepsLive ==
  ASSUME Inv, Live, NEW w \in Workers, Delete(w) PROVE Live'
<1> USE LifeAssumption
<1>0. TypeOK /\ (ops[w] # Idle => ops[w] \in Op /\ OpOK(ops[w]))
  BY InProgress DEF Inv, OpsOK
<1>1. CASE GetHeadCommit(w)
  <2>0. ops[w] # Idle /\ ops[w] \in Op /\ ops[w].at = "read"
    BY <1>0, <1>1 DEF GetHeadCommit, At
  <2>1. Steady
    BY <1>1 DEF GetHeadCommit, Steady, Complete, tables, history
  <2>2. ASSUME NEW h, ReadHead(w, h) PROVE Live'
    <3>1. ops' = [ops EXCEPT ![w] =
                    [ops[w] EXCEPT !.h = h, !.at = IF h = 0 THEN "repo" ELSE "trash"]]
      BY <1>0, <2>2 DEF ReadHead, TypeOK
    <3>2. /\ Others(w) /\ ops'[w].kind = ops[w].kind /\ ops'[w].lib = ops[w].lib
          /\ ops'[w].on = ops[w].on /\ ops'[w].at \in {"repo", "trash"}
      BY <1>0, <2>0, <3>1 DEF TypeOK, Others, Op
    <3> QED
      BY <2>0, <2>1, <3>2, LiveStep DEF BeforeRepo
  <2>3. ASSUME End(w) PROVE Live'
    BY <2>0, <2>1, <2>3, EndLive
  <2> QED
    BY <1>1, <2>2, <2>3 DEF GetHeadCommit
<1>2. CASE AddToTrash(w)
  <2>0. ops[w] # Idle /\ ops[w].at = "trash"
    BY <1>2 DEF AddToTrash, At
  <2>1. Steady
    BY <1>2 DEF AddToTrash, Steady, Complete, history
  <2>2. /\ Others(w) /\ ops'[w].kind = ops[w].kind /\ ops'[w].lib = ops[w].lib
        /\ ops'[w].on = ops[w].on /\ ops'[w].at = "repo"
    BY <1>0, <1>2, <2>0, GoFacts DEF AddToTrash, Places
  <2> QED
    BY <2>0, <2>1, <2>2, LiveStep DEF BeforeRepo
<1>3. CASE DelRepoRow(w)
  <2>0. ops[w] # Idle /\ ops[w].at = "repo"
    BY <1>3 DEF DelRepoRow, At
  <2>1. Steady
    BY <1>3 DEF DelRepoRow, Steady, Complete, history
  <2>2. CASE End(w)
    BY <2>0, <2>1, <2>2, EndLive
  <2>3. CASE repo' = repo \ {ops[w].on} /\ Go(w, "branch")
    <3>1. /\ Others(w) /\ ops'[w].kind = ops[w].kind /\ ops'[w].lib = ops[w].lib
          /\ ops'[w].on = ops[w].on /\ ops'[w].at = "branch"
      BY <1>0, <2>0, <2>3, GoFacts DEF Places
    <3> QED
      BY <2>0, <2>1, <2>3, <3>1, LiveStep DEF BeforeRepo
  <2>4. CASE ops[w].on # ops[w].lib /\ Go(w, "next")
    <3>1. /\ Others(w) /\ ops'[w].kind = ops[w].kind /\ ops'[w].lib = ops[w].lib
          /\ ops'[w].on = ops[w].on /\ ops'[w].at = "next"
      BY <1>0, <2>0, <2>4, GoFacts DEF Places
    <3> QED
      BY <2>0, <2>1, <2>4, <3>1, LiveStep DEF BeforeRepo
  <2> QED
    BY <1>3, <2>2, <2>3, <2>4 DEF DelRepoRow
<1>4. CASE DelBranch(w)
  <2>0. ops[w] # Idle /\ ops[w].at = "branch" /\ OpOK(ops[w]) /\ ops[w].kind \in {"delete", "unshare"}
    BY <1>0, <1>4 DEF DelBranch, At
  <2>1. \A l \in created : l \in repo => l # ops[w].on
    BY <1>0, <2>0 DEF Live, DeleteLive, BeforeRepo, OpOK, DeleteOK, UnshareOK, TypeOK
  <2>2. Steady
    BY <1>0, <1>4, <2>1 DEF DelBranch, Steady, Complete, history, TypeOK, Ids
  <2>3. /\ Others(w) /\ ops'[w].kind = ops[w].kind /\ ops'[w].lib = ops[w].lib
        /\ ops'[w].on = ops[w].on /\ ops'[w].at = "owner"
    BY <1>0, <1>4, <2>0, GoFacts DEF DelBranch, Places
  <2> QED
    BY <2>0, <2>2, <2>3, LiveStep DEF BeforeRepo
<1>5. CASE DelOwner(w)
  <2>0. ops[w] # Idle /\ ops[w].at = "owner" /\ OpOK(ops[w]) /\ ops[w].kind \in {"delete", "unshare"}
    BY <1>0, <1>5 DEF DelOwner, At
  <2>1. \A l \in created : l \in repo => l # ops[w].on
    BY <1>0, <2>0 DEF Live, DeleteLive, BeforeRepo, OpOK, DeleteOK, UnshareOK, TypeOK
  <2>2. Steady
    BY <1>5, <2>1 DEF DelOwner, Steady, Complete, history
  <2>3. /\ Others(w) /\ ops'[w].kind = ops[w].kind /\ ops'[w].lib = ops[w].lib
        /\ ops'[w].on = ops[w].on /\ ops'[w].at \in {"shares", "garbage"}
    BY <1>0, <1>5, <2>0, GoFacts DEF DelOwner, Places
  <2> QED
    BY <2>0, <2>2, <2>3, LiveStep DEF BeforeRepo
<1>6. CASE ListShares(w)
  <2>0. ops[w] # Idle /\ ops[w] \in Op /\ ops[w].at = "shares"
    BY <1>0, <1>6 DEF ListShares, At
  <2>1. Steady
    BY <1>6 DEF ListShares, Steady, Complete, tables, history
  <2>2. PICK listed \in {virt \cap SharesOf(ops[w].lib), {}} :
          ops' = [ops EXCEPT ![w].todo = listed, ![w].at = "next"]
    BY <1>6 DEF ListShares
  <2>3. ops' = [ops EXCEPT ![w] = [ops[w] EXCEPT !.todo = listed, !.at = "next"]]
    BY <1>0, <2>2 DEF TypeOK
  <2>4. /\ Others(w) /\ ops'[w].kind = ops[w].kind /\ ops'[w].lib = ops[w].lib
        /\ ops'[w].on = ops[w].on /\ ops'[w].at = "next"
    BY <1>0, <2>0, <2>3 DEF TypeOK, Others, Op
  <2> QED
    BY <2>0, <2>1, <2>4, LiveStep DEF BeforeRepo
<1>7. CASE NextShare(w)
  <2>0. ops[w] # Idle /\ ops[w] \in Op /\ ops[w].at = "next" /\ OpOK(ops[w])
    BY <1>0, <1>7 DEF NextShare, At
  <2>1. Steady
    BY <1>7 DEF NextShare, Steady, Complete, tables, history
  <2>2. ASSUME NEW v \in ops[w].todo,
               ops' = [ops EXCEPT ![w].on = v, ![w].todo = @ \ {v}, ![w].at = "repo"]
        PROVE  Live'
    <3>1. ops' = [ops EXCEPT ![w] =
                    [ops[w] EXCEPT !.on = v, !.todo = @ \ {v}, !.at = "repo"]]
      BY <1>0, <2>2 DEF TypeOK
    <3>2. /\ Others(w) /\ ops'[w].kind = ops[w].kind /\ ops'[w].lib = ops[w].lib
          /\ ops'[w].on = v
      BY <1>0, <2>0, <3>1 DEF TypeOK, Others, Op
    <3>3. ops[w].kind = "delete" => v # ops[w].lib
      BY <1>0, <2>0, <2>2 DEF OpOK, DeleteOK, TypeOK, Op
    <3> QED
      BY <2>0, <2>1, <3>2, <3>3, LiveStep DEF BeforeRepo
  <2>3. ASSUME Go(w, "virt") PROVE Live'
    <3>1. /\ Others(w) /\ ops'[w].kind = ops[w].kind /\ ops'[w].lib = ops[w].lib
          /\ ops'[w].on = ops[w].on /\ ops'[w].at = "virt"
      BY <1>0, <2>0, <2>3, GoFacts DEF Places
    <3> QED
      BY <2>0, <2>1, <3>1, LiveStep DEF BeforeRepo
  <2> QED
    BY <1>7, <2>2, <2>3 DEF NextShare
<1>8. CASE DelVirtualRows(w)
  <2>0. ops[w] # Idle /\ ops[w] \in Op /\ ops[w].at = "virt"
    BY <1>0, <1>8 DEF DelVirtualRows, At
  <2>1. Steady
    BY <1>8 DEF DelVirtualRows, Steady, Complete, history
  <2>2. ASSUME ops' = [ops EXCEPT ![w].on = ops[w].lib, ![w].at = "garbage"] PROVE Live'
    <3>1. ops' = [ops EXCEPT ![w] = [ops[w] EXCEPT !.on = ops[w].lib, !.at = "garbage"]]
      BY <1>0, <2>2 DEF TypeOK
    <3>2. /\ Others(w) /\ ops'[w].kind = ops[w].kind /\ ops'[w].lib = ops[w].lib
          /\ ops'[w].at = "garbage"
      BY <1>0, <2>0, <3>1 DEF TypeOK, Others, Op
    <3> QED
      BY <2>0, <2>1, <3>2, LiveStep DEF BeforeRepo
  <2> QED
    BY <1>8, <2>0, <2>1, <2>2, EndLive DEF DelVirtualRows
<1> QED
  BY <1>1, <1>2, <1>3, <1>4, <1>5, <1>6, <1>7, <1>8 DEF Delete

\* The restore puts back all that is missing.
LEMMA TrashKeepsLive ==
  ASSUME Inv, Live, NEW w \in Workers, Trash(w) PROVE Live'
<1> USE LifeAssumption
<1>0. TypeOK /\ (ops[w] # Idle => ops[w] \in Op /\ OpOK(ops[w]))
  BY InProgress DEF Inv, OpsOK
<1>1. CASE AddDeletedRepoRecord(w)
  <2>0. ops[w] # Idle /\ ops[w] \in Op /\ ops[w].at = "garbage" /\ OpOK(ops[w])
    BY <1>0, <1>1 DEF AddDeletedRepoRecord, At
  <2>1. Steady
    BY <1>1 DEF AddDeletedRepoRecord, Steady, Complete, history
  <2>2. ASSUME NEW at \in {"virt", "next", "trash"}, Go(w, at),
               at = "trash" => ops[w].kind = "purge"
        PROVE  Live'
    <3>1. /\ Others(w) /\ ops'[w].kind = ops[w].kind /\ ops'[w].lib = ops[w].lib
          /\ ops'[w].on = ops[w].on /\ ops'[w].at = at
      BY <1>0, <2>0, <2>2, GoFacts DEF Places
    <3> QED
      BY <2>0, <2>1, <2>2, <3>1, LiveStep DEF BeforeRepo
  <2>3. /\ ops[w].kind \in {"unshare", "delete", "purge"}
        /\ ops[w].kind = "delete" => ops[w].on \in Libs \cup VRepos
    BY <2>0 DEF OpOK, Op, Kinds, Ids, CreateOK, DeleteOK, UnshareOK, PurgeOK, RestoreOK
  <2>4. ASSUME NEW b \in BOOLEAN, AfterRecord(w, b)
        PROVE  \/ End(w) \/ Go(w, "virt") \/ Go(w, "next")
               \/ Go(w, "trash") /\ ops[w].kind = "purge"
    BY <2>3, <2>4 DEF AfterRecord
  <2>5. \/ End(w) \/ Go(w, "virt") \/ Go(w, "next")
        \/ Go(w, "trash") /\ ops[w].kind = "purge"
    BY <1>1, <2>4 DEF AddDeletedRepoRecord
  <2> QED
    BY <2>0, <2>1, <2>2, <2>5, EndLive
<1>2. CASE DelFromTrash(w)
  <2>1. Steady
    BY <1>2 DEF DelFromTrash, Steady, Complete, history
  <2> QED
    BY <1>2, <2>1, EndLive DEF DelFromTrash, At
<1>3. CASE GetRepoFromTrash(w)
  <2>0. ops[w] # Idle /\ ops[w] \in Op /\ ops[w].kind = "restore"
    BY <1>0, <1>3 DEF GetRepoFromTrash, At
  <2>1. Steady
    BY <1>3 DEF GetRepoFromTrash, Steady, Complete, tables, history
  <2>2. ASSUME ops' = [ops EXCEPT ![w].h = trash[ops[w].lib], ![w].at = "transaction"]
        PROVE  Live'
    <3>1. ops' = [ops EXCEPT ![w] =
                    [ops[w] EXCEPT !.h = trash[ops[w].lib], !.at = "transaction"]]
      BY <1>0, <2>2 DEF TypeOK
    <3>2. Others(w) /\ ops'[w].kind = ops[w].kind /\ ops'[w].lib = ops[w].lib
      BY <1>0, <2>0, <3>1 DEF TypeOK, Others, Op
    <3> QED
      BY <2>0, <2>1, <3>2, LiveStep
  <2> QED
    BY <1>3, <2>0, <2>1, <2>2, EndLive DEF GetRepoFromTrash
<1>4. CASE RestoreFromTrash(w)
  <2> DEFINE l == ops[w].lib
  <2>0. ops[w] # Idle /\ ops[w] \in Op /\ ops[w].kind = "restore" /\ RestoreOK(ops[w])
        /\ ops[w].at = "transaction"
    BY <1>0, <1>4 DEF RestoreFromTrash, At, OpOK, Op, Kinds,
       CreateOK, DeleteOK, UnshareOK, PurgeOK
  <2>1. Others(w) /\ ops'[w] = Idle /\ ops'[w].kind = "none"
    BY <1>0, <1>4, EndFacts DEF RestoreFromTrash, Idle
  <2>2. UNCHANGED <<store, created>>
    BY <1>4 DEF RestoreFromTrash, history
  <2>3. /\ RestoredHead(l, ops[w].h)[l] # 0
        /\ \A k \in Ids : head[k] # 0 => RestoredHead(l, ops[w].h)[k] # 0
    BY <1>0, <2>0 DEF RestoredHead, TypeOK, RestoreOK, Ids
  <2>4. /\ \A k \in Ids : head[k] # 0 => head'[k] # 0
        /\ owner \subseteq owner'
        /\ \/ repo' = repo
           \/ repo' = repo \cup {l} /\ head'[l] # 0 /\ l \in owner'
    BY <1>4, <2>3 DEF RestoreFromTrash
  <2>5. l \in store /\ l \in Libs
    BY <2>0 DEF RestoreOK
  <2>6. ~Busy(l, {"delete"})
    BY <2>0 DEF Live, DeletesApart, Busy
  <2>7. ASSUME NEW k \in created, Complete(k) PROVE Complete(k)'
    BY <1>0, <2>2, <2>4, <2>7 DEF Complete, TypeOK, Ids
  <2>8. ASSUME NEW k \in created' \cap repo', ~Busy(k, {"delete"})' PROVE Complete(k)'
    <3>1. ~Busy(k, {"delete"})
      BY <2>0, <2>1, <2>8 DEF Busy, Others
    <3>2. CASE k \in repo
      BY <2>2, <2>7, <2>8, <3>1, <3>2 DEF Live
    <3>3. CASE k \notin repo
      BY <2>2, <2>4, <2>5, <2>8, <3>3 DEF Complete
    <3> QED
      BY <3>2, <3>3
  <2>9. DeleteLive'
    <3> SUFFICES ASSUME NEW x \in Workers, ops'[x].kind = "delete"
        PROVE  /\ BeforeRepo(ops[x])' => (ops'[x].lib \in repo' => Complete(ops[x].lib)')
               /\ ~BeforeRepo(ops[x])' => ops'[x].lib \notin repo'
      BY DEF DeleteLive
    <3>1. x # w /\ ops'[x] = ops[x] /\ ops[x].kind = "delete" /\ ops[x].lib # l
      BY <2>1, <2>6 DEF Others, Busy
    <3>2. ops[x].lib \in created
      BY <3>1 DEF Inv, OpsOK, OpOK, DeleteOK, Idle
    <3>3. ops[x].lib \in repo' <=> ops[x].lib \in repo
      BY <2>4, <3>1
    <3>4. Complete(ops[x].lib) => Complete(ops[x].lib)'
      <4>1. ASSUME NEW k \in created, k = ops[x].lib, Complete(k) PROVE Complete(ops[x].lib)'
        BY <2>7, <3>1, <4>1 DEF Complete
      <4> QED
        BY <3>2, <4>1
    <3> QED
      BY <3>1, <3>3, <3>4 DEF Live, DeleteLive, BeforeRepo
  <2>10. DeletesApart'
    BY <2>1 DEF Live, DeletesApart, Others
  <2> QED
    BY <2>8, <2>9, <2>10 DEF Live
<1> QED
  BY <1>1, <1>2, <1>3, <1>4 DEF Trash

\* Commits, the collector and crashes; stuttering
LEMMA OtherLive ==
  ASSUME Inv, Live
  PROVE  /\ \A l \in Libs : Commit(l) => Live'
         /\ \A i \in Ids : Collect(i) => Live'
         /\ Crash => Live'
         /\ UNCHANGED vars => Live'
<1> USE LifeAssumption
<1>1. ASSUME NEW l \in Libs, Commit(l) PROVE Live'
  <2>1. UNCHANGED <<repo, owner, store, created, ops>>
    BY <1>1 DEF Commit, history
  <2>2. \A k \in Ids : head[k] # 0 => head'[k] # 0
    BY <1>1 DEF Commit, Inv, TypeOK
  <2>3. \A k \in Libs : Complete(k) => Complete(k)'
    BY <2>1, <2>2 DEF Complete, Ids
  <2>4. \A k \in created \cap repo : ~Busy(k, {"delete"}) => Complete(k)'
    BY <2>3 DEF Live, Inv, TypeOK
  <2>5. DeleteLive'
    <3>1. \A x \in Workers : ops[x].kind = "delete" => ops[x].lib \in Libs
      BY DEF Inv, TypeOK, OpsOK, OpOK, DeleteOK, Idle
    <3>2. ASSUME NEW x \in Workers, ops[x].kind = "delete", Complete(ops[x].lib)
          PROVE  Complete(ops[x].lib)'
      BY <2>1, <2>2, <3>1, <3>2 DEF Complete, Ids
    <3> QED
      BY <2>1, <3>2 DEF Live, DeleteLive, BeforeRepo
  <2>6. DeletesApart'
    BY <2>1 DEF Live, DeletesApart
  <2>7. \A k \in created' \cap repo' : ~Busy(k, {"delete"})' => Complete(k)'
    BY <2>1, <2>4 DEF Busy
  <2> QED
    BY <2>5, <2>6, <2>7 DEF Live
<1>2. ASSUME NEW i \in Ids, Collect(i) PROVE Live'
  <2>1. /\ UNCHANGED <<repo, head, owner, created, ops>>
        /\ \A k \in repo : k \in store => k \in store'
        /\ \A w \in Workers : ops[w].kind = "none"
    BY <1>2 DEF Collect, AllIdle, history, Idle
  <2> QED
    BY <2>1 DEF Live, DeleteLive, DeletesApart, Complete, Busy
<1>3. ASSUME Crash PROVE Live'
  <2>1. /\ UNCHANGED <<repo, head, owner, store, created>>
        /\ \A w \in Workers : ops'[w].kind = "none"
    BY <1>3 DEF Crash, tables, history, Idle
  <2>2. \A k \in created \cap repo : Complete(k)
    BY DEF Live, DeleteLive, Busy
  <2> QED
    BY <2>1, <2>2 DEF Live, DeleteLive, DeletesApart, Complete
<1>4. ASSUME UNCHANGED vars PROVE Live'
  BY <1>4 DEF vars, tables, history, Live, DeleteLive, DeletesApart, Complete, Busy, BeforeRepo
<1> QED
  BY <1>1, <1>2, <1>3, <1>4

\* A library whose creation was acknowledged and that one can open has a head,
\* an owner and its objects, whatever statements failed and wherever the server
\* or the collector crashed, if no deletion is asked for while another deletion
\* or a restore of the library is under way.
THEOREM LiveLibrariesAreComplete ==
  ASSUME ~Overlaps PROVE Spec => []LiveIsComplete
<1>1. Init => Inv /\ Live
  BY InitInv, InitLive
<1>2. (Inv /\ Live) /\ [Next]_vars => (Inv /\ Live)'
  <2> SUFFICES ASSUME Inv, Live, [Next]_vars PROVE Inv' /\ Live'
    OBVIOUS
  <2>1. Inv'
    BY NextInv
  <2>2. Live'
    BY StartLive, CreateLive, DeleteKeepsLive, TrashKeepsLive, OtherLive DEF Next
  <2> QED
    BY <2>1, <2>2
<1>3. Inv /\ Live => LiveIsComplete
  BY DEF Live, LiveIsComplete, Complete
<1> QED
  BY <1>1, <1>2, <1>3, PTL DEF Spec
-----------------------------------------------------------------------------
(* The records.  They hold as long as no statement fails.                   *)

\* The row of Repo precedes that of RepoOwner; the row of the trash precedes the
\* deletion from Repo, unless a purge has taken it away again; the record for the
\* collector precedes the deletion from the trash.
RecordOp(o) ==
    /\ o.kind = "create" /\ o.at = "owner" => o.lib \in repo
    /\ o.kind = "delete" /\ BeforeRepo(o) =>
          /\ o.lib \in repo
          /\ o.at = "trash" => o.h # 0
          /\ o.at = "repo" => trash[o.lib] # 0 \/ o.lib \in garbage
    /\ o.kind = "purge" /\ o.at = "trash" => o.lib \in garbage

Records ==
    /\ \A l \in created \cap store : l \in repo \/ trash[l] # 0 \/ l \in garbage
    /\ \A w \in Workers : ops[w] # Idle => RecordOp(ops[w])

RecordInv == Inv /\ Live /\ (faults = 0 => Records)

-----------------------------------------------------------------------------
(* Every step keeps the records.                                           *)

\* What a step of thread w does with the rows of a library: only its deletion
\* takes it from Repo, with a row in the trash or a record, and only a purge with
\* a record, or its restore, takes it from the trash.
RecordsKept(w) ==
    /\ garbage \subseteq garbage'
    /\ \A l \in created' \cap store' : l \in created \cap store \/ l \in repo'
    /\ \A l \in Libs :
        /\ l \in repo /\ l \notin repo' =>
              /\ ops[w].kind = "delete" /\ ops[w].lib = l
              /\ trash'[l] # 0 \/ l \in garbage'
        /\ trash[l] # 0 /\ trash'[l] = 0 =>
              \/ l \in garbage'
              \/ l \in repo' /\ ops[w].kind = "restore" /\ ops[w].lib = l

\* A statement that fails is counted.
LEMMA NoneFails == ASSUME TypeOK, faults' = 0 PROVE ~Fault
  BY DEF TypeOK, Fault

\* What the other threads rely on is theirs: deletions and restores of one library
\* do not meet, and a deletion is of a library that was created.
LEMMA RecordsStep ==
  ASSUME Inv, Live, Records, NEW w \in Workers, Others(w), RecordsKept(w),
         ops'[w] # Idle => RecordOp(ops[w])'
  PROVE  Records'
<1> USE LifeAssumption
<1>1. ASSUME NEW l \in created' \cap store'
      PROVE  l \in repo' \/ trash'[l] # 0 \/ l \in garbage'
  <2>1. l \in repo' \/ (l \in created /\ l \in store)
    BY <1>1 DEF RecordsKept
  <2>2. l \in repo' \/ l \in repo \/ trash[l] # 0 \/ l \in garbage
    BY <2>1 DEF Records
  <2>3. l \in repo' \/ l \in Libs
    BY <2>1 DEF Inv, TypeOK
  <2> QED
    BY <2>2, <2>3 DEF RecordsKept
<1>2. ASSUME NEW x \in Workers, x # w, ops'[x] # Idle PROVE RecordOp(ops[x])'
  <2>1. ops'[x] = ops[x] /\ ops[x] # Idle /\ OpOK(ops[x]) /\ RecordOp(ops[x])
    BY <1>2 DEF Others, Inv, OpsOK, Records
  <2>2. ops[w].kind = "delete" => ops[w].lib \in created
    BY DEF Inv, OpsOK, OpOK, DeleteOK, Idle
  <2>3. CASE ops[x].kind = "create"
    <3>1. ops[x].lib \in Libs \ created
      BY <2>1, <2>3 DEF OpOK, CreateOK
    <3>2. ops[x].lib \in repo => ops[x].lib \in repo'
      BY <2>2, <3>1 DEF RecordsKept
    <3> QED
      BY <2>1, <2>3, <3>2 DEF RecordOp
  <2>4. CASE ops[x].kind = "delete"
    <3>1. ops[x].lib \in Libs
      BY <2>1, <2>4 DEF OpOK, DeleteOK, Inv, TypeOK
    <3>2. ~(ops[w].kind \in {"delete", "restore"} /\ ops[w].lib = ops[x].lib)
      BY <1>2, <2>4 DEF Live, DeletesApart
    <3>3. /\ ops[x].lib \in repo => ops[x].lib \in repo'
          /\ trash[ops[x].lib] # 0 \/ ops[x].lib \in garbage
                => trash'[ops[x].lib] # 0 \/ ops[x].lib \in garbage'
      BY <3>1, <3>2 DEF RecordsKept
    <3> QED
      BY <2>1, <2>4, <3>3 DEF RecordOp, BeforeRepo
  <2>5. CASE ops[x].kind = "purge"
    BY <2>1, <2>5 DEF RecordOp, RecordsKept
  <2> QED
    BY <2>1, <2>3, <2>4, <2>5 DEF RecordOp
<1> QED
  BY <1>1, <1>2 DEF Records

\* An operation ends.
LEMMA EndRecords ==
  ASSUME Inv, Live, Records, NEW w \in Workers, End(w), RecordsKept(w)
  PROVE  Records'
  BY EndFacts, RecordsStep DEF Inv

\* An operation goes on to another statement.
LEMMA GoRecords ==
  ASSUME Inv, Live, Records, NEW w \in Workers, ops[w] # Idle,
         NEW at \in Places, Go(w, at), RecordsKept(w), RecordOp(ops[w])'
  PROVE  Records'
  BY GoFacts, RecordsStep DEF Inv

\* An operation that begins has done nothing yet: a deletion finds the library in
\* table Repo.
LEMMA StartRecords ==
  ASSUME ~Overlaps, Inv, Live, Records, NEW w \in Workers, Start(w) PROVE Records'
<1> USE LifeAssumption
<1>1. ASSUME NEW kind \in {"create", "unshare", "purge", "restore", "delete"}, NEW i \in Ids,
             NEW at \in {"commit", "read", "repo", "garbage"},
             ops' = [ops EXCEPT ![w] = Started(kind, i, at)],
             UNCHANGED <<tables, store, created>>,
             kind = "delete" => i \in repo /\ at = "read"
      PROVE  Records'
  <2>1. kind \in Kinds /\ at \in Places
    BY DEF Kinds, Places
  <2>2. Others(w) /\ ops'[w] = Started(kind, i, at)
    BY <1>1, <2>1, StartedType, ChangeFacts DEF Inv
  <2>3. RecordOp(ops[w])'
    BY <1>1, <2>2 DEF RecordOp, Started, BeforeRepo, tables
  <2>4. RecordsKept(w)
    BY <1>1 DEF RecordsKept, tables
  <2> QED
    BY <2>2, <2>3, <2>4, RecordsStep
<1>2. ASSUME NEW l \in Libs, StartCreate(w, l) \/ StartDelete(w, l) \/ StartPurge(w, l)
                             \/ StartRestore(w, l)
      PROVE  Records'
  BY <1>1, <1>2 DEF StartCreate, StartDelete, StartPurge, StartRestore, Ids, history
<1>3. ASSUME NEW v \in VRepos, StartUnshare(w, v) PROVE Records'
  BY <1>1, <1>3 DEF StartUnshare, Ids, history
<1> QED
  BY <1>2, <1>3 DEF Start

\* A creation counts as acknowledged when its row is in table Repo.
LEMMA CreateRecords ==
  ASSUME Inv, Live, Records, NEW w \in Workers, Create(w) PROVE Records'
<1> USE LifeAssumption
<1>0. /\ TypeOK /\ (ops[w] # Idle => ops[w] \in Op /\ OpOK(ops[w]) /\ RecordOp(ops[w]))
      /\ ops[w].kind = "create" => ops[w] # Idle
  BY InProgress DEF Inv, OpsOK, Records, Idle
<1>1. CASE AddCommit(w)
  <2>1. ops[w] # Idle /\ ops[w].kind = "create" /\ ops[w].lib \in Libs \ created
    BY <1>0, <1>1 DEF AddCommit, At, OpOK, Op, Kinds, CreateOK, DeleteOK, UnshareOK,
       PurgeOK, RestoreOK
  <2>2. RecordsKept(w)
    BY <1>1, <2>1 DEF AddCommit, RecordsKept, tables, history
  <2>3. RecordOp(ops[w])'
    BY <1>0, <1>1, <2>1, GoFacts DEF AddCommit, Places, RecordOp
  <2> QED
    BY <1>1, <2>1, <2>2, <2>3, GoRecords DEF AddCommit, Places
<1>2. CASE AddBranch(w)
  <2>1. ops[w] # Idle /\ ops[w].kind = "create"
    BY <1>2 DEF AddBranch, At
  <2>2. RecordsKept(w)
    BY <1>2 DEF AddBranch, RecordsKept, history
  <2>3. RecordOp(ops[w])'
    BY <1>0, <1>2, <2>1, GoFacts DEF AddBranch, Places, RecordOp
  <2> QED
    BY <1>2, <2>1, <2>2, <2>3, GoRecords DEF AddBranch, Places
<1>3. CASE AddRepo(w)
  <2>1. ops[w] # Idle /\ ops[w].kind = "create"
    BY <1>3 DEF AddRepo, At
  <2>2. RecordsKept(w)
    BY <1>3 DEF AddRepo, RecordsKept, history
  <2>3. RecordOp(ops[w])'
    BY <1>0, <1>3, <2>1, GoFacts DEF AddRepo, Places, RecordOp
  <2> QED
    BY <1>3, <2>1, <2>2, <2>3, GoRecords DEF AddRepo, Places
<1>4. CASE SetOwner(w)
  <2>1. ops[w].lib \in repo
    BY <1>0, <1>4 DEF SetOwner, At, RecordOp
  <2>2. RecordsKept(w)
    BY <1>4, <2>1 DEF SetOwner, RecordsKept
  <2> QED
    BY <1>4, <2>2, EndRecords DEF SetOwner
<1>5. CASE CreateFails(w)
  <2>1. RecordsKept(w)
    BY <1>5 DEF CreateFails, RecordsKept, tables, history
  <2> QED
    BY <1>5, <2>1, EndRecords DEF CreateFails
<1> QED
  BY <1>1, <1>2, <1>3, <1>4, <1>5 DEF Create

\* A deletion finds the head and an owner, so it writes the row in the trash that
\* it needs to go on.
LEMMA DeleteRecords ==
  ASSUME Inv, Live, Records, faults' = 0, NEW w \in Workers, Delete(w) PROVE Records'
<1> USE LifeAssumption
<1>0. /\ TypeOK /\ ~Fault
      /\ ops[w] # Idle => ops[w] \in Op /\ OpOK(ops[w]) /\ RecordOp(ops[w])
  BY InProgress, NoneFails DEF Inv, OpsOK, Records
<1>1. CASE GetHeadCommit(w)
  <2> DEFINE h == HeadCommit(ops[w].lib)
  <2>0. /\ ops[w] # Idle /\ ops[w] \in Op /\ ops[w].kind = "delete" /\ ops[w].at = "read"
        /\ ops[w].lib \in Libs
    BY <1>0, <1>1 DEF GetHeadCommit, At, OpOK, DeleteOK, TypeOK
  <2>1. ReadHead(w, h)
    BY <1>0, <1>1 DEF GetHeadCommit
  <2>2. RecordsKept(w)
    BY <1>1 DEF GetHeadCommit, RecordsKept, tables, history
  <2>3. ops' = [ops EXCEPT ![w] = [ops[w] EXCEPT !.h = h, !.at = IF h = 0 THEN "repo" ELSE "trash"]]
    BY <1>0, <2>1 DEF ReadHead, TypeOK
  <2>4. /\ Others(w) /\ ops'[w].kind = "delete" /\ ops'[w].lib = ops[w].lib
        /\ ops'[w].on = ops[w].on /\ ops'[w].h = h
        /\ ops'[w].at = IF h = 0 THEN "repo" ELSE "trash"
    BY <1>0, <2>0, <2>3 DEF TypeOK, Others, Op
  <2>5. ops[w].on = ops[w].lib => ops[w].lib \in repo /\ h # 0
    BY <1>0, <2>0 DEF Live, DeleteLive, BeforeRepo, Complete, RecordOp, HeadCommit
  <2>6. RecordOp(ops[w])'
    BY <1>1, <2>4, <2>5 DEF GetHeadCommit, RecordOp, BeforeRepo, tables
  <2> QED
    BY <2>2, <2>4, <2>6, RecordsStep
<1>2. CASE AddToTrash(w)
  <2> DEFINE l == ops[w].lib
  <2>0. /\ ops[w] # Idle /\ ops[w].kind = "delete" /\ ops[w].at = "trash" /\ ops[w].lib \in Libs
    BY <1>0, <1>2 DEF AddToTrash, At, OpOK, DeleteOK, TypeOK
  <2>1. trash' = Trashed(l, ops[w].h) /\ UNCHANGED <<repo, garbage, store, created>>
    BY <1>0, <1>2 DEF AddToTrash, history
  <2>2. BeforeRepo(ops[w]) => l \in repo /\ l \in owner /\ ops[w].h # 0
    BY <1>0, <2>0 DEF Live, DeleteLive, Complete, RecordOp
  <2>3. /\ BeforeRepo(ops[w]) => trash'[l] # 0
        /\ \A k \in Libs : trash[k] # 0 => trash'[k] # 0
    BY <1>0, <2>0, <2>1, <2>2 DEF Trashed, TypeOK
  <2>4. RecordsKept(w)
    BY <2>1, <2>3 DEF RecordsKept
  <2>5. RecordOp(ops[w])'
    BY <1>0, <1>2, <2>0, <2>1, <2>2, <2>3, GoFacts DEF AddToTrash, Places, RecordOp, BeforeRepo
  <2> QED
    BY <1>2, <2>0, <2>4, <2>5, GoRecords DEF AddToTrash, Places
<1>3. CASE DelRepoRow(w)
  <2>0. ops[w] # Idle /\ ops[w].at = "repo" /\ ops[w].kind \in {"delete", "unshare"}
    BY <1>3 DEF DelRepoRow, At
  <2>1. repo' = repo \ {ops[w].on} /\ Go(w, "branch") /\ UNCHANGED <<trash, garbage, store, created>>
    BY <1>0, <1>3 DEF DelRepoRow, history
  <2>2. ASSUME NEW l \in Libs, l = ops[w].on
        PROVE  ops[w].kind = "delete" /\ ops[w].lib = l /\ (trash[l] # 0 \/ l \in garbage)
    BY <1>0, <2>0, <2>2 DEF OpOK, DeleteOK, UnshareOK, RecordOp, BeforeRepo
  <2>3. RecordsKept(w)
    BY <2>1, <2>2 DEF RecordsKept
  <2>4. RecordOp(ops[w])'
    BY <1>0, <2>0, <2>1, GoFacts DEF Places, RecordOp, BeforeRepo
  <2> QED
    BY <2>0, <2>1, <2>3, <2>4, GoRecords DEF Places
<1>4. CASE DelBranch(w) \/ DelOwner(w)
  <2>0. ops[w] # Idle /\ ops[w].at \in {"branch", "owner"} /\ ops[w].kind \in {"delete", "unshare"}
    BY <1>4 DEF DelBranch, DelOwner, At
  <2>1. /\ UNCHANGED <<repo, trash, garbage, store, created>>
        /\ \E at \in {"owner", "shares", "garbage"} : Go(w, at)
    BY <1>4 DEF DelBranch, DelOwner, history
  <2>2. PICK at \in {"owner", "shares", "garbage"} : Go(w, at)
    BY <2>1
  <2>3. RecordsKept(w)
    BY <2>1 DEF RecordsKept
  <2>4. RecordOp(ops[w])'
    BY <1>0, <2>0, <2>2, GoFacts DEF Places, RecordOp, BeforeRepo
  <2> QED
    BY <2>0, <2>2, <2>3, <2>4, GoRecords DEF Places
<1>5. CASE ListShares(w) \/ NextShare(w)
  <2>0. /\ ops[w] # Idle /\ ops[w] \in Op /\ ops[w].at \in {"shares", "next"} 
        /\ OpOK(ops[w]) /\ ops[w].kind = "delete"
    BY <1>0, <1>5 DEF ListShares, NextShare, At, OpOK, Op, Kinds, CreateOK, UnshareOK,
       PurgeOK, RestoreOK
  <2>1. UNCHANGED <<repo, trash, garbage, store, created>>
    BY <1>5 DEF ListShares, NextShare, tables, history
  <2>2. RecordsKept(w)
    BY <2>1 DEF RecordsKept
  <2>3. ASSUME NEW todo, ops' = [ops EXCEPT ![w].todo = todo, ![w].at = "next"] PROVE Records'
    <3>1. ops' = [ops EXCEPT ![w] = [ops[w] EXCEPT !.todo = todo, !.at = "next"]]
      BY <1>0, <2>3 DEF TypeOK
    <3>2. Others(w) /\ ops'[w].kind = "delete" /\ ops'[w].at = "next"
      BY <1>0, <2>0, <3>1 DEF TypeOK, Others, Op
    <3>3. RecordOp(ops[w])'
      BY <3>2 DEF RecordOp, BeforeRepo
    <3> QED
      BY <2>2, <3>2, <3>3, RecordsStep
  <2>4. ASSUME NEW v \in ops[w].todo,
               ops' = [ops EXCEPT ![w].on = v, ![w].todo = @ \ {v}, ![w].at = "repo"]
        PROVE  Records'
    <3>1. ops' = [ops EXCEPT ![w] =
                    [ops[w] EXCEPT !.on = v, !.todo = @ \ {v}, !.at = "repo"]]
      BY <1>0, <2>4 DEF TypeOK
    <3>2. Others(w) /\ ops'[w].kind = "delete" /\ ops'[w].lib = ops[w].lib /\ ops'[w].on = v
      BY <1>0, <2>0, <3>1 DEF TypeOK, Others, Op
    <3>3. v # ops[w].lib
      BY <1>0, <2>0, <2>4 DEF OpOK, DeleteOK, TypeOK, Op
    <3>4. RecordOp(ops[w])'
      BY <3>2, <3>3 DEF RecordOp, BeforeRepo
    <3> QED
      BY <2>2, <3>2, <3>4, RecordsStep
  <2>5. ASSUME Go(w, "virt") PROVE Records'
    <3>1. RecordOp(ops[w])'
      BY <1>0, <2>0, <2>5, GoFacts DEF Places, RecordOp, BeforeRepo
    <3> QED
      BY <2>0, <2>2, <2>5, <3>1, GoRecords DEF Places
  <2> QED
    BY <1>5, <2>3, <2>4, <2>5 DEF ListShares, NextShare
<1>6. CASE DelVirtualRows(w)
  <2>0. ops[w] # Idle /\ ops[w] \in Op /\ ops[w].at = "virt"
    BY <1>0, <1>6 DEF DelVirtualRows, At
  <2>1. RecordsKept(w)
    BY <1>6 DEF DelVirtualRows, RecordsKept, history
  <2>2. ASSUME ops' = [ops EXCEPT ![w].on = ops[w].lib, ![w].at = "garbage"] PROVE Records'
    <3>1. ops' = [ops EXCEPT ![w] = [ops[w] EXCEPT !.on = ops[w].lib, !.at = "garbage"]]
      BY <1>0, <2>2 DEF TypeOK
    <3>2. Others(w) /\ ops'[w].at = "garbage"
      BY <1>0, <2>0, <3>1 DEF TypeOK, Others, Op
    <3>3. RecordOp(ops[w])'
      BY <3>2 DEF RecordOp, BeforeRepo
    <3> QED
      BY <2>1, <3>2, <3>3, RecordsStep
  <2> QED
    BY <1>6, <2>1, <2>2, EndRecords DEF DelVirtualRows
<1> QED
  BY <1>1, <1>2, <1>3, <1>4, <1>5, <1>6 DEF Delete

\* A purge writes the record first; a restore puts the library back as it takes
\* the row from the trash.
LEMMA TrashRecords ==
  ASSUME Inv, Live, Records, faults' = 0, NEW w \in Workers, Trash(w) PROVE Records'
<1> USE LifeAssumption
<1>0. /\ TypeOK /\ ~Fault
      /\ ops[w] # Idle => ops[w] \in Op /\ OpOK(ops[w]) /\ RecordOp(ops[w])
  BY InProgress, NoneFails DEF Inv, OpsOK, Records
<1>1. CASE AddDeletedRepoRecord(w)
  <2>0. ops[w] # Idle /\ ops[w] \in Op /\ OpOK(ops[w]) /\ ops[w].at = "garbage"
    BY <1>0, <1>1 DEF AddDeletedRepoRecord, At
  <2>1. /\ garbage' = garbage \cup {ops[w].on} /\ AfterRecord(w, TRUE)
        /\ UNCHANGED <<repo, trash, store, created>>
    BY <1>0, <1>1 DEF AddDeletedRepoRecord, history
  <2>2. RecordsKept(w)
    BY <2>1 DEF RecordsKept
  <2>3. /\ ops[w].kind \in {"unshare", "delete", "purge"}
        /\ ops[w].kind = "delete" => ops[w].on \in Libs \cup VRepos
        /\ ops[w].kind = "purge" => ops[w].on = ops[w].lib
    BY <2>0 DEF OpOK, Op, Kinds, Ids, CreateOK, DeleteOK, UnshareOK, PurgeOK, RestoreOK
  <2>4. \/ End(w) \/ Go(w, "virt") \/ Go(w, "next")
        \/ Go(w, "trash") /\ ops[w].kind = "purge"
    BY <2>1, <2>3 DEF AfterRecord
  <2>5. CASE Go(w, "virt") \/ Go(w, "next")
    <3>1. RecordOp(ops[w])'
      BY <1>0, <2>0, <2>5, GoFacts DEF Places, RecordOp, BeforeRepo
    <3> QED
      BY <2>0, <2>2, <2>5, <3>1, GoRecords DEF Places
  <2>6. CASE Go(w, "trash") /\ ops[w].kind = "purge"
    <3>1. RecordOp(ops[w])'
      BY <1>0, <2>0, <2>1, <2>3, <2>6, GoFacts DEF Places, RecordOp, BeforeRepo
    <3> QED
      BY <2>0, <2>2, <2>6, <3>1, GoRecords DEF Places
  <2> QED
    BY <2>2, <2>4, <2>5, <2>6, EndRecords
<1>2. CASE DelFromTrash(w)
  <2>1. ops[w].lib \in garbage
    BY <1>0, <1>2 DEF DelFromTrash, At, RecordOp
  <2>2. RecordsKept(w)
    BY <1>0, <1>2, <2>1 DEF DelFromTrash, RecordsKept, history, TypeOK
  <2> QED
    BY <1>2, <2>2, EndRecords DEF DelFromTrash
<1>3. CASE GetRepoFromTrash(w)
  <2>0. ops[w] # Idle /\ ops[w] \in Op /\ ops[w].kind = "restore"
    BY <1>0, <1>3 DEF GetRepoFromTrash, At
  <2>1. RecordsKept(w)
    BY <1>3 DEF GetRepoFromTrash, RecordsKept, tables, history
  <2>2. ASSUME ops' = [ops EXCEPT ![w].h = trash[ops[w].lib], ![w].at = "transaction"]
        PROVE  Records'
    <3>1. ops' = [ops EXCEPT ![w] =
                    [ops[w] EXCEPT !.h = trash[ops[w].lib], !.at = "transaction"]]
      BY <1>0, <2>2 DEF TypeOK
    <3>2. Others(w) /\ ops'[w].kind = "restore"
      BY <1>0, <2>0, <3>1 DEF TypeOK, Others, Op
    <3>3. RecordOp(ops[w])'
      BY <3>2 DEF RecordOp
    <3> QED
      BY <2>1, <3>2, <3>3, RecordsStep
  <2> QED
    BY <1>3, <2>1, <2>2, EndRecords DEF GetRepoFromTrash
<1>4. CASE RestoreFromTrash(w)
  <2>0. ops[w] # Idle /\ OpOK(ops[w]) /\ ops[w].kind = "restore"
    BY <1>0, <1>4 DEF RestoreFromTrash, At, OpOK, Op, Kinds,
       CreateOK, DeleteOK, UnshareOK, PurgeOK
  <2>1. /\ repo' = repo \cup {ops[w].lib} /\ trash' = [trash EXCEPT ![ops[w].lib] = 0]
        /\ UNCHANGED <<garbage, store, created>>
    BY <1>0, <1>4 DEF RestoreFromTrash, history
  <2>2. RecordsKept(w)
    BY <1>0, <2>0, <2>1 DEF RecordsKept, TypeOK
  <2> QED
    BY <1>4, <2>2, EndRecords DEF RestoreFromTrash
<1> QED
  BY <1>1, <1>2, <1>3, <1>4 DEF Trash

\* The collector takes the record of a library that is out of table Repo only with
\* the objects.
LEMMA OtherRecords ==
  ASSUME Inv, Live, Records
  PROVE  /\ \A l \in Libs : Commit(l) => Records'
         /\ \A i \in Ids : Collect(i) => Records'
         /\ Crash => Records'
         /\ UNCHANGED vars => Records'
<1>1. ASSUME NEW l \in Libs, Commit(l) PROVE Records'
  BY <1>1 DEF Commit, history, Records, RecordOp, BeforeRepo
<1>2. ASSUME NEW i \in Ids, Collect(i) PROVE Records'
  <2>1. \A w \in Workers : ops'[w] = Idle
    BY <1>2 DEF Collect, AllIdle
  <2>2. ASSUME NEW l \in created \cap store' PROVE l \in repo' \/ trash'[l] # 0 \/ l \in garbage'
    BY <1>2, <2>2 DEF Collect, Records
  <2> QED
    BY <1>2, <2>1, <2>2 DEF Collect, history, Records
<1>3. ASSUME Crash PROVE Records'
  BY <1>3 DEF Crash, tables, history, Records
<1>4. ASSUME UNCHANGED vars PROVE Records'
  BY <1>4 DEF vars, tables, history, Records, RecordOp, BeforeRepo
<1> QED
  BY <1>1, <1>2, <1>3, <1>4

\* No step forgets a failure.
LEMMA FaultsStay == ASSUME TypeOK, TypeOK', [Next]_vars, faults' = 0 PROVE faults = 0
<1>1. faults' \in {faults, faults + 1}
  BY DEF vars, Next, Start, StartCreate, StartDelete, StartPurge, StartRestore, StartUnshare,
     Create, AddCommit, AddBranch, AddRepo, SetOwner, CreateFails, Delete, GetHeadCommit,
     AddToTrash, DelRepoRow, DelBranch, DelOwner, ListShares, NextShare, DelVirtualRows,
     Trash, AddDeletedRepoRecord, DelFromTrash, GetRepoFromTrash, RestoreFromTrash,
     Commit, Collect, Crash, NoFault, Fault
<1> QED
  BY <1>1, LifeAssumption DEF TypeOK

\* The invariant holds at first.
LEMMA InitRecords == Init => RecordInv
<1> SUFFICES ASSUME Init PROVE RecordInv
  OBVIOUS
<1>1. Records
  BY DEF Init, Records
<1> QED
  BY <1>1, InitInv, InitLive DEF RecordInv

\* Every step keeps the invariant.
LEMMA NextRecords ==
  ASSUME ~Overlaps, RecordInv, [Next]_vars PROVE RecordInv'
<1>1. Inv'
  BY NextInv DEF RecordInv
<1>2. Live'
  BY StartLive, CreateLive, DeleteKeepsLive, TrashKeepsLive, OtherLive DEF Next, RecordInv
<1>3. ASSUME faults' = 0 PROVE Records'
  <2>1. Inv /\ Live /\ Records
    BY <1>1, <1>3, FaultsStay DEF RecordInv, Inv
  <2> QED
    BY <1>3, <2>1, StartRecords, CreateRecords, DeleteRecords, TrashRecords, OtherRecords DEF Next
<1> QED
  BY <1>1, <1>2, <1>3 DEF RecordInv

\* Wherever the server crashes, a library whose creation was acknowledged and whose
\* objects are stored is in use, in the trash, or recorded for the collector, if no
\* statement fails and no deletion is asked for while another deletion or a restore
\* of the library is under way.
THEOREM LibrariesAreRecorded ==
  ASSUME ~Overlaps PROVE Spec => []Recorded
<1>1. Init => RecordInv
  BY InitRecords
<1>2. RecordInv /\ [Next]_vars => RecordInv'
  BY NextRecords
<1>3. RecordInv => Recorded
  BY DEF RecordInv, Records, Recorded
<1> QED
  BY <1>1, <1>2, <1>3, PTL DEF Spec

-----------------------------------------------------------------------------
(* The virtual repos, as long as no statement fails and nothing crashes.    *)

\* A deletion or an unshare that has taken virtual repo v out of table Repo, and
\* has not left it to the collector yet
Removing(o, v) ==
    o.kind \in {"delete", "unshare"} /\ o.on = v /\ o.at \in {"branch", "owner", "garbage"}

\* A deletion has listed the virtual repos that are in table Repo, and removes one
\* after the other; the row of VirtualRepo goes last.
ShareOp(o) ==
    /\ \A v \in VRepos : Removing(o, v) => v \notin repo
    /\ o.kind = "unshare" /\ o.at = "virt" => o.lib \notin repo
    /\ o.kind = "delete" =>
          /\ o.on \in VRepos => OriginOf[o.on] = o.lib
          /\ o.todo \subseteq SharesOf(o.lib)
          /\ o.at \in {"next", "virt", "garbage"} \/ o.on \in VRepos =>
                \A v \in SharesOf(o.lib) :
                    v \in repo => v \in o.todo \/ (o.at = "repo" /\ v = o.on)
          /\ o.at = "virt" \/ (o.at = "garbage" /\ o.on = o.lib) => o.todo = {}
          /\ o.at = "garbage" /\ o.on = o.lib => virt \cap SharesOf(o.lib) = {}

Shares ==
    /\ \A v \in VRepos :
        /\ v \in repo => v \in virt
        /\ v \in virt /\ v \notin repo => Busy(v, {"unshare"}) \/ Busy(OriginOf[v], {"delete"})
        /\ v \in repo => OriginOf[v] \in repo \/ Busy(OriginOf[v], {"delete"})
        /\ \/ v \in repo \/ v \in garbage \/ v \notin store
           \/ \E w \in Workers : Removing(ops[w], v)
    /\ \A w \in Workers : ops[w] # Idle => ShareOp(ops[w])

ShareInv == Inv /\ (faults = 0 /\ crashes = 0 => Shares)

-----------------------------------------------------------------------------
(* Every step keeps the virtual repos with their library.                  *)

\* One more statement of the same operation
Continues(w) == ops'[w].kind = ops[w].kind /\ ops'[w].lib = ops[w].lib

\* What a step of thread w does with virtual repos: none comes back, one leaves
\* table Repo only to be recorded for the collector, and an operation ends only when
\* it has left none behind.
SharesKept(w) ==
    /\ garbage \subseteq garbage'
    /\ \A v \in VRepos :
        /\ v \in repo' => v \in repo
        /\ v \in virt' => v \in virt
        /\ v \in store' => v \in store
        /\ v \in repo' => v \in virt' \/ v \notin virt
        /\ v \in repo /\ v \notin repo' => 
              /\ Removing(ops[w], v)'
              /\ \/ ops'[w].kind = "unshare" /\ ops'[w].lib = v
                 \/ ops'[w].kind = "delete" /\ ops'[w].lib = OriginOf[v]
        /\ Removing(ops[w], v) => Removing(ops[w], v)' \/ v \in garbage'
        /\ ops[w].kind = "unshare" /\ ops[w].lib = v =>
              Continues(w) \/ v \notin virt'
        /\ ops[w].kind = "delete" /\ ops[w].lib = OriginOf[v] =>
              Continues(w) \/ (v \notin virt' /\ v \notin repo')
    /\ \A l \in Libs :
        l \in repo /\ l \notin repo' => ops'[w].kind = "delete" /\ ops'[w].lib = l

\* The other threads lose none of what they rely on: no virtual repo comes back.
LEMMA SharesStep ==
  ASSUME Inv, Shares, NEW w \in Workers, Others(w), SharesKept(w),
         ops'[w] # Idle => ShareOp(ops[w])'
  PROVE  Shares'
<1> USE LifeAssumption
<1>1. ASSUME NEW v \in VRepos
      PROVE  /\ v \in repo' => v \in virt'
             /\ v \in virt' /\ v \notin repo' =>
                   Busy(v, {"unshare"})' \/ Busy(OriginOf[v], {"delete"})'
             /\ v \in repo' => OriginOf[v] \in repo' \/ Busy(OriginOf[v], {"delete"})'
             /\ \/ v \in repo' \/ v \in garbage' \/ v \notin store'
                \/ \E x \in Workers : Removing(ops[x], v)'
  <2>1. OriginOf[v] \in Libs
    OBVIOUS
  <2>2. /\ v \in repo => v \in virt
        /\ v \in virt /\ v \notin repo => Busy(v, {"unshare"}) \/ Busy(OriginOf[v], {"delete"})
        /\ v \in repo => OriginOf[v] \in repo \/ Busy(OriginOf[v], {"delete"})
        /\ \/ v \in repo \/ v \in garbage \/ v \notin store
           \/ \E x \in Workers : Removing(ops[x], v)
    BY DEF Shares
  <2>3. Busy(v, {"unshare"}) => Busy(v, {"unshare"})' \/ v \notin virt'
    BY DEF Busy, Others, SharesKept, Continues
  <2>4. Busy(OriginOf[v], {"delete"}) =>
          Busy(OriginOf[v], {"delete"})' \/ (v \notin virt' /\ v \notin repo')
    BY DEF Busy, Others, SharesKept, Continues
  <2>5. v \in repo' => v \in virt'
    BY <2>2 DEF SharesKept
  <2>6. v \in virt' /\ v \notin repo' =>
          Busy(v, {"unshare"})' \/ Busy(OriginOf[v], {"delete"})'
    <3>1. v \in repo /\ v \notin repo' => Busy(v, {"unshare"})' \/ Busy(OriginOf[v], {"delete"})'
      BY DEF SharesKept, Busy
    <3>2. v \in virt' => v \in virt
      BY DEF SharesKept
    <3> QED
      BY <2>2, <2>3, <2>4, <3>1, <3>2
  <2>7. v \in repo' => OriginOf[v] \in repo' \/ Busy(OriginOf[v], {"delete"})'
    <3>1. OriginOf[v] \in repo => OriginOf[v] \in repo' \/ Busy(OriginOf[v], {"delete"})'
      BY <2>1 DEF SharesKept, Busy
    <3>2. v \in repo' => v \in repo
      BY DEF SharesKept
    <3> QED
      BY <2>2, <2>4, <3>1, <3>2
  <2>8. \/ v \in repo' \/ v \in garbage' \/ v \notin store'
        \/ \E x \in Workers : Removing(ops[x], v)'
    <3>1. CASE v \in repo
      BY <3>1 DEF SharesKept
    <3>2. CASE v \in garbage \/ v \notin store
      BY <3>2 DEF SharesKept
    <3>3. CASE \E x \in Workers : Removing(ops[x], v)
      <4>1. PICK x \in Workers : Removing(ops[x], v)
        BY <3>3
      <4>2. x = w => Removing(ops[w], v)' \/ v \in garbage'
        BY <4>1 DEF SharesKept
      <4>3. x # w => Removing(ops[x], v)'
        BY <4>1 DEF Others, Removing
      <4> QED
        BY <4>2, <4>3
    <3> QED
      BY <2>2, <3>1, <3>2, <3>3
  <2> QED
    BY <2>5, <2>6, <2>7, <2>8
<1>2. ASSUME NEW x \in Workers, x # w, ops'[x] # Idle PROVE ShareOp(ops[x])'
  <2>1. ops'[x] = ops[x] /\ OpOK(ops[x]) /\ ShareOp(ops[x])
    BY <1>2 DEF Others, Inv, OpsOK, Shares
  <2>2. \A v \in VRepos : (v \in repo' => v \in repo) /\ (v \in virt' => v \in virt)
    BY DEF SharesKept
  <2>3. \A v \in VRepos : Removing(ops[x], v)' => v \notin repo'
    BY <2>1, <2>2 DEF ShareOp, Removing
  <2>4. ops[x].kind = "unshare" /\ ops[x].at = "virt" => ops[x].lib \notin repo'
    BY <2>1, <2>2 DEF ShareOp, OpOK, UnshareOK
  <2>5. CASE ops[x].kind = "delete"
    <3>1. virt \cap SharesOf(ops[x].lib) = {} => virt' \cap SharesOf(ops[x].lib) = {}
      BY <2>2 DEF SharesOf
    <3>2. \A v \in SharesOf(ops[x].lib) : v \in repo' => v \in repo
      BY <2>2 DEF SharesOf
    <3> QED
      BY <2>1, <2>3, <2>5, <3>1, <3>2 DEF ShareOp
  <2> QED
    BY <2>1, <2>3, <2>4, <2>5 DEF ShareOp
<1> QED
  BY <1>1, <1>2 DEF Shares

\* An operation ends.
LEMMA EndShares ==
  ASSUME Inv, Shares, NEW w \in Workers, End(w), SharesKept(w)
  PROVE  Shares'
  BY EndFacts, SharesStep DEF Inv

\* An operation goes on to another statement.
LEMMA GoShares ==
  ASSUME Inv, Shares, NEW w \in Workers, ops[w] # Idle,
         NEW at \in Places, Go(w, at), SharesKept(w), ShareOp(ops[w])'
  PROVE  Shares'
  BY GoFacts, SharesStep DEF Inv

\* A step that works on rows of libraries, or only reads
LEMMA LibrarySteps ==
  ASSUME NEW w \in Workers, repo \subseteq repo', repo' \subseteq repo \cup Libs,
         store' \subseteq store \cup Libs, virt' = virt, garbage \subseteq garbage',
         \/ ops[w].kind \notin {"delete", "unshare"}
         \/ Continues(w) /\ ops[w].at \notin {"branch", "owner", "garbage"}
  PROVE  SharesKept(w)
  BY LifeAssumption DEF SharesKept, Removing

\* An operation that begins has touched nothing, and a creation works on a library.
LEMMA StartShares ==
  ASSUME Inv, Shares, NEW w \in Workers, Start(w) PROVE Shares'
<1> USE LifeAssumption
<1>0. ops[w].kind = "none"
  BY DEF Start, StartCreate, StartDelete, StartPurge, StartRestore, StartUnshare, Idle
<1>1. ASSUME NEW kind \in Kinds, NEW i \in Ids, NEW at \in {"commit", "read", "repo", "garbage"},
             ops' = [ops EXCEPT ![w] = Started(kind, i, at)], UNCHANGED <<tables, store>>,
             kind = "delete" => i \in Libs /\ at = "read",
             kind = "unshare" => at = "repo"
      PROVE  Shares'
  <2>1. Others(w) /\ ops'[w] = Started(kind, i, at)
    BY <1>1, StartedType, ChangeFacts DEF Inv, Places
  <2>2. SharesKept(w)
    BY <1>0, <1>1, LibrarySteps DEF tables
  <2>3. ShareOp(ops[w])'
    BY <1>1, <2>1 DEF ShareOp, Started, Removing
  <2> QED
    BY <2>1, <2>2, <2>3, SharesStep
<1>2. ASSUME NEW l \in Libs, StartCreate(w, l) \/ StartDelete(w, l) \/ StartPurge(w, l)
                             \/ StartRestore(w, l)
      PROVE  Shares'
  BY <1>1, <1>2 DEF StartCreate, StartDelete, StartPurge, StartRestore, Ids, Kinds
<1>3. ASSUME NEW v \in VRepos, StartUnshare(w, v) PROVE Shares'
  BY <1>1, <1>3 DEF StartUnshare, Ids, Kinds
<1> QED
  BY <1>2, <1>3 DEF Start

\* A creation writes rows of a library only.
LEMMA CreateShares ==
  ASSUME Inv, Shares, NEW w \in Workers, Create(w) PROVE Shares'
<1>0. /\ TypeOK /\ (ops[w] # Idle => ops[w] \in Op /\ OpOK(ops[w]))
      /\ ops[w].kind = "create" => ops[w] # Idle
  BY InProgress DEF Inv, OpsOK, Idle
<1>1. ops[w].kind = "create" /\ ops[w] # Idle /\ ops[w].lib \in Libs
  BY <1>0 DEF Create, AddCommit, AddBranch, AddRepo, SetOwner, CreateFails, At, OpOK, Op, Kinds,
     CreateOK, DeleteOK, UnshareOK, PurgeOK, RestoreOK
<1>2. /\ repo \subseteq repo' /\ repo' \subseteq repo \cup Libs
      /\ store' \subseteq store \cup Libs
      /\ virt' = virt /\ garbage \subseteq garbage'
  BY <1>1 DEF Create, AddCommit, AddBranch, AddRepo, SetOwner, CreateFails, tables
<1>3. SharesKept(w)
  BY <1>1, <1>2, LibrarySteps
<1>4. \/ End(w)
      \/ \E at \in {"branch", "repo", "owner"} : Go(w, at)
  BY DEF Create, AddCommit, AddBranch, AddRepo, SetOwner, CreateFails
<1>5. ASSUME NEW at \in {"branch", "repo", "owner"}, Go(w, at) PROVE Shares'
  <2>1. ShareOp(ops[w])'
    BY <1>0, <1>1, <1>5, GoFacts DEF Places, ShareOp, Removing
  <2> QED
    BY <1>1, <1>3, <1>5, <2>1, GoShares DEF Places
<1> QED
  BY <1>3, <1>4, <1>5, EndShares

\* A deletion lists the virtual repos that have a row, so all that are in table
\* Repo, and takes them one after the other; their rows in VirtualRepo go when none
\* is left in Repo.
LEMMA DeleteShares ==
  ASSUME Inv, Shares, faults' = 0, NEW w \in Workers, Delete(w) PROVE Shares'
<1> USE LifeAssumption
<1>0. /\ TypeOK /\ ~Fault
      /\ ops[w] # Idle => ops[w] \in Op /\ OpOK(ops[w]) /\ ShareOp(ops[w])
  BY InProgress, NoneFails DEF Inv, OpsOK, Shares
<1>1. CASE GetHeadCommit(w)
  <2> DEFINE h == HeadCommit(ops[w].lib)
  <2>0. /\ ops[w] # Idle /\ ops[w] \in Op /\ ops[w].kind = "delete" /\ ops[w].at = "read"
    BY <1>0, <1>1 DEF GetHeadCommit, At
  <2>1. ReadHead(w, h) /\ UNCHANGED <<tables, store>>
    BY <1>0, <1>1 DEF GetHeadCommit
  <2>3. ops' = [ops EXCEPT ![w] = [ops[w] EXCEPT !.h = h, !.at = IF h = 0 THEN "repo" ELSE "trash"]]
    BY <1>0, <2>1 DEF ReadHead, TypeOK
  <2>4. /\ Others(w) /\ Continues(w) /\ ops'[w].kind = "delete"
        /\ ops'[w].on = ops[w].on /\ ops'[w].todo = ops[w].todo
        /\ ops'[w].at \in {"repo", "trash"}
    BY <1>0, <2>0, <2>3 DEF TypeOK, Others, Op, Continues
  <2>5. SharesKept(w)
    BY <2>0, <2>1, <2>4, LibrarySteps DEF tables
  <2>6. ShareOp(ops[w])'
    BY <1>0, <2>0, <2>1, <2>4 DEF ShareOp, Removing, Continues, tables
  <2> QED
    BY <2>4, <2>5, <2>6, SharesStep
<1>2. CASE AddToTrash(w)
  <2>0. ops[w] # Idle /\ ops[w].kind = "delete" /\ ops[w].at = "trash"
    BY <1>2 DEF AddToTrash, At
  <2>1. Go(w, "repo") /\ UNCHANGED <<repo, virt, garbage, store>>
    BY <1>2 DEF AddToTrash
  <2>2. SharesKept(w)
    BY <1>0, <2>0, <2>1, GoFacts, LibrarySteps DEF Places, Continues
  <2>3. ShareOp(ops[w])'
    BY <1>0, <2>0, <2>1, GoFacts DEF Places, ShareOp, Removing
  <2> QED
    BY <2>0, <2>1, <2>2, <2>3, GoShares DEF Places
<1>3. CASE DelRepoRow(w)
  <2>0. ops[w] # Idle /\ ops[w].at = "repo" /\ ops[w].kind \in {"delete", "unshare"}
    BY <1>3 DEF DelRepoRow, At
  <2>1. repo' = repo \ {ops[w].on} /\ Go(w, "branch") /\ UNCHANGED <<virt, garbage, store>>
    BY <1>0, <1>3 DEF DelRepoRow
  <2>2. /\ ops'[w].kind = ops[w].kind /\ ops'[w].lib = ops[w].lib /\ ops'[w].on = ops[w].on
        /\ ops'[w].at = "branch" /\ ops'[w].todo = ops[w].todo
    BY <1>0, <2>0, <2>1, GoFacts DEF Places
  <2>3. /\ ops[w].on \in Libs => ops[w].kind = "delete" /\ ops[w].on = ops[w].lib
        /\ ops[w].on \in VRepos =>
              \/ ops[w].kind = "unshare" /\ ops[w].on = ops[w].lib
              \/ ops[w].kind = "delete" /\ ops[w].lib = OriginOf[ops[w].on]
    BY <1>0, <2>0 DEF OpOK, DeleteOK, UnshareOK, ShareOp
  <2>4. SharesKept(w)
    BY <2>0, <2>1, <2>2, <2>3 DEF SharesKept, Removing, Continues
  <2>5. ShareOp(ops[w])'
    BY <1>0, <2>0, <2>1, <2>2 DEF ShareOp, Removing
  <2> QED
    BY <2>0, <2>1, <2>4, <2>5, GoShares DEF Places
<1>4. CASE DelBranch(w) \/ DelOwner(w)
  <2>0. ops[w] # Idle /\ ops[w].at \in {"branch", "owner"} /\ ops[w].kind \in {"delete", "unshare"}
    BY <1>4 DEF DelBranch, DelOwner, At
  <2>1. /\ UNCHANGED <<repo, virt, garbage, store>>
        /\ \/ Go(w, "owner")
           \/ Go(w, IF ops[w].on \in Libs THEN "shares" ELSE "garbage")
    BY <1>4 DEF DelBranch, DelOwner
  <2>2. PICK at \in {"owner", "shares", "garbage"} :
          Go(w, at) /\ (at = "shares" => ops[w].on \in Libs) /\ (at = "garbage" => ops[w].on \notin Libs)
    BY <2>1
  <2>3. /\ ops'[w].kind = ops[w].kind /\ ops'[w].lib = ops[w].lib /\ ops'[w].on = ops[w].on
        /\ ops'[w].at = at /\ ops'[w].todo = ops[w].todo
    BY <1>0, <2>0, <2>2, GoFacts DEF Places
  <2>4. /\ ops[w].on \in Libs \cup VRepos
        /\ ops[w].kind = "delete" => ops[w].lib \in Libs
    BY <1>0, <2>0 DEF OpOK, DeleteOK, UnshareOK, TypeOK
  <2>5. SharesKept(w)
    BY <2>0, <2>1, <2>2, <2>3, <2>4 DEF SharesKept, Removing, Continues
  <2>6. ShareOp(ops[w])'
    BY <1>0, <2>0, <2>1, <2>2, <2>3, <2>4 DEF ShareOp, Removing
  <2> QED
    BY <2>0, <2>2, <2>5, <2>6, GoShares DEF Places
<1>5. CASE ListShares(w)
  <2>0. /\ ops[w] # Idle /\ ops[w] \in Op /\ ops[w].at = "shares"
        /\ OpOK(ops[w]) /\ ops[w].kind = "delete"
    BY <1>0, <1>5 DEF ListShares, At, OpOK, Op, Kinds, CreateOK, UnshareOK, PurgeOK, RestoreOK
  <2> DEFINE listed == virt \cap SharesOf(ops[w].lib)
  <2>1. /\ ops' = [ops EXCEPT ![w].todo = listed, ![w].at = "next"]
        /\ UNCHANGED <<repo, virt, garbage, store>>
    BY <1>0, <1>5 DEF ListShares, tables
  <2>2. ops' = [ops EXCEPT ![w] = [ops[w] EXCEPT !.todo = listed, !.at = "next"]]
    BY <1>0, <2>1 DEF TypeOK
  <2>3. /\ Others(w) /\ Continues(w) /\ ops'[w].kind = "delete" /\ ops'[w].at = "next"
        /\ ops'[w].on = ops[w].on /\ ops'[w].todo = listed
    BY <1>0, <2>0, <2>2 DEF TypeOK, Others, Op, Continues
  <2>4. SharesKept(w)
    BY <2>0, <2>1, <2>3, LibrarySteps
  <2>5. \A v \in SharesOf(ops[w].lib) : v \in repo => v \in listed
    BY DEF Shares, SharesOf
  <2>6. ShareOp(ops[w])'
    BY <1>0, <2>0, <2>1, <2>3, <2>5 DEF ShareOp, Removing, Continues
  <2> QED
    BY <2>3, <2>4, <2>6, SharesStep
<1>6. CASE NextShare(w)
  <2>0. /\ ops[w] # Idle /\ ops[w] \in Op /\ ops[w].at = "next"
        /\ OpOK(ops[w]) /\ ops[w].kind = "delete" /\ ShareOp(ops[w])
    BY <1>0, <1>6 DEF NextShare, At, OpOK, Op, Kinds, CreateOK, UnshareOK, PurgeOK, RestoreOK
  <2>1. UNCHANGED <<repo, virt, garbage, store>>
    BY <1>6 DEF NextShare, tables
  <2>2. /\ \A v \in SharesOf(ops[w].lib) : v \in repo => v \in ops[w].todo
        /\ ops[w].todo \subseteq SharesOf(ops[w].lib)
    BY <2>0 DEF ShareOp
  <2>3. ASSUME NEW v \in ops[w].todo,
               ops' = [ops EXCEPT ![w].on = v, ![w].todo = @ \ {v}, ![w].at = "repo"]
        PROVE  Shares'
    <3>1. ops' = [ops EXCEPT ![w] =
                    [ops[w] EXCEPT !.on = v, !.todo = @ \ {v}, !.at = "repo"]]
      BY <1>0, <2>3 DEF TypeOK
    <3>2. /\ Others(w) /\ Continues(w) /\ ops'[w].kind = "delete" /\ ops'[w].at = "repo"
          /\ ops'[w].on = v /\ ops'[w].todo = ops[w].todo \ {v}
      BY <1>0, <2>0, <3>1 DEF TypeOK, Others, Op, Continues
    <3>3. SharesKept(w)
      BY <2>0, <2>1, <3>2, LibrarySteps
    <3>4. OriginOf[v] = ops[w].lib /\ v \in VRepos /\ v # ops[w].lib
      BY <1>0, <2>0, <2>2, <2>3 DEF SharesOf, OpOK, DeleteOK, TypeOK
    <3>5. ShareOp(ops[w])'
      BY <2>1, <2>2, <3>2, <3>4 DEF ShareOp, Removing, Continues
    <3> QED
      BY <3>2, <3>3, <3>5, SharesStep
  <2>4. ASSUME ops[w].todo = {}, Go(w, "virt") PROVE Shares'
    <3>1. SharesKept(w)
      BY <1>0, <2>0, <2>1, <2>4, GoFacts, LibrarySteps DEF Places, Continues
    <3>2. ShareOp(ops[w])'
      BY <1>0, <2>0, <2>1, <2>2, <2>4, GoFacts DEF Places, ShareOp, Removing
    <3> QED
      BY <2>0, <2>4, <3>1, <3>2, GoShares DEF Places
  <2> QED
    BY <1>6, <2>3, <2>4 DEF NextShare
<1>7. CASE DelVirtualRows(w)
  <2>0. /\ ops[w] # Idle /\ ops[w] \in Op /\ ops[w].at = "virt" /\ OpOK(ops[w])
        /\ ops[w].kind \in {"delete", "unshare"} /\ ShareOp(ops[w])
    BY <1>0, <1>7 DEF DelVirtualRows, At, OpOK, Op, Kinds, CreateOK, PurgeOK, RestoreOK
  <2>1. virt' = virt \ ({ops[w].lib} \cup SharesOf(ops[w].lib)) /\ UNCHANGED <<repo, garbage, store>>
    BY <1>0, <1>7 DEF DelVirtualRows
  <2>2. /\ ops[w].kind = "delete" =>
              ops[w].lib \in Libs /\ ops[w].todo = {} /\ \A v \in SharesOf(ops[w].lib) : v \notin repo
        /\ ops[w].kind = "unshare" => ops[w].lib \in VRepos /\ ops[w].lib \notin repo
    BY <1>0, <2>0 DEF ShareOp, OpOK, DeleteOK, UnshareOK, TypeOK
  <2>3. SharesKept(w)
    BY <2>0, <2>1, <2>2 DEF SharesKept, Removing, SharesOf
  <2>4. ASSUME ops[w].kind = "delete", ops' = [ops EXCEPT ![w].on = ops[w].lib, ![w].at = "garbage"]
        PROVE  Shares'
    <3>1. ops' = [ops EXCEPT ![w] = [ops[w] EXCEPT !.on = ops[w].lib, !.at = "garbage"]]
      BY <1>0, <2>4 DEF TypeOK
    <3>2. /\ Others(w) /\ Continues(w) /\ ops'[w].kind = "delete" /\ ops'[w].at = "garbage"
          /\ ops'[w].on = ops[w].lib /\ ops'[w].todo = {}
      BY <1>0, <2>0, <2>2, <2>4, <3>1 DEF TypeOK, Others, Op, Continues
    <3>3. virt' \cap SharesOf(ops[w].lib) = {}
      BY <2>1
    <3>4. ShareOp(ops[w])'
      BY <2>1, <2>2, <2>4, <3>2, <3>3 DEF ShareOp, Removing, Continues
    <3> QED
      BY <2>3, <3>2, <3>4, SharesStep
  <2> QED
    BY <1>7, <2>3, <2>4, EndShares DEF DelVirtualRows
<1> QED
  BY <1>1, <1>2, <1>3, <1>4, <1>5, <1>6, <1>7 DEF Delete

\* A virtual repo that was removed is left to the collector before its removal, or
\* the deletion, goes on.
LEMMA TrashShares ==
  ASSUME Inv, Shares, faults' = 0, NEW w \in Workers, Trash(w) PROVE Shares'
<1> USE LifeAssumption
<1>0. /\ TypeOK /\ ~Fault
      /\ ops[w] # Idle => ops[w] \in Op /\ OpOK(ops[w]) /\ ShareOp(ops[w])
  BY InProgress, NoneFails DEF Inv, OpsOK, Shares
<1>1. CASE AddDeletedRepoRecord(w)
  <2>0. ops[w] # Idle /\ ops[w] \in Op /\ OpOK(ops[w]) /\ ops[w].at = "garbage" /\ ShareOp(ops[w])
    BY <1>0, <1>1 DEF AddDeletedRepoRecord, At
  <2>1. /\ garbage' = garbage \cup {ops[w].on} /\ AfterRecord(w, TRUE)
        /\ UNCHANGED <<repo, virt, store>>
    BY <1>0, <1>1 DEF AddDeletedRepoRecord
  <2>2. /\ ops[w].kind \in {"unshare", "delete", "purge"}
        /\ ops[w].kind = "unshare" => ops[w].on = ops[w].lib /\ ops[w].lib \in VRepos
        /\ ops[w].kind = "delete" => ops[w].on \in {ops[w].lib} \cup VRepos /\ ops[w].lib \in Libs
        /\ ops[w].kind = "purge" => ops[w].on \in Libs
    BY <1>0, <2>0 DEF OpOK, Op, Kinds, CreateOK, DeleteOK, UnshareOK, PurgeOK, RestoreOK, TypeOK
  <2>3. \A v \in VRepos : Removing(ops[w], v) => v \in garbage'
    BY <2>1 DEF Removing
  <2>4. CASE ops[w].kind = "unshare"
    <3>1. Go(w, "virt")
      BY <2>1, <2>4 DEF AfterRecord
    <3>2. SharesKept(w)
      BY <1>0, <2>0, <2>1, <2>3, <3>1, GoFacts DEF Places, SharesKept, Continues
    <3>3. ops[w].lib \notin repo
      BY <2>0, <2>2, <2>4 DEF ShareOp, Removing
    <3>4. ShareOp(ops[w])'
      BY <1>0, <2>0, <2>1, <2>4, <3>1, <3>3, GoFacts DEF Places, ShareOp, Removing
    <3> QED
      BY <2>0, <3>1, <3>2, <3>4, GoShares DEF Places
  <2>5. CASE ops[w].kind = "delete" /\ ops[w].on \in VRepos
    <3>1. Go(w, "next")
      BY <2>1, <2>5 DEF AfterRecord
    <3>2. SharesKept(w)
      BY <1>0, <2>0, <2>1, <2>3, <3>1, GoFacts DEF Places, SharesKept, Continues
    <3>3. ShareOp(ops[w])'
      BY <1>0, <2>0, <2>1, <2>5, <3>1, GoFacts DEF Places, ShareOp, Removing
    <3> QED
      BY <2>0, <3>1, <3>2, <3>3, GoShares DEF Places
  <2>6. CASE ops[w].kind = "delete" /\ ops[w].on \notin VRepos
    <3>1. End(w) /\ ops[w].on = ops[w].lib
      BY <2>1, <2>2, <2>6 DEF AfterRecord
    <3>2. /\ virt \cap SharesOf(ops[w].lib) = {}
          /\ \A v \in SharesOf(ops[w].lib) : v \notin repo
      BY <2>0, <2>6, <3>1 DEF ShareOp
    <3>3. SharesKept(w)
      BY <2>1, <2>3, <2>6, <3>2 DEF SharesKept, SharesOf
    <3> QED
      BY <3>1, <3>3, EndShares
  <2>7. CASE ops[w].kind = "purge"
    <3>1. Go(w, "trash")
      BY <2>1, <2>7 DEF AfterRecord
    <3>2. SharesKept(w)
      BY <2>1, <2>7, LibrarySteps
    <3>3. ShareOp(ops[w])'
      BY <1>0, <2>0, <2>7, <3>1, GoFacts DEF Places, ShareOp, Removing
    <3> QED
      BY <2>0, <3>1, <3>2, <3>3, GoShares DEF Places
  <2> QED
    BY <2>2, <2>4, <2>5, <2>6, <2>7
<1>2. CASE DelFromTrash(w)
  <2>1. SharesKept(w)
    BY <1>2, LibrarySteps DEF DelFromTrash
  <2> QED
    BY <1>2, <2>1, EndShares DEF DelFromTrash
<1>3. CASE GetRepoFromTrash(w)
  <2>0. ops[w] # Idle /\ ops[w] \in Op /\ ops[w].kind = "restore"
    BY <1>0, <1>3 DEF GetRepoFromTrash, At
  <2>1. SharesKept(w)
    BY <1>3, <2>0, LibrarySteps DEF GetRepoFromTrash, tables
  <2>2. ASSUME ops' = [ops EXCEPT ![w].h = trash[ops[w].lib], ![w].at = "transaction"]
        PROVE  Shares'
    <3>1. ops' = [ops EXCEPT ![w] =
                    [ops[w] EXCEPT !.h = trash[ops[w].lib], !.at = "transaction"]]
      BY <1>0, <2>2 DEF TypeOK
    <3>2. Others(w) /\ ops'[w].kind = "restore"
      BY <1>0, <2>0, <3>1 DEF TypeOK, Others, Op
    <3>3. ShareOp(ops[w])'
      BY <3>2 DEF ShareOp, Removing
    <3> QED
      BY <2>1, <3>2, <3>3, SharesStep
  <2> QED
    BY <1>3, <2>1, <2>2, EndShares DEF GetRepoFromTrash
<1>4. CASE RestoreFromTrash(w)
  <2>0. ops[w].kind = "restore" /\ ops[w].lib \in Libs
    BY <1>0, <1>4 DEF RestoreFromTrash, At, OpOK, Op, Kinds,
       CreateOK, DeleteOK, UnshareOK, PurgeOK, RestoreOK
  <2>1. SharesKept(w)
    BY <1>0, <1>4, <2>0, LibrarySteps DEF RestoreFromTrash
  <2> QED
    BY <1>4, <2>1, EndShares DEF RestoreFromTrash
<1> QED
  BY <1>1, <1>2, <1>3, <1>4 DEF Trash

\* The collector takes the record of a virtual repo with its objects; a crash is
\* counted.
LEMMA OtherShares ==
  ASSUME Inv, Shares, crashes' = 0
  PROVE  /\ \A l \in Libs : Commit(l) => Shares'
         /\ \A i \in Ids : Collect(i) => Shares'
         /\ ~Crash
         /\ UNCHANGED vars => Shares'
<1>1. ASSUME NEW l \in Libs, Commit(l) PROVE Shares'
  BY <1>1 DEF Commit, Shares, ShareOp, Removing, Busy
<1>2. ASSUME NEW i \in Ids, Collect(i) PROVE Shares'
  <2>1. \A w \in Workers : ops[w] = Idle /\ ops'[w] = Idle /\ ops[w].kind = "none"
    BY <1>2 DEF Collect, AllIdle, Idle
  <2>2. /\ UNCHANGED <<repo, virt, ops>>
        /\ \A v \in VRepos : v \in garbage \/ v \notin store => v \in repo' \/ v \in garbage' \/ v \notin store'
    BY <1>2 DEF Collect
  <2>3. \A w \in Workers, v \in VRepos : ~Removing(ops[w], v)
    BY <2>1 DEF Removing
  <2> QED
    BY <2>1, <2>2, <2>3 DEF Shares, Busy
<1>3. ~Crash
  BY DEF Crash, Inv, TypeOK
<1>4. ASSUME UNCHANGED vars PROVE Shares'
  BY <1>4 DEF vars, tables, Shares, ShareOp, Removing, Busy
<1> QED
  BY <1>1, <1>2, <1>3, <1>4

\* No step forgets a crash.
LEMMA CrashesStay == ASSUME TypeOK, [Next]_vars, crashes' = 0 PROVE crashes = 0
<1>1. crashes' \in {crashes, crashes + 1}
  BY DEF vars, Next, Start, StartCreate, StartDelete, StartPurge, StartRestore, StartUnshare,
     Create, AddCommit, AddBranch, AddRepo, SetOwner, CreateFails, Delete, GetHeadCommit,
     AddToTrash, DelRepoRow, DelBranch, DelOwner, ListShares, NextShare, DelVirtualRows,
     Trash, AddDeletedRepoRecord, DelFromTrash, GetRepoFromTrash, RestoreFromTrash,
     Commit, Collect, Crash
<1> QED
  BY <1>1, LifeAssumption DEF TypeOK

\* Every library starts with its virtual repos, and every step keeps the invariant.
LEMMA InitShares == Init => ShareInv
<1> SUFFICES ASSUME Init PROVE ShareInv
  OBVIOUS
<1>1. \A v \in VRepos : OriginOf[v] \in Libs
  BY LifeAssumption
<1>2. Shares
  BY <1>1, LifeAssumption DEF Init, Shares, Busy
<1> QED
  BY <1>2, InitInv DEF ShareInv

\* Every step keeps the invariant.
LEMMA NextShares == ShareInv /\ [Next]_vars => ShareInv'
<1> SUFFICES ASSUME ShareInv, [Next]_vars PROVE ShareInv'
  OBVIOUS
<1>1. Inv /\ Inv'
  BY NextInv DEF ShareInv
<1>2. ASSUME faults' = 0, crashes' = 0 PROVE Shares'
  <2>1. Shares
    BY <1>1, <1>2, FaultsStay, CrashesStay DEF ShareInv, Inv
  <2> QED
    BY <1>1, <1>2, <2>1, StartShares, CreateShares, DeleteShares, TrashShares, OtherShares DEF Next
<1> QED
  BY <1>1, <1>2 DEF ShareInv

\* The virtual repos of a library go with it, also when a merge task removes one of
\* them at the same time, and their commits are left to the collector, as long as no
\* statement fails and nothing crashes: whatever deletions and restores meet.
THEOREM SharesGoWithTheLibrary == Spec => []SharesFollow
<1>1. ShareInv => SharesFollow
  <2> SUFFICES ASSUME Inv, Shares, NEW v \in VRepos,
                      ~Busy(v, {"unshare"}), ~Busy(OriginOf[v], {"delete"})
      PROVE  /\ v \in repo <=> v \in virt
             /\ v \in repo => OriginOf[v] \in repo
             /\ v \in repo \/ v \in garbage \/ v \notin store
    BY DEF ShareInv, SharesFollow
  <2>1. \A w \in Workers : ~Removing(ops[w], v)
    <3> SUFFICES ASSUME NEW w \in Workers, Removing(ops[w], v) PROVE FALSE
      OBVIOUS
    <3>1. ops[w] # Idle /\ ops[w].on = v
      BY DEF Removing, Idle
    <3>2. OpOK(ops[w]) /\ ShareOp(ops[w])
      BY <3>1 DEF Inv, OpsOK, Shares
    <3> QED
      BY <3>1, <3>2 DEF Removing, OpOK, UnshareOK, ShareOp, Busy
  <2> QED
    BY <2>1 DEF Shares
<1> QED
  BY <1>1, InitShares, NextShares, PTL DEF Spec

-----------------------------------------------------------------------------
(* The heads, as long as no statement fails and nothing crashes.            *)

\* A deletion that has not come to its statement on table Branch
BeforeBranch(o) == o.on = o.lib /\ o.at \in {"read", "trash", "repo", "branch"}

HeadOp(o) ==
    /\ o.kind = "restore" /\ o.at = "transaction" => o.h >= asked[o.lib]
    /\ o.kind = "delete" =>
          /\ o.at \in {"read", "trash"} => o.on = o.lib
          /\ BeforeRepo(o) => head[o.lib] >= asked[o.lib]
          /\ BeforeRepo(o) /\ o.at = "trash" => o.h >= asked[o.lib]
          /\ ~BeforeBranch(o) => head[o.lib] = 0

\* The row of the trash and the head a restore or a deletion has read are not older
\* than the request to delete; a library that is deleted has no row in Branch, so
\* that its restore takes the head of the trash.
Heads ==
    /\ \A l \in Libs :
        /\ trash[l] # 0 => trash[l] >= asked[l] /\ l \in created
        /\ l \notin created => asked[l] = 0
        /\ l \in created /\ ~Busy(l, {"delete"}) =>
              IF l \in repo THEN head[l] >= asked[l] /\ trash[l] = 0 ELSE head[l] = 0
    /\ \A w \in Workers : ops[w] # Idle => HeadOp(ops[w])

HeadInv == RecordInv /\ (faults = 0 /\ crashes = 0 => Heads)

\* What a step of thread w does with a library: only its deletion and its restore
\* touch its head, once it is created.
HeadsKept(w) ==
    /\ created \subseteq created'
    /\ \A l \in created' : l \in created \/ (l \in Libs /\ l \in repo')
    /\ \A l \in Libs :
        /\ asked'[l] # asked[l] =>
              /\ ops'[w].kind = "delete" /\ ops'[w].lib = l /\ ~Busy(l, {"restore"})
              /\ trash'[l] = 0 /\ l \in created
        /\ trash'[l] # 0 =>
              \/ trash'[l] = trash[l]
              \/ /\ ops'[w].kind = "delete" /\ ops'[w].lib = l
                 /\ trash'[l] >= asked[l] /\ l \in created
        /\ l \in created =>
              \/ head'[l] = head[l] /\ (l \in repo' <=> l \in repo)
              \/ ops'[w].kind = "delete" /\ ops'[w].lib = l
              \/ /\ ops[w].kind = "restore" /\ ops[w].lib = l
                 /\ l \in repo' /\ head'[l] >= asked[l] /\ trash'[l] = 0
        /\ ops[w].kind = "delete" /\ ops[w].lib = l =>
              Continues(w) \/ (l \notin repo' /\ head'[l] = 0)

\* The other threads keep the heads they have read: deletions and restores of one
\* library do not meet, and only they and commits touch its head.
LEMMA HeadsStep ==
  ASSUME Inv, Inv', Live, Live', Heads, NEW w \in Workers, Others(w), HeadsKept(w),
         ops'[w] # Idle => HeadOp(ops[w])'
  PROVE  Heads'
<1> USE LifeAssumption
<1>0. /\ asked \in [Libs -> Nat] /\ asked' \in [Libs -> Nat]
      /\ head \in [Ids -> Nat] /\ head' \in [Ids -> Nat]
      /\ trash \in [Libs -> Nat] /\ trash' \in [Libs -> Nat]
      /\ created \subseteq Libs /\ Libs \subseteq Ids
  BY DEF Inv, TypeOK, Ids
<1>1. ASSUME NEW l \in Libs
      PROVE  /\ trash'[l] # 0 => trash'[l] >= asked'[l] /\ l \in created'
             /\ l \notin created' => asked'[l] = 0
             /\ l \in created' /\ ~Busy(l, {"delete"})' =>
                   IF l \in repo' THEN head'[l] >= asked'[l] /\ trash'[l] = 0 ELSE head'[l] = 0
  <2>1. /\ trash[l] # 0 => trash[l] >= asked[l] /\ l \in created
        /\ l \notin created => asked[l] = 0
        /\ l \in created /\ ~Busy(l, {"delete"}) =>
              IF l \in repo THEN head[l] >= asked[l] /\ trash[l] = 0 ELSE head[l] = 0
    BY DEF Heads
  <2>2. trash'[l] # 0 => trash'[l] >= asked'[l] /\ l \in created'
    BY <2>1 DEF HeadsKept
  <2>3. l \notin created' => asked'[l] = 0
    BY <2>1 DEF HeadsKept
  <2>4. ASSUME l \in created', ~Busy(l, {"delete"})'
        PROVE  IF l \in repo' THEN head'[l] >= asked'[l] /\ trash'[l] = 0 ELSE head'[l] = 0
    <3>1. ~(ops'[w].kind = "delete" /\ ops'[w].lib = l)
      BY <2>4 DEF Busy
    <3>2. asked'[l] = asked[l] /\ (trash'[l] # 0 => trash'[l] = trash[l])
      BY <3>1 DEF HeadsKept
    <3>3. CASE l \notin created
      BY <1>0, <2>1, <2>4, <3>2, <3>3 DEF HeadsKept
    <3>4. CASE l \in created /\ Busy(l, {"delete"})
      <4>1. ops[w].kind = "delete" /\ ops[w].lib = l
        BY <2>4, <3>4 DEF Busy, Others
      <4> QED
        BY <3>1, <4>1 DEF HeadsKept, Continues
    <3>5. CASE l \in created /\ ~Busy(l, {"delete"})
      <4>1. \/ head'[l] = head[l] /\ (l \in repo' <=> l \in repo)
            \/ l \in repo' /\ head'[l] >= asked[l] /\ trash'[l] = 0
        BY <3>1, <3>5 DEF HeadsKept
      <4> QED
        BY <2>1, <3>2, <3>5, <4>1
    <3> QED
      BY <3>3, <3>4, <3>5
  <2> QED
    BY <2>2, <2>3, <2>4
<1>2. ASSUME NEW x \in Workers, x # w, ops'[x] # Idle PROVE HeadOp(ops[x])'
  <2>1. ops'[x] = ops[x] /\ OpOK(ops[x]) /\ HeadOp(ops[x])
    BY <1>2 DEF Others, Inv, OpsOK, Heads
  <2>2. CASE ops[x].kind = "restore"
    <3>1. ops[x].lib \in Libs
      BY <2>1, <2>2 DEF OpOK, RestoreOK
    <3>2. asked'[ops[x].lib] = asked[ops[x].lib]
      BY <2>2, <3>1 DEF HeadsKept, Busy
    <3> QED
      BY <2>1, <2>2, <3>2 DEF HeadOp
  <2>3. CASE ops[x].kind = "delete"
    <3>1. ops[x].lib \in Libs /\ ops[x].lib \in created
      BY <1>0, <2>1, <2>3 DEF OpOK, DeleteOK
    <3>2. ~(ops[w].kind = "restore" /\ ops[w].lib = ops[x].lib)
      BY <1>2, <2>3 DEF Live, DeletesApart
    <3>3. ~(ops'[w].kind = "delete" /\ ops'[w].lib = ops[x].lib)
      BY <1>2, <2>1, <2>3 DEF Live, DeletesApart
    <3>4. asked'[ops[x].lib] = asked[ops[x].lib] /\ head'[ops[x].lib] = head[ops[x].lib]
      BY <3>1, <3>2, <3>3 DEF HeadsKept
    <3> QED
      BY <2>1, <2>3, <3>4 DEF HeadOp, BeforeRepo, BeforeBranch
  <2> QED
    BY <2>1, <2>2, <2>3 DEF HeadOp
<1> QED
  BY <1>1, <1>2 DEF Heads

\* An operation ends.
LEMMA EndHeads ==
  ASSUME Inv, Inv', Live, Live', Heads, NEW w \in Workers, End(w), HeadsKept(w)
  PROVE  Heads'
  BY EndFacts, HeadsStep DEF Inv

\* An operation goes on to another statement.
LEMMA GoHeads ==
  ASSUME Inv, Inv', Live, Live', Heads, NEW w \in Workers, ops[w] # Idle,
         NEW at \in Places, Go(w, at), HeadsKept(w), HeadOp(ops[w])'
  PROVE  Heads'
  BY GoFacts, HeadsStep DEF Inv

\* A step that touches no row of a library in Repo, Branch or the trash, and does not
\* end a deletion
LEMMA QuietHeads ==
  ASSUME NEW w \in Workers, UNCHANGED <<trash, created, asked>>,
         \A l \in Libs : head'[l] = head[l] /\ (l \in repo' <=> l \in repo),
         ops[w].kind = "delete" => Continues(w)
  PROVE  HeadsKept(w)
  BY DEF HeadsKept

\* A deletion is asked for when the library is in table Repo and no other deletion
\* or restore of it is under way.
LEMMA StartHeads ==
  ASSUME ~Overlaps, Inv, Inv', Live, Live', Heads, NEW w \in Workers, Start(w) PROVE Heads'
<1> USE LifeAssumption
<1>0. ops[w].kind = "none"
  BY DEF Start, StartCreate, StartDelete, StartPurge, StartRestore, StartUnshare, Idle
<1>1. ASSUME NEW kind \in {"create", "unshare", "purge", "restore"}, NEW i \in Ids,
             NEW at \in {"commit", "read", "repo", "garbage"},
             ops' = [ops EXCEPT ![w] = Started(kind, i, at)],
             UNCHANGED <<tables, store, history>>
      PROVE  Heads'
  <2>1. kind \in Kinds /\ at \in Places
    BY DEF Kinds, Places
  <2>2. Others(w) /\ ops'[w] = Started(kind, i, at)
    BY <1>1, <2>1, StartedType, ChangeFacts DEF Inv
  <2>3. HeadOp(ops[w])'
    BY <1>1, <2>2 DEF HeadOp, Started
  <2>4. HeadsKept(w)
    BY <1>0, <1>1, QuietHeads DEF tables, history
  <2> QED
    BY <2>2, <2>3, <2>4, HeadsStep
<1>2. ASSUME NEW l \in Libs, StartDelete(w, l) PROVE Heads'
  <2>1. Others(w) /\ ops'[w] = Started("delete", l, "read")
    BY <1>2, StartedType, ChangeFacts DEF StartDelete, Inv, Kinds, Places, Ids
  <2>2. /\ l \in created /\ l \in repo /\ ~Busy(l, {"delete", "restore"})
        /\ UNCHANGED <<repo, head, trash, created>>
        /\ asked' = [asked EXCEPT ![l] = head[l]]
    BY <1>2 DEF StartDelete, tables
  <2>3. ~Busy(l, {"delete"}) /\ ~Busy(l, {"restore"})
    BY <2>2 DEF Busy
  <2>4. trash[l] = 0
    BY <2>2, <2>3 DEF Heads
  <2>5. HeadsKept(w)
    BY <1>0, <2>1, <2>2, <2>3, <2>4 DEF HeadsKept, Started, Inv, TypeOK
  <2>6. head'[l] >= asked'[l]
    BY <2>2 DEF Inv, TypeOK, Ids
  <2>7. HeadOp(ops[w])'
    BY <2>1, <2>6 DEF HeadOp, Started, BeforeRepo, BeforeBranch
  <2> QED
    BY <2>1, <2>5, <2>7, HeadsStep
<1>3. ASSUME NEW l \in Libs, StartCreate(w, l) \/ StartPurge(w, l) \/ StartRestore(w, l)
      PROVE  Heads'
  BY <1>1, <1>3 DEF StartCreate, StartPurge, StartRestore, Ids
<1>4. ASSUME NEW v \in VRepos, StartUnshare(w, v) PROVE Heads'
  BY <1>1, <1>4 DEF StartUnshare, Ids
<1> QED
  BY <1>2, <1>3, <1>4 DEF Start

\* A creation touches no library that was created.
LEMMA CreateHeads ==
  ASSUME Inv, Inv', Live, Live', Records, Heads, NEW w \in Workers, Create(w) PROVE Heads'
<1> USE LifeAssumption
<1>0. /\ TypeOK /\ (ops[w] # Idle => ops[w] \in Op /\ OpOK(ops[w]) /\ RecordOp(ops[w]))
      /\ ops[w].kind = "create" => ops[w] # Idle
  BY InProgress DEF Inv, OpsOK, Idle, Records
<1>1. ops[w].kind = "create" /\ ops[w] # Idle /\ ops[w].lib \in Libs \ created
  BY <1>0 DEF Create, AddCommit, AddBranch, AddRepo, SetOwner, CreateFails, At, OpOK, Op, Kinds,
     CreateOK, DeleteOK, UnshareOK, PurgeOK, RestoreOK
<1>2. UNCHANGED <<trash, asked>>
  BY DEF Create, AddCommit, AddBranch, AddRepo, SetOwner, CreateFails, tables, history
<1>3. ASSUME NEW l \in created
      PROVE  head'[l] = head[l] /\ (l \in repo' <=> l \in repo)
  <2>1. l \in Ids /\ l # ops[w].lib
    BY <1>0, <1>1 DEF TypeOK, Ids
  <2> QED
    BY <1>0, <2>1 DEF Create, AddCommit, AddBranch, AddRepo, SetOwner, CreateFails, tables, TypeOK
<1>4. \/ created' = created
      \/ created' = created \cup {ops[w].lib} /\ ops[w].lib \in repo'
  BY <1>0 DEF Create, AddCommit, AddBranch, AddRepo, SetOwner, CreateFails, history, At, RecordOp
<1>5. HeadsKept(w)
  BY <1>1, <1>2, <1>3, <1>4 DEF HeadsKept
<1>6. \/ End(w)
      \/ \E at \in {"branch", "repo", "owner"} : Go(w, at)
  BY DEF Create, AddCommit, AddBranch, AddRepo, SetOwner, CreateFails
<1>7. ASSUME NEW at \in {"branch", "repo", "owner"}, Go(w, at) PROVE Heads'
  <2>1. HeadOp(ops[w])'
    BY <1>0, <1>1, <1>7, GoFacts DEF Places, HeadOp
  <2> QED
    BY <1>1, <1>5, <1>7, <2>1, GoHeads DEF Places
<1> QED
  BY <1>5, <1>6, <1>7, EndHeads

\* A purge takes rows of the trash; a restore puts the head back that it has read,
\* or leaves the one that another restore has put back.
LEMMA TrashHeads ==
  ASSUME Inv, Inv', Live, Live', Heads, faults' = 0, NEW w \in Workers, Trash(w) PROVE Heads'
<1> USE LifeAssumption
<1>0. /\ TypeOK /\ ~Fault
      /\ ops[w] # Idle => ops[w] \in Op /\ OpOK(ops[w]) /\ HeadOp(ops[w])
  BY InProgress, NoneFails DEF Inv, OpsOK, Heads
<1>1. CASE AddDeletedRepoRecord(w)
  <2>0. ops[w] # Idle /\ ops[w] \in Op /\ OpOK(ops[w]) /\ ops[w].at = "garbage"
        /\ HeadOp(ops[w])
    BY <1>0, <1>1 DEF AddDeletedRepoRecord, At
  <2>1. AfterRecord(w, TRUE) /\ UNCHANGED <<repo, head, trash, created, asked>>
    BY <1>0, <1>1 DEF AddDeletedRepoRecord, history
  <2>2. /\ ops[w].kind \in {"unshare", "delete", "purge"}
        /\ ops[w].kind = "delete" => ops[w].on \in Libs \cup VRepos
    BY <2>0 DEF OpOK, Op, Kinds, Ids, CreateOK, DeleteOK, UnshareOK, PurgeOK, RestoreOK
  <2>3. \/ End(w)
        \/ \E at \in {"virt", "next", "trash"} :
              Go(w, at) /\ (at = "trash" => ops[w].kind = "purge")
    BY <2>1, <2>2 DEF AfterRecord
  <2>4. ASSUME End(w) PROVE Heads'
    <3>1. ops[w].kind = "delete" => ops[w].lib \notin repo /\ head[ops[w].lib] = 0
      BY <2>0 DEF Live, DeleteLive, BeforeRepo, HeadOp, BeforeBranch
    <3>2. HeadsKept(w)
      BY <2>1, <3>1 DEF HeadsKept
    <3> QED
      BY <2>4, <3>2, EndHeads
  <2>5. ASSUME NEW at \in {"virt", "next", "trash"}, Go(w, at),
               at = "trash" => ops[w].kind = "purge"
        PROVE  Heads'
    <3>1. /\ ops'[w].kind = ops[w].kind /\ ops'[w].lib = ops[w].lib /\ ops'[w].on = ops[w].on
          /\ ops'[w].at = at
      BY <1>0, <2>0, <2>5, GoFacts DEF Places
    <3>2. HeadsKept(w)
      BY <2>1, <3>1, QuietHeads DEF Continues
    <3>3. HeadOp(ops[w])'
      BY <2>0, <2>1, <2>2, <2>5, <3>1 DEF HeadOp, BeforeRepo, BeforeBranch
    <3> QED
      BY <2>0, <2>5, <3>2, <3>3, GoHeads DEF Places
  <2> QED
    BY <2>3, <2>4, <2>5
<1>2. CASE DelFromTrash(w)
  <2>1. HeadsKept(w)
    BY <1>0, <1>2 DEF DelFromTrash, HeadsKept, history, TypeOK
  <2> QED
    BY <1>2, <2>1, EndHeads DEF DelFromTrash
<1>3. CASE GetRepoFromTrash(w)
  <2>0. ops[w] # Idle /\ ops[w] \in Op /\ ops[w].kind = "restore" /\ ops[w].lib \in Libs
    BY <1>0, <1>3 DEF GetRepoFromTrash, At, OpOK, RestoreOK
  <2>1. HeadsKept(w)
    BY <1>3, <2>0, QuietHeads DEF GetRepoFromTrash, tables, history
  <2>2. ASSUME trash[ops[w].lib] # 0,
               ops' = [ops EXCEPT ![w].h = trash[ops[w].lib], ![w].at = "transaction"]
        PROVE  Heads'
    <3>1. ops' = [ops EXCEPT ![w] =
                    [ops[w] EXCEPT !.h = trash[ops[w].lib], !.at = "transaction"]]
      BY <1>0, <2>2 DEF TypeOK
    <3>2. /\ Others(w) /\ ops'[w].kind = "restore" /\ ops'[w].lib = ops[w].lib
          /\ ops'[w].h = trash[ops[w].lib]
      BY <1>0, <2>0, <3>1 DEF TypeOK, Others, Op
    <3>3. trash[ops[w].lib] >= asked[ops[w].lib] /\ asked' = asked
      BY <1>3, <2>0, <2>2 DEF Heads, GetRepoFromTrash, history
    <3>4. HeadOp(ops[w])'
      BY <3>2, <3>3 DEF HeadOp
    <3> QED
      BY <2>1, <3>2, <3>4, HeadsStep
  <2> QED
    BY <1>3, <2>1, <2>2, EndHeads DEF GetRepoFromTrash
<1>4. CASE RestoreFromTrash(w)
  <2> DEFINE l == ops[w].lib
  <2>0. /\ ops[w] # Idle /\ ops[w].kind = "restore" /\ l \in Libs /\ l \in Ids
        /\ ops[w].h >= asked[l] /\ ops[w].h # 0
    BY <1>0, <1>4 DEF RestoreFromTrash, At, OpOK, Op, Kinds, Ids,
       CreateOK, DeleteOK, UnshareOK, PurgeOK, RestoreOK, HeadOp
  <2>1. /\ repo' = repo \cup {l} /\ trash' = [trash EXCEPT ![l] = 0]
        /\ head' = RestoredHead(l, ops[w].h)
        /\ UNCHANGED <<created, asked>>
    BY <1>0, <1>4 DEF RestoreFromTrash, history
  <2>2. ~Busy(l, {"delete"})
    BY <2>0 DEF Live, DeletesApart, Busy
  <2>3. l \in created => IF l \in repo THEN head[l] >= asked[l] ELSE head[l] = 0
    BY <2>0, <2>2 DEF Heads
  <2>4. l \in created => head'[l] >= asked[l]
    BY <1>0, <2>0, <2>1, <2>3 DEF RestoredHead, TypeOK
  <2>5. \A k \in Libs : k # l => head'[k] = head[k]
    BY <1>0, <2>1 DEF RestoredHead, TypeOK, Ids
  <2>6. trash'[l] = 0 /\ \A k \in Libs : trash'[k] # 0 => trash'[k] = trash[k]
    BY <1>0, <2>0, <2>1 DEF TypeOK
  <2>7. HeadsKept(w)
    BY <2>0, <2>1, <2>4, <2>5, <2>6 DEF HeadsKept
  <2> QED
    BY <1>4, <2>7, EndHeads DEF RestoreFromTrash
<1> QED
  BY <1>1, <1>2, <1>3, <1>4 DEF Trash

\* A deletion reads the head when it was asked for or a later one, keeps it in the
\* trash, and leaves no row in Branch.
LEMMA DeleteHeads ==
  ASSUME Inv, Inv', Live, Live', Records, Heads, faults' = 0, NEW w \in Workers, Delete(w)
  PROVE  Heads'
<1> USE LifeAssumption
<1>0. /\ TypeOK /\ ~Fault
      /\ ops[w] # Idle => /\ ops[w] \in Op /\ OpOK(ops[w])
                          /\ RecordOp(ops[w]) /\ HeadOp(ops[w])
      /\ created \subseteq Libs /\ Libs \subseteq Ids
  BY InProgress, NoneFails DEF Inv, OpsOK, Records, Heads, TypeOK, Ids
<1>1. CASE GetHeadCommit(w)
  <2> DEFINE l == ops[w].lib
             h == HeadCommit(l)
  <2>0. /\ ops[w] # Idle /\ ops[w] \in Op /\ ops[w].kind = "delete" /\ ops[w].at = "read"
        /\ l \in created /\ HeadOp(ops[w]) /\ RecordOp(ops[w]) /\ ops[w].on = l
    BY <1>0, <1>1 DEF GetHeadCommit, At, OpOK, DeleteOK, HeadOp
  <2>1. ReadHead(w, h) /\ UNCHANGED <<tables, store, history>>
    BY <1>0, <1>1 DEF GetHeadCommit
  <2>2. ops' = [ops EXCEPT ![w] = [ops[w] EXCEPT !.h = h, !.at = IF h = 0 THEN "repo" ELSE "trash"]]
    BY <1>0, <2>1 DEF ReadHead, TypeOK
  <2>3. /\ Others(w) /\ Continues(w) /\ ops'[w].kind = "delete" /\ ops'[w].lib = l
        /\ ops'[w].on = l /\ ops'[w].h = h /\ ops'[w].at \in {"repo", "trash"}
    BY <1>0, <2>0, <2>2 DEF TypeOK, Others, Op, Continues
  <2>4. h = head[l] /\ head[l] >= asked[l]
    BY <2>0 DEF Live, DeleteLive, BeforeRepo, Complete, RecordOp, HeadCommit, HeadOp
  <2>5. HeadsKept(w)
    BY <2>1, <2>3, QuietHeads DEF tables, history
  <2>6. HeadOp(ops[w])'
    BY <2>1, <2>3, <2>4 DEF HeadOp, BeforeRepo, BeforeBranch, tables, history
  <2> QED
    BY <2>3, <2>5, <2>6, HeadsStep
<1>2. CASE AddToTrash(w)
  <2> DEFINE l == ops[w].lib
  <2>0. /\ ops[w] # Idle /\ ops[w].kind = "delete" /\ ops[w].at = "trash" /\ ops[w].on = l
        /\ l \in created /\ head[l] >= asked[l] /\ ops[w].h >= asked[l]
    BY <1>0, <1>2 DEF AddToTrash, At, OpOK, DeleteOK, HeadOp, BeforeRepo
  <2>1. /\ trash' = Trashed(l, ops[w].h) /\ UNCHANGED <<repo, head, created, asked>>
        /\ Go(w, "repo")
    BY <1>0, <1>2 DEF AddToTrash, history
  <2>2. /\ ops'[w].kind = "delete" /\ ops'[w].lib = l /\ ops'[w].on = l /\ ops'[w].at = "repo"
    BY <1>0, <2>0, <2>1, GoFacts DEF Places
  <2>3. /\ \A k \in Libs : k # l => trash'[k] = trash[k]
        /\ trash'[l] \in {trash[l], ops[w].h}
    BY <1>0, <2>0, <2>1 DEF Trashed, TypeOK
  <2>4. HeadsKept(w)
    BY <2>0, <2>1, <2>2, <2>3 DEF HeadsKept, Continues
  <2>5. HeadOp(ops[w])'
    BY <2>0, <2>1, <2>2 DEF HeadOp, BeforeRepo, BeforeBranch
  <2> QED
    BY <2>0, <2>1, <2>4, <2>5, GoHeads DEF Places
<1>3. CASE DelRepoRow(w) \/ DelBranch(w)
  <2>0. /\ ops[w] # Idle /\ ops[w].at \in {"repo", "branch"} /\ ops[w].kind \in {"delete", "unshare"}
        /\ OpOK(ops[w]) /\ HeadOp(ops[w])
    BY <1>0, <1>3 DEF DelRepoRow, DelBranch, At
  <2>1. /\ UNCHANGED <<trash, created, asked>>
        /\ \/ ops[w].at = "repo" /\ repo' = repo \ {ops[w].on} /\ head' = head /\ Go(w, "branch")
           \/ ops[w].at = "branch" /\ repo' = repo /\ head' = [head EXCEPT ![ops[w].on] = 0]
              /\ Go(w, "owner")
    BY <1>0, <1>3 DEF DelRepoRow, DelBranch, At, history
  <2>2. PICK at \in {"branch", "owner"} :
          Go(w, at) /\ (at = "owner" <=> ops[w].at = "branch")
    BY <2>0, <2>1
  <2>3. /\ ops'[w].kind = ops[w].kind /\ ops'[w].lib = ops[w].lib /\ ops'[w].on = ops[w].on
        /\ ops'[w].at = at
    BY <1>0, <2>0, <2>2, GoFacts DEF Places
  <2>4. /\ ops[w].on \in Libs => ops[w].kind = "delete" /\ ops[w].on = ops[w].lib
        /\ ops[w].kind = "delete" => ops[w].lib \in Libs /\ ops[w].lib \in Ids
    BY <1>0, <2>0 DEF OpOK, DeleteOK, UnshareOK, TypeOK
  <2>5. \A l \in Libs : l # ops[w].on => head'[l] = head[l] /\ (l \in repo' <=> l \in repo)
    BY <1>0, <2>1 DEF TypeOK
  <2>6. HeadsKept(w)
    BY <2>1, <2>3, <2>4, <2>5 DEF HeadsKept, Continues
  <2>7. HeadOp(ops[w])'
    <3>1. ASSUME ops[w].kind = "delete", ~BeforeBranch(ops[w])' PROVE head'[ops[w].lib] = 0
      <4>1. CASE ops[w].on = ops[w].lib
        <5>1. ops[w].at = "branch"
          BY <2>2, <2>3, <3>1, <4>1 DEF BeforeBranch
        <5> QED
          BY <1>0, <2>1, <2>4, <3>1, <4>1, <5>1 DEF TypeOK
      <4>2. CASE ops[w].on # ops[w].lib
        BY <2>0, <2>4, <2>5, <3>1, <4>2 DEF HeadOp, BeforeBranch
      <4> QED
        BY <4>1, <4>2
    <3> QED
      BY <2>0, <2>3, <3>1 DEF HeadOp, BeforeRepo
  <2> QED
    BY <2>0, <2>2, <2>6, <2>7, GoHeads DEF Places
<1>4. CASE DelOwner(w)
  <2>0. /\ ops[w] # Idle /\ ops[w].at = "owner" /\ ops[w].kind \in {"delete", "unshare"}
    BY <1>4 DEF DelOwner, At
  <2>1. /\ UNCHANGED <<repo, head, trash, created, asked>>
        /\ \E at \in {"shares", "garbage"} : Go(w, at)
    BY <1>4 DEF DelOwner, history
  <2>2. PICK at \in {"shares", "garbage"} : Go(w, at)
    BY <2>1
  <2>3. /\ ops'[w].kind = ops[w].kind /\ ops'[w].lib = ops[w].lib /\ ops'[w].at = at
    BY <1>0, <2>0, <2>2, GoFacts DEF Places
  <2>4. HeadsKept(w)
    BY <2>1, <2>3, QuietHeads DEF Continues
  <2>5. HeadOp(ops[w])'
    BY <1>0, <2>0, <2>1, <2>3 DEF HeadOp, BeforeRepo, BeforeBranch
  <2> QED
    BY <2>0, <2>2, <2>4, <2>5, GoHeads DEF Places
<1>5. CASE ListShares(w) \/ NextShare(w)
  <2>0. /\ ops[w] # Idle /\ ops[w] \in Op /\ ops[w].at \in {"shares", "next"}
        /\ ops[w].kind = "delete" /\ HeadOp(ops[w]) /\ OpOK(ops[w])
    BY <1>0, <1>5 DEF ListShares, NextShare, At, OpOK, Op, Kinds, CreateOK, UnshareOK,
       PurgeOK, RestoreOK
  <2>1. UNCHANGED <<repo, head, trash, created, asked>>
    BY <1>5 DEF ListShares, NextShare, tables, history
  <2>2. head[ops[w].lib] = 0
    BY <2>0 DEF HeadOp, BeforeBranch
  <2>3. ASSUME NEW todo, ops' = [ops EXCEPT ![w].todo = todo, ![w].at = "next"] PROVE Heads'
    <3>1. ops' = [ops EXCEPT ![w] = [ops[w] EXCEPT !.todo = todo, !.at = "next"]]
      BY <1>0, <2>3 DEF TypeOK
    <3>2. Others(w) /\ Continues(w) /\ ops'[w].kind = "delete" /\ ops'[w].at = "next"
      BY <1>0, <2>0, <3>1 DEF TypeOK, Others, Op, Continues
    <3>3. HeadOp(ops[w])'
      BY <2>1, <2>2, <3>2 DEF HeadOp, BeforeRepo, Continues
    <3>4. HeadsKept(w)
      BY <2>1, <3>2, QuietHeads
    <3> QED
      BY <3>2, <3>3, <3>4, HeadsStep
  <2>4. ASSUME NEW v \in ops[w].todo,
               ops' = [ops EXCEPT ![w].on = v, ![w].todo = @ \ {v}, ![w].at = "repo"]
        PROVE  Heads'
    <3>1. ops' = [ops EXCEPT ![w] =
                    [ops[w] EXCEPT !.on = v, !.todo = @ \ {v}, !.at = "repo"]]
      BY <1>0, <2>4 DEF TypeOK
    <3>2. /\ Others(w) /\ Continues(w) /\ ops'[w].kind = "delete" /\ ops'[w].at = "repo"
          /\ ops'[w].on = v /\ ops'[w].lib = ops[w].lib
      BY <1>0, <2>0, <3>1 DEF TypeOK, Others, Op, Continues
    <3>3. v # ops[w].lib
      BY <1>0, <2>0, <2>4 DEF OpOK, DeleteOK, TypeOK, Op
    <3>4. HeadOp(ops[w])'
      BY <2>1, <2>2, <3>2, <3>3 DEF HeadOp, BeforeRepo
    <3>5. HeadsKept(w)
      BY <2>1, <3>2, QuietHeads
    <3> QED
      BY <3>2, <3>4, <3>5, HeadsStep
  <2>5. ASSUME Go(w, "virt") PROVE Heads'
    <3>1. HeadOp(ops[w])'
      BY <1>0, <2>0, <2>1, <2>2, <2>5, GoFacts DEF Places, HeadOp, BeforeRepo
    <3>2. HeadsKept(w)
      BY <1>0, <2>0, <2>1, <2>5, GoFacts, QuietHeads DEF Places, Continues
    <3> QED
      BY <2>0, <2>5, <3>1, <3>2, GoHeads DEF Places
  <2> QED
    BY <1>5, <2>3, <2>4, <2>5 DEF ListShares, NextShare
<1>6. CASE DelVirtualRows(w)
  <2>0. /\ ops[w] # Idle /\ ops[w] \in Op /\ ops[w].at = "virt"
    BY <1>0, <1>6 DEF DelVirtualRows, At
  <2>1. UNCHANGED <<repo, head, trash, created, asked>>
    BY <1>6 DEF DelVirtualRows, history
  <2>2. ops[w].kind = "delete" => ops[w].lib \notin repo /\ head[ops[w].lib] = 0
    BY <1>0, <2>0 DEF Live, DeleteLive, BeforeRepo, HeadOp, BeforeBranch
  <2>3. HeadsKept(w)
    BY <2>1, <2>2 DEF HeadsKept
  <2>4. ASSUME ops[w].kind = "delete", ops' = [ops EXCEPT ![w].on = ops[w].lib, ![w].at = "garbage"]
        PROVE  Heads'
    <3>1. ops' = [ops EXCEPT ![w] = [ops[w] EXCEPT !.on = ops[w].lib, !.at = "garbage"]]
      BY <1>0, <2>4 DEF TypeOK
    <3>2. /\ Others(w) /\ Continues(w) /\ ops'[w].kind = "delete" /\ ops'[w].at = "garbage"
      BY <1>0, <2>0, <2>4, <3>1 DEF TypeOK, Others, Op, Continues
    <3>3. HeadOp(ops[w])'
      BY <2>1, <2>2, <2>4, <3>2 DEF HeadOp, BeforeRepo, Continues
    <3> QED
      BY <2>3, <3>2, <3>3, HeadsStep
  <2> QED
    BY <1>6, <2>3, <2>4, EndHeads DEF DelVirtualRows
<1> QED
  BY <1>1, <1>2, <1>3, <1>4, <1>5, <1>6 DEF Delete

\* A commit only moves a head on.
LEMMA OtherHeads ==
  ASSUME Inv, Live, Heads, crashes' = 0
  PROVE  /\ \A l \in Libs : Commit(l) => Heads'
         /\ \A i \in Ids : Collect(i) => Heads'
         /\ ~Crash
         /\ UNCHANGED vars => Heads'
<1> USE LifeAssumption
<1>1. ASSUME NEW l \in Libs, Commit(l) PROVE Heads'
  <2>1. /\ UNCHANGED <<repo, trash, ops, created, asked>> /\ head[l] # 0
        /\ l \in repo \/ Busy(l, {"delete"})
        /\ head' = [head EXCEPT ![l] = @ + 1]
    BY <1>1 DEF Commit, history, Inv, TypeOK
  <2>2. /\ asked \in [Libs -> Nat] /\ head \in [Ids -> Nat] /\ Libs \subseteq Ids
    BY DEF Inv, TypeOK, Ids
  <2>3. \A k \in Libs : head'[k] = IF k = l THEN head[k] + 1 ELSE head[k]
    BY <2>1, <2>2
  <2>4. ASSUME NEW k \in Libs
        PROVE  /\ trash'[k] # 0 => trash'[k] >= asked'[k] /\ k \in created'
               /\ k \notin created' => asked'[k] = 0
               /\ k \in created' /\ ~Busy(k, {"delete"})' =>
                    IF k \in repo' THEN head'[k] >= asked'[k] /\ trash'[k] = 0 ELSE head'[k] = 0
    <3>1. Busy(k, {"delete"})' <=> Busy(k, {"delete"})
      BY <2>1 DEF Busy
    <3>2. head[k] >= asked[k] => head'[k] >= asked[k]
      BY <2>2, <2>3
    <3>3. ~Busy(k, {"delete"}) /\ k \notin repo => head'[k] = head[k]
      BY <2>1, <2>3
    <3> QED
      BY <2>1, <3>1, <3>2, <3>3 DEF Heads
  <2>5. ASSUME NEW w \in Workers, ops[w] # Idle PROVE HeadOp(ops[w])'
    <3>1. HeadOp(ops[w]) /\ OpOK(ops[w])
      BY <2>5 DEF Heads, Inv, OpsOK
    <3>2. CASE ops[w].kind = "delete"
      <4>1. ops[w].lib \in Libs
        BY <3>1, <3>2 DEF OpOK, DeleteOK, Inv, TypeOK
      <4>2. /\ head[ops[w].lib] >= asked[ops[w].lib] => head'[ops[w].lib] >= asked[ops[w].lib]
            /\ head[ops[w].lib] = 0 => head'[ops[w].lib] = 0
        BY <2>1, <2>2, <2>3, <4>1
      <4> QED
        BY <2>1, <3>1, <3>2, <4>2 DEF HeadOp, BeforeRepo, BeforeBranch
    <3>3. CASE ops[w].kind # "delete"
      BY <2>1, <3>1, <3>3 DEF HeadOp
    <3> QED
      BY <3>2, <3>3
  <2> QED
    BY <2>1, <2>4, <2>5 DEF Heads
<1>2. ASSUME NEW i \in Ids, Collect(i) PROVE Heads'
  BY <1>2 DEF Collect, history, Heads, HeadOp, BeforeRepo, BeforeBranch, Busy
<1>3. ~Crash
  BY DEF Crash, Inv, TypeOK
<1>4. ASSUME UNCHANGED vars PROVE Heads'
  BY <1>4 DEF vars, tables, history, Heads, HeadOp, BeforeRepo, BeforeBranch, Busy
<1> QED
  BY <1>1, <1>2, <1>3, <1>4

\* The invariant holds at first.
LEMMA InitHeads == Init => HeadInv
<1> SUFFICES ASSUME Init PROVE HeadInv
  OBVIOUS
<1>1. Heads
  BY LifeAssumption DEF Init, Heads, Ids
<1> QED
  BY <1>1, InitRecords DEF HeadInv

\* Every step keeps the invariant.
LEMMA NextHeads == ASSUME ~Overlaps, HeadInv, [Next]_vars PROVE HeadInv'
<1>1. RecordInv /\ RecordInv'
  BY NextRecords DEF HeadInv
<1>2. Inv /\ Inv' /\ Live /\ Live'
  BY <1>1 DEF RecordInv
<1>3. ASSUME faults' = 0, crashes' = 0 PROVE Heads'
  <2>1. faults = 0 /\ crashes = 0
    BY <1>2, <1>3, FaultsStay, CrashesStay DEF Inv
  <2>2. Records /\ Heads
    BY <1>1, <2>1 DEF RecordInv, HeadInv
  <2> QED
    BY <1>2, <1>3, <2>2, StartHeads, CreateHeads, DeleteHeads, TrashHeads, OtherHeads DEF Next
<1> QED
  BY <1>1, <1>3 DEF HeadInv

\* A restored library has every commit that was acknowledged before its deletion was
\* asked for, though purges, restores and commits meet, as long as no statement fails,
\* nothing crashes, and no deletion is asked for while another deletion or a restore
\* of the library is under way.
THEOREM RestoresAreComplete ==
  ASSUME ~Overlaps PROVE Spec => []RestoresWhatWasDeleted
<1>1. Init => HeadInv
  BY InitHeads
<1>2. HeadInv /\ [Next]_vars => HeadInv'
  BY NextHeads
<1>3. HeadInv => RestoresWhatWasDeleted
  <2>1. HeadInv => created \subseteq Libs
    BY DEF HeadInv, RecordInv, Inv, TypeOK
  <2> QED
    BY <2>1 DEF HeadInv, Heads, RestoresWhatWasDeleted
<1> QED
  BY <1>1, <1>2, <1>3, PTL DEF Spec

----------------------------------------------------------------------------
\* LibraryOps: numbers

\* A set of numbers has a smallest one.
LEMMA Smallest ==
    ASSUME NEW S, S \subseteq Nat, S # {}
    PROVE  \E k \in S : \A y \in S : k <= y
<1>1. PICK k \in S : \A y \in S : ~(<<y, k>> \in OpToRel(<, Nat))
    BY WFMin, NatLessThanWellFounded
<1>2. \A y \in S : ~(y < k)
    BY <1>1 DEF OpToRel
<1> QED
    BY <1>2

\* The first of some numbers is one of them, and no other is smaller.
LEMMA FirstIs ==
    ASSUME NEW S, S \subseteq Nat, S # {}
    PROVE  First(S) \in S /\ \A y \in S : First(S) <= y
BY Smallest DEF First

----------------------------------------------------------------------------
\* Paths

\* The beginning of a path
LEMMA Cut ==
    ASSUME NEW S, NEW p \in Seq(S), NEW k \in 0..Len(p)
    PROVE  /\ SubSeq(p, 1, k) \in Seq(S) /\ Len(SubSeq(p, 1, k)) = k
           /\ \A i \in 1..k : SubSeq(p, 1, k)[i] = p[i]
<1>1. Len(p) \in Nat /\ k \in Int /\ \A i \in 1..k : p[i] \in S
    BY LenProperties, ElementOfSeq
<1> QED
    BY <1>1, SubSeqProperties

\* A path is a prefix when the other begins with it.
LEMMA Prefix ==
    ASSUME NEW S, NEW p \in Seq(S), NEW q \in Seq(S)
    PROVE  IsPrefix(p, q) <=> Len(p) <= Len(q) /\ \A i \in 1..Len(p) : q[i] = p[i]
<1>0. Len(p) \in Nat /\ Len(q) \in Nat
    BY LenProperties
<1>1. SubSeq(p, 1, Len(p)) = p
    BY SubSeqFull
<1> SUFFICES ASSUME Len(p) <= Len(q)
             PROVE  p = SubSeq(q, 1, Len(p)) <=> \A i \in 1..Len(p) : q[i] = p[i]
    BY <1>1 DEF IsPrefix
<1>2. Len(p) \in 0..Len(q)
    BY <1>0
<1>3. /\ SubSeq(q, 1, Len(p)) \in Seq(S) /\ Len(SubSeq(q, 1, Len(p))) = Len(p)
      /\ \A i \in 1..Len(p) : SubSeq(q, 1, Len(p))[i] = q[i]
    BY <1>2, Cut
<1>4. (\A i \in 1..Len(p) : q[i] = p[i]) => p = SubSeq(q, 1, Len(p))
    BY <1>3, SeqEqual
<1> QED
    BY <1>3, <1>4

\* Of two prefixes the shorter is one of the longer.
LEMMA PrefixesOf ==
    ASSUME NEW S, NEW p \in Seq(S), NEW q \in Seq(S), NEW r \in Seq(S)
    PROVE  /\ IsPrefix(p, p)
           /\ IsPrefix(p, q) /\ IsPrefix(q, r) => IsPrefix(p, r)
           /\ IsPrefix(p, r) /\ IsPrefix(q, r) /\ Len(p) <= Len(q) => IsPrefix(p, q)
           /\ IsPrefix(p, q) /\ Len(p) = Len(q) => p = q
<1>0. Len(p) \in Nat /\ Len(q) \in Nat /\ Len(r) \in Nat
    BY LenProperties
<1>1. IsPrefix(p, p)
    BY <1>0, Prefix
<1>2. ASSUME IsPrefix(p, q), IsPrefix(q, r) PROVE IsPrefix(p, r)
    <2>1. Len(p) <= Len(q) /\ \A i \in 1..Len(p) : q[i] = p[i]
        BY <1>2, Prefix
    <2>2. Len(q) <= Len(r) /\ \A i \in 1..Len(q) : r[i] = q[i]
        BY <1>2, Prefix
    <2>3. Len(p) <= Len(r) /\ \A i \in 1..Len(p) : r[i] = p[i]
        BY <1>0, <2>1, <2>2
    <2> QED
        BY <2>3, Prefix
<1>3. ASSUME IsPrefix(p, r), IsPrefix(q, r), Len(p) <= Len(q) PROVE IsPrefix(p, q)
    <2>1. \A i \in 1..Len(p) : r[i] = p[i]
        BY <1>3, Prefix
    <2>2. \A i \in 1..Len(q) : r[i] = q[i]
        BY <1>3, Prefix
    <2>3. \A i \in 1..Len(p) : q[i] = p[i]
        BY <1>0, <1>3, <2>1, <2>2
    <2> QED
        BY <1>3, <2>3, Prefix
<1>4. ASSUME IsPrefix(p, q), Len(p) = Len(q) PROVE p = q
    <2>1. \A i \in 1..Len(p) : q[i] = p[i]
        BY <1>4, Prefix
    <2> QED
        BY <1>4, <2>1, SeqEqual
<1> QED
    BY <1>1, <1>2, <1>3, <1>4

\* A path below another is that one and the rest of it.
LEMMA Below ==
    ASSUME NEW S, NEW p \in Seq(S), NEW q \in Seq(S), IsPrefix(p, q)
    PROVE  /\ SubSeq(q, Len(p) + 1, Len(q)) \in Seq(S)
           /\ Len(SubSeq(q, Len(p) + 1, Len(q))) = Len(q) - Len(p)
           /\ p \o SubSeq(q, Len(p) + 1, Len(q)) = q
<1>0. Len(p) \in Nat /\ Len(q) \in Nat /\ Len(p) <= Len(q)
    BY LenProperties, Prefix
<1>1. SubSeq(q, 1, Len(p)) = p
    BY SubSeqFull DEF IsPrefix
<1>2. SubSeq(q, 1, Len(p)) \o SubSeq(q, Len(p) + 1, Len(q)) = SubSeq(q, 1, Len(q))
    <2>1. 1 \in 1..Len(q) + 1 /\ Len(p) \in (1 - 1)..Len(q) /\ Len(q) \in Len(p)..Len(q)
        BY <1>0
    <2> QED
        BY <2>1, ConcatAdjacentSubSeq
<1>3. SubSeq(q, 1, Len(q)) = q
    BY SubSeqFull
<1>4. \A i \in (Len(p) + 1)..Len(q) : q[i] \in S
    BY <1>0, ElementOfSeq
<1>5. /\ SubSeq(q, Len(p) + 1, Len(q)) \in Seq(S)
      /\ Len(SubSeq(q, Len(p) + 1, Len(q)))
            = IF Len(p) + 1 <= Len(q) THEN Len(q) - (Len(p) + 1) + 1 ELSE 0
    BY <1>0, <1>4, SubSeqProperties
<1>6. Len(SubSeq(q, Len(p) + 1, Len(q))) = Len(q) - Len(p)
    <2> PICK m, k, n : m = Len(p) /\ k = Len(q) /\ n = Len(SubSeq(q, Len(p) + 1, Len(q)))
        OBVIOUS
    <2>1. m \in Nat /\ k \in Nat /\ m <= k /\ n = IF m + 1 <= k THEN k - (m + 1) + 1 ELSE 0
        BY <1>0, <1>5
    <2> HIDE <1>5
    <2>2. n = k - m
        BY <2>1
    <2> QED
        BY <2>2
<1> QED
    BY <1>1, <1>2, <1>3, <1>5, <1>6

\* A path and one below it
LEMMA Joined ==
    ASSUME NEW S, NEW p \in Seq(S), NEW q \in Seq(S)
    PROVE  /\ p \o q \in Seq(S) /\ Len(p \o q) = Len(p) + Len(q) /\ IsPrefix(p, p \o q)
           /\ SubSeq(p \o q, Len(p) + 1, Len(p \o q)) = q
           /\ \A k \in 0..Len(p) : SubSeq(p \o q, 1, k) = SubSeq(p, 1, k)
           /\ \A k \in Len(p)..(Len(p) + Len(q)) :
                 SubSeq(p \o q, 1, k) = p \o SubSeq(q, 1, k - Len(p))
<1>0. Len(p) \in Nat /\ Len(q) \in Nat
    BY LenProperties
<1>1. /\ p \o q \in Seq(S) /\ Len(p \o q) = Len(p) + Len(q)
      /\ \A i \in 1..Len(p) + Len(q) : (p \o q)[i] = IF i <= Len(p) THEN p[i] ELSE q[i - Len(p)]
    BY ConcatProperties
<1>2. IsPrefix(p, p \o q)
    <2>1. \A i \in 1..Len(p) : (p \o q)[i] = p[i]
        BY <1>0, <1>1
    <2>2. Len(p) <= Len(p \o q)
        BY <1>0, <1>1
    <2> QED
        BY <1>1, <2>1, <2>2, Prefix
<1>3. SubSeq(p \o q, Len(p) + 1, Len(p \o q)) = q
    <2>1. p \o SubSeq(p \o q, Len(p) + 1, Len(p \o q)) = p \o q
          /\ SubSeq(p \o q, Len(p) + 1, Len(p \o q)) \in Seq(S)
        BY <1>1, <1>2, Below
    <2> QED
        BY <2>1, ConcatSimplifications, Zenon
<1>4. ASSUME NEW k \in 0..Len(p) PROVE SubSeq(p \o q, 1, k) = SubSeq(p, 1, k)
    <2>1. k \in 0..Len(p \o q) /\ k \in Nat
        BY <1>0, <1>1
    <2>2. /\ SubSeq(p \o q, 1, k) \in Seq(S) /\ Len(SubSeq(p \o q, 1, k)) = k
          /\ \A i \in 1..k : SubSeq(p \o q, 1, k)[i] = (p \o q)[i]
        BY <1>1, <2>1, Cut
    <2>3. /\ SubSeq(p, 1, k) \in Seq(S) /\ Len(SubSeq(p, 1, k)) = k
          /\ \A i \in 1..k : SubSeq(p, 1, k)[i] = p[i]
        BY Cut
    <2>4. \A i \in 1..k : (p \o q)[i] = p[i]
        BY <1>0, <1>1
    <2> QED
        BY <2>2, <2>3, <2>4, SeqEqual
<1>5. ASSUME NEW k \in Len(p)..(Len(p) + Len(q))
      PROVE  SubSeq(p \o q, 1, k) = p \o SubSeq(q, 1, k - Len(p))
    <2>1. k \in 0..Len(p \o q) /\ k - Len(p) \in 0..Len(q) /\ k \in Nat
        BY <1>0, <1>1
    <2>2. /\ SubSeq(p \o q, 1, k) \in Seq(S) /\ Len(SubSeq(p \o q, 1, k)) = k
          /\ \A i \in 1..k : SubSeq(p \o q, 1, k)[i] = (p \o q)[i]
        BY <1>1, <2>1, Cut
    <2> DEFINE r == SubSeq(q, 1, k - Len(p))
    <2>3. /\ r \in Seq(S) /\ Len(r) = k - Len(p) /\ \A i \in 1..(k - Len(p)) : r[i] = q[i]
        BY <2>1, Cut
    <2> HIDE DEF r
    <2>4. /\ p \o r \in Seq(S) /\ Len(p \o r) = Len(p) + Len(r)
          /\ \A i \in 1..Len(p) + Len(r) : (p \o r)[i] = IF i <= Len(p) THEN p[i] ELSE r[i - Len(p)]
        BY <2>3, ConcatProperties
    <2>5. Len(p \o r) = k
        BY <1>0, <2>1, <2>3, <2>4
    <2>6. ASSUME NEW i \in 1..k PROVE (p \o r)[i] = (p \o q)[i]
        <3>1. CASE i <= Len(p)
            BY <1>0, <1>1, <2>1, <2>3, <2>4, <3>1
        <3>2. CASE ~(i <= Len(p))
            <4>1. i - Len(p) \in 1..(k - Len(p))
                BY <1>0, <2>1, <3>2
            <4>2. (p \o r)[i] = r[i - Len(p)]
                BY <1>0, <2>1, <2>3, <2>4, <3>2
            <4>3. (p \o q)[i] = q[i - Len(p)]
                BY <1>0, <1>1, <2>1, <3>2
            <4> QED
                BY <2>3, <4>1, <4>2, <4>3
        <3> QED
            BY <3>1, <3>2
    <2>7. SubSeq(p \o q, 1, k) = p \o r
        BY <2>2, <2>4, <2>5, <2>6, SeqEqual
    <2> QED
        BY <2>7 DEF r
<1> QED
    BY <1>1, <1>2, <1>3, <1>4, <1>5

\* The path of an entry of a directory
LEMMA ChildIs ==
    ASSUME NEW S, NEW p \in Seq(S), NEW n \in S
    PROVE  /\ Child(p, n) \in Seq(S) \ {<< >>} /\ Len(Child(p, n)) = Len(p) + 1
           /\ Last(Child(p, n)) = n /\ Front(Child(p, n)) = p
           /\ \A k \in 0..Len(p) : SubSeq(Child(p, n), 1, k) = SubSeq(p, 1, k)
           /\ IsPrefix(p, Child(p, n))
<1>0. Len(p) \in Nat
    BY LenProperties
<1>1. /\ Child(p, n) \in Seq(S) /\ Child(p, n) # << >> /\ Len(Child(p, n)) = Len(p) + 1
      /\ \A i \in 1..Len(p) : Child(p, n)[i] = p[i]
      /\ Child(p, n)[Len(p) + 1] = n
    BY AppendProperties DEF Child
<1>2. Last(Child(p, n)) = n
    BY <1>1 DEF Last
<1>3. ASSUME NEW k \in 0..Len(p) PROVE SubSeq(Child(p, n), 1, k) = SubSeq(p, 1, k)
    <2>1. k \in 0..Len(Child(p, n)) /\ k \in Nat
        BY <1>0, <1>1
    <2>2. /\ SubSeq(Child(p, n), 1, k) \in Seq(S) /\ Len(SubSeq(Child(p, n), 1, k)) = k
          /\ \A i \in 1..k : SubSeq(Child(p, n), 1, k)[i] = Child(p, n)[i]
        BY <1>1, <2>1, Cut
    <2>3. /\ SubSeq(p, 1, k) \in Seq(S) /\ Len(SubSeq(p, 1, k)) = k
          /\ \A i \in 1..k : SubSeq(p, 1, k)[i] = p[i]
        BY Cut
    <2>4. \A i \in 1..k : Child(p, n)[i] = p[i]
        BY <1>0, <1>1
    <2> QED
        BY <2>2, <2>3, <2>4, SeqEqual
<1>4. Front(Child(p, n)) = p
    <2>1. Len(Child(p, n)) - 1 = Len(p) /\ Len(p) \in 0..Len(p)
        BY <1>0, <1>1
    <2>2. SubSeq(Child(p, n), 1, Len(p)) = SubSeq(p, 1, Len(p))
        BY <1>3, <2>1
    <2> QED
        BY <2>1, <2>2, SubSeqFull DEF Front
<1>5. IsPrefix(p, Child(p, n))
    BY <1>0, <1>1, Prefix
<1> QED
    BY <1>1, <1>2, <1>3, <1>4, <1>5

\* A path that is not the root's has a directory and a name.
LEMMA Parent ==
    ASSUME NEW S, NEW p \in Seq(S) \ {<< >>}
    PROVE  /\ Front(p) \in Seq(S) /\ Len(Front(p)) = Len(p) - 1 /\ Len(p) \in Nat \ {0}
           /\ Last(p) \in S /\ p = Child(Front(p), Last(p))
<1>0. Len(p) \in Nat \ {0}
    BY EmptySeq
<1>1. /\ Front(p) \in Seq(S) /\ Len(Front(p)) = Len(p) - 1
      /\ \A i \in 1..(Len(p) - 1) : Front(p)[i] = p[i]
    <2>1. Len(p) - 1 \in 0..Len(p)
        BY <1>0
    <2> QED
        BY <2>1, Cut DEF Front
<1>2. Last(p) \in S
    BY <1>0, ElementOfSeq DEF Last
<1>3. /\ Child(Front(p), Last(p)) \in Seq(S)
      /\ Len(Child(Front(p), Last(p))) = Len(Front(p)) + 1
      /\ \A i \in 1..Len(Front(p)) : Child(Front(p), Last(p))[i] = Front(p)[i]
      /\ Child(Front(p), Last(p))[Len(Front(p)) + 1] = Last(p)
    BY <1>1, <1>2, AppendProperties DEF Child
<1>4. Len(Front(p)) + 1 = Len(p) /\ \A i \in 1..Len(p) : i \in 1..Len(Front(p)) \/ i = Len(p)
    BY <1>0, <1>1
<1>5. ASSUME NEW i \in 1..Len(p) PROVE Child(Front(p), Last(p))[i] = p[i]
    <2>1. CASE i = Len(p)
        BY <1>3, <1>4, <2>1 DEF Last
    <2>2. CASE i \in 1..Len(Front(p))
        BY <1>1, <1>3, <2>2
    <2> QED
        BY <1>4, <2>1, <2>2
<1>6. p = Child(Front(p), Last(p))
    BY <1>3, <1>4, <1>5, SeqEqual
<1> QED
    BY <1>0, <1>1, <1>2, <1>6

\* The paths above another are its beginnings.
LEMMA Ancestors ==
    ASSUME NEW S, NEW p \in Seq(S)
    PROVE  /\ \A q \in Seq(S) : IsPrefix(q, p) /\ q # p =>
                 Len(q) \in 0..(Len(p) - 1) /\ q = SubSeq(p, 1, Len(q))
           /\ \A k \in 0..(Len(p) - 1) : LET q == SubSeq(p, 1, k) IN
                 q \in Seq(S) /\ Len(q) = k /\ IsPrefix(q, p) /\ q # p
<1>0. Len(p) \in Nat
    BY LenProperties
<1>1. ASSUME NEW q \in Seq(S), IsPrefix(q, p), q # p
      PROVE  Len(q) \in 0..(Len(p) - 1) /\ q = SubSeq(p, 1, Len(q))
    <2>1. Len(q) \in Nat /\ Len(q) <= Len(p) /\ Len(q) # Len(p)
        BY <1>1, Prefix, PrefixesOf, LenProperties
    <2>2. SubSeq(q, 1, Len(q)) = q
        BY SubSeqFull
    <2> QED
        BY <1>0, <1>1, <2>1, <2>2 DEF IsPrefix
<1>2. ASSUME NEW k \in 0..(Len(p) - 1)
      PROVE  LET q == SubSeq(p, 1, k) IN
                 q \in Seq(S) /\ Len(q) = k /\ IsPrefix(q, p) /\ q # p
    <2> PICK q : q = SubSeq(p, 1, k)
        OBVIOUS
    <2>1. k \in 0..Len(p) /\ k < Len(p) /\ k \in Nat
        BY <1>0
    <2>2. q \in Seq(S) /\ Len(q) = k /\ \A i \in 1..k : q[i] = p[i]
        BY <2>1, Cut
    <2>3. IsPrefix(q, p)
        <3>1. Len(q) <= Len(p) /\ \A i \in 1..Len(q) : p[i] = q[i]
            BY <1>0, <2>1, <2>2
        <3> QED
            BY <2>2, <3>1, Prefix
    <2> QED
        BY <2>1, <2>2, <2>3
<1> QED
    BY <1>1, <1>2

----------------------------------------------------------------------------
\* Trees and nodes

EntryIds == FileIds \cup {DirId}
Paths == Seq(Names)

\* The parts of a tree, with their own root
Nodes == {node \in SUBSET [path : Paths, id : EntryIds] :
            \A e \in node : /\ e.path # << >> => Named(Last(e.path), e.id)
                            /\ \A k \in 0..(Len(e.path) - 1) : Entry(SubSeq(e.path, 1, k), DirId) \in node}

\* A node that a name may have
Fits(name, node) == \A e \in node : e.path = << >> => Named(name, e.id)

\* The parts of an entry
LEMMA EntryIs == ASSUME NEW p, NEW x PROVE Entry(p, x).path = p /\ Entry(p, x).id = x
BY DEF Entry

\* An entry is its parts.
LEMMA EntryOf ==
    /\ \A e \in [path : Paths, id : EntryIds] : e.path \in Paths /\ e.id \in EntryIds /\ e = Entry(e.path, e.id)
    /\ \A p \in Paths, x \in EntryIds : Entry(p, x) \in [path : Paths, id : EntryIds]
BY DEF Entry

\* An entry of a tree, and the directories above it
LEMMA TreeIs ==
    ASSUME NEW t
    PROVE  t \in Trees <=>
              /\ t \subseteq Entries
              /\ \A e \in t : \A q \in Paths \ {<< >>} :
                    IsPrefix(q, e.path) /\ q # e.path => Entry(q, DirId) \in t
<1>1. ASSUME t \subseteq Entries, NEW e \in t
      PROVE  (\A k \in 1..(Len(e.path) - 1) : Entry(SubSeq(e.path, 1, k), DirId) \in t)
             <=> \A q \in Paths \ {<< >>} :
                    IsPrefix(q, e.path) /\ q # e.path => Entry(q, DirId) \in t
    <2> PICK p : p = e.path
        OBVIOUS
    <2>1. p \in Paths /\ Len(p) \in Nat
        BY <1>1, LenProperties DEF Entries, Paths
    <2>2. ASSUME \A k \in 1..(Len(p) - 1) : Entry(SubSeq(p, 1, k), DirId) \in t,
                 NEW q \in Paths \ {<< >>}, IsPrefix(q, p), q # p
          PROVE  Entry(q, DirId) \in t
        <3>1. Len(q) \in 0..(Len(p) - 1) /\ q = SubSeq(p, 1, Len(q))
            BY <2>1, <2>2, Ancestors DEF Paths
        <3>2. Len(q) # 0
            BY EmptySeq DEF Paths
        <3>3. Len(q) \in 1..(Len(p) - 1)
            BY <2>1, <3>1, <3>2
        <3> QED
            BY <2>2, <3>1, <3>3
    <2>3. ASSUME \A q \in Paths \ {<< >>} : IsPrefix(q, p) /\ q # p => Entry(q, DirId) \in t,
                 NEW k \in 1..(Len(p) - 1)
          PROVE  Entry(SubSeq(p, 1, k), DirId) \in t
        <3> PICK q : q = SubSeq(p, 1, k)
            OBVIOUS
        <3>1. k \in 0..(Len(p) - 1) /\ k # 0
            BY <2>1
        <3>2. q \in Seq(Names) /\ Len(q) = k /\ IsPrefix(q, p) /\ q # p
            BY <2>1, <3>1, Ancestors DEF Paths
        <3>3. q # << >>
            BY <3>1, <3>2
        <3> QED
            BY <2>3, <3>2, <3>3 DEF Paths
    <2> QED
        BY <2>2, <2>3
<1>2. t \in Trees <=> /\ t \subseteq Entries
                      /\ \A e \in t : \A k \in 1..(Len(e.path) - 1) : Entry(SubSeq(e.path, 1, k), DirId) \in t
    BY DEF Trees
<1> QED
    BY <1>1, <1>2

\* An entry has a path, and a name of its kind.
LEMMA EntriesAre ==
    ASSUME NEW e
    PROVE  e \in Entries <=> /\ e \in [path : Paths, id : EntryIds] /\ e.path # << >>
                             /\ Named(Last(e.path), e.id)
BY DEF Entries, Paths, EntryIds

\* An entry of a node, and the directories above it
LEMMA NodeIs ==
    ASSUME NEW node
    PROVE  node \in Nodes <=>
              /\ node \subseteq [path : Paths, id : EntryIds]
              /\ \A e \in node :
                    /\ e.path # << >> => Named(Last(e.path), e.id)
                    /\ \A q \in Paths : IsPrefix(q, e.path) /\ q # e.path => Entry(q, DirId) \in node
<1>1. ASSUME node \subseteq [path : Paths, id : EntryIds], NEW e \in node
      PROVE  (\A k \in 0..(Len(e.path) - 1) : Entry(SubSeq(e.path, 1, k), DirId) \in node)
             <=> \A q \in Paths : IsPrefix(q, e.path) /\ q # e.path => Entry(q, DirId) \in node
    <2> PICK p : p = e.path
        OBVIOUS
    <2>1. p \in Seq(Names)
        BY <1>1 DEF Paths
    <2>2. /\ \A q \in Seq(Names) : IsPrefix(q, p) /\ q # p =>
                 Len(q) \in 0..(Len(p) - 1) /\ q = SubSeq(p, 1, Len(q))
          /\ \A k \in 0..(Len(p) - 1) : LET q == SubSeq(p, 1, k) IN
                 q \in Seq(Names) /\ Len(q) = k /\ IsPrefix(q, p) /\ q # p
        BY <2>1, Ancestors
    <2> QED
        BY <2>2 DEF Paths
<1>2. node \in Nodes <=>
         /\ node \subseteq [path : Paths, id : EntryIds]
         /\ \A e \in node :
               /\ e.path # << >> => Named(Last(e.path), e.id)
               /\ \A k \in 0..(Len(e.path) - 1) : Entry(SubSeq(e.path, 1, k), DirId) \in node
    BY DEF Nodes
<1> QED
    BY <1>1, <1>2

\* The root is not below a path that is not it.
LEMMA RootIs ==
    ASSUME NEW q \in Paths
    PROVE  /\ << >> \in Paths /\ IsPrefix(<< >>, q)
           /\ IsPrefix(q, << >>) => q = << >>
           /\ q \o << >> = q /\ << >> \o q = q
<1>1. << >> \in Seq(Names) /\ Len(<< >>) = 0
    BY EmptySeq
<1>2. q \in Seq(Names) /\ Len(q) \in Nat
    BY LenProperties DEF Paths
<1> PICK root : root = << >>
    OBVIOUS
<1>3. IsPrefix(root, q)
    <2>1. root \in Seq(Names) /\ Len(root) = 0
        BY <1>1
    <2>2. Len(root) <= Len(q) /\ \A i \in 1..Len(root) : q[i] = root[i]
        BY <1>2, <2>1
    <2> QED
        BY <1>2, <2>1, <2>2, Prefix
<1>4. IsPrefix(q, root) => q = root
    <2>1. root \in Seq(Names) /\ Len(root) = 0
        BY <1>1
    <2>2. IsPrefix(q, root) => Len(q) <= Len(root)
        BY <1>2, <2>1, Prefix
    <2>3. Len(q) = 0 => q = << >>
        BY <1>2, EmptySeq
    <2> QED
        BY <1>2, <2>1, <2>2, <2>3
<1>5. q \o << >> = q /\ << >> \o q = q
    BY <1>2, ConcatEmptySeq
<1> QED
    BY <1>1, <1>3, <1>4, <1>5 DEF Paths

\* Paths below a path
LEMMA PathJoin ==
    ASSUME NEW p \in Paths, NEW q \in Paths
    PROVE  /\ p \o q \in Paths /\ IsPrefix(p, p \o q)
           /\ p \o q = p => q = << >>
           /\ p \o q = << >> => p = << >>
           /\ q # << >> => Last(p \o q) = Last(q)
           /\ \A r \in Paths : p \o q = p \o r => q = r
           /\ \A r \in Paths : IsPrefix(p \o q, p \o r) <=> IsPrefix(q, r)
<1>0. p \in Seq(Names) /\ q \in Seq(Names) /\ Len(p) \in Nat /\ Len(q) \in Nat
    BY LenProperties DEF Paths
<1>1. /\ p \o q \in Seq(Names) /\ Len(p \o q) = Len(p) + Len(q) /\ IsPrefix(p, p \o q)
    BY <1>0, Joined
<1>2. p \o q = p => q = << >>
    BY <1>0, <1>1, EmptySeq
<1>3. p \o q = << >> => p = << >>
    <2>1. p \o q = << >> => Len(p \o q) = 0
        BY <1>1, EmptySeq
    <2> QED
        BY <1>0, <1>1, <2>1, EmptySeq
<1>4. q # << >> => Last(p \o q) = Last(q)
    <2> SUFFICES ASSUME q # << >> PROVE Last(p \o q) = Last(q)
        OBVIOUS
    <2> PICK m, k : m = Len(p) /\ k = Len(q)
        OBVIOUS
    <2>1. m \in Nat /\ k \in Nat \ {0}
        BY <1>0, EmptySeq
    <2>2. (p \o q)[m + k] = IF m + k <= m THEN p[m + k] ELSE q[m + k - m]
        BY <1>0, <2>1, ConcatProperties
    <2>3. m + k - m = k /\ ~(m + k <= m)
        BY <2>1
    <2> QED
        BY <1>1, <2>2, <2>3 DEF Last
<1>5. ASSUME NEW r \in Paths, p \o q = p \o r PROVE q = r
    BY <1>0, <1>5, ConcatSimplifications, Zenon DEF Paths
<1>6. ASSUME NEW r \in Paths PROVE IsPrefix(p \o q, p \o r) <=> IsPrefix(q, r)
    <2>0. r \in Seq(Names) /\ Len(r) \in Nat
        BY LenProperties DEF Paths
    <2>1. /\ p \o r \in Seq(Names) /\ Len(p \o r) = Len(p) + Len(r)
          /\ \A i \in 1..(Len(p) + Len(r)) : (p \o r)[i] = IF i <= Len(p) THEN p[i] ELSE r[i - Len(p)]
        BY <1>0, <2>0, ConcatProperties
    <2>2. \A i \in 1..(Len(p) + Len(q)) : (p \o q)[i] = IF i <= Len(p) THEN p[i] ELSE q[i - Len(p)]
        BY <1>0, ConcatProperties
    <2>3. IsPrefix(p \o q, p \o r) <=> /\ Len(p) + Len(q) <= Len(p) + Len(r)
                                       /\ \A i \in 1..(Len(p) + Len(q)) : (p \o r)[i] = (p \o q)[i]
        <3> PICK a, b : a = p \o q /\ b = p \o r
            OBVIOUS
        <3>1. a \in Seq(Names) /\ b \in Seq(Names) /\ Len(a) = Len(p) + Len(q) /\ Len(b) = Len(p) + Len(r)
            BY <1>1, <2>1
        <3>2. IsPrefix(a, b) <=> Len(a) <= Len(b) /\ \A i \in 1..Len(a) : b[i] = a[i]
            BY <3>1, Prefix
        <3> QED
            BY <3>1, <3>2
    <2>4. IsPrefix(q, r) <=> Len(q) <= Len(r) /\ \A i \in 1..Len(q) : r[i] = q[i]
        BY <1>0, <2>0, Prefix
    <2> PICK m, k, n : m = Len(p) /\ k = Len(q) /\ n = Len(r)
        OBVIOUS
    <2>5. m \in Nat /\ k \in Nat /\ n \in Nat
        BY <1>0, <2>0
    <2>6. ASSUME k <= n PROVE
            (\A i \in 1..(m + k) : (p \o r)[i] = (p \o q)[i]) <=> \A i \in 1..k : r[i] = q[i]
        <3>1. ASSUME NEW i \in 1..(m + k)
              PROVE  (p \o r)[i] = (p \o q)[i] <=> (i <= m \/ r[i - m] = q[i - m])
            BY <2>1, <2>2, <2>5, <2>6
        <3>2. (\A i \in 1..(m + k) : i <= m \/ r[i - m] = q[i - m]) => \A i \in 1..k : r[i] = q[i]
            <4> SUFFICES ASSUME \A i \in 1..(m + k) : i <= m \/ r[i - m] = q[i - m], NEW i \in 1..k
                         PROVE  r[i] = q[i]
                OBVIOUS
            <4>1. i + m \in 1..(m + k) /\ ~(i + m <= m) /\ i + m - m = i
                BY <2>5
            <4> QED
                BY <4>1
        <3>3. \A i \in 1..(m + k) : i <= m \/ i - m \in 1..k
            BY <2>5
        <3> QED
            BY <3>1, <3>2, <3>3
    <2> QED
        BY <2>3, <2>4, <2>5, <2>6
<1> QED
    BY <1>1, <1>2, <1>3, <1>4, <1>5, <1>6 DEF Paths

\* The rest of a path below another
LEMMA Rest ==
    ASSUME NEW p \in Paths, NEW q \in Paths, IsPrefix(p, q)
    PROVE  /\ SubSeq(q, Len(p) + 1, Len(q)) \in Paths
           /\ q = p \o SubSeq(q, Len(p) + 1, Len(q))
BY Below DEF Paths

\* Of two paths above a third one is above the other.
LEMMA Comparable ==
    ASSUME NEW p \in Paths, NEW q \in Paths
    PROVE  /\ IsPrefix(p, p)
           /\ IsPrefix(p, q) /\ IsPrefix(q, p) => p = q
           /\ \A r \in Paths : IsPrefix(p, q) /\ IsPrefix(q, r) => IsPrefix(p, r)
           /\ \A r \in Paths : IsPrefix(p, r) /\ IsPrefix(q, r) => IsPrefix(p, q) \/ IsPrefix(q, p)
<1>0. p \in Seq(Names) /\ q \in Seq(Names) /\ Len(p) \in Nat /\ Len(q) \in Nat
    BY LenProperties DEF Paths
<1>1. IsPrefix(p, p) /\ (IsPrefix(p, q) /\ Len(p) = Len(q) => p = q)
    BY <1>0, PrefixesOf
<1>2. IsPrefix(p, q) => Len(p) <= Len(q)
    BY <1>0, Prefix
<1>3. IsPrefix(q, p) => Len(q) <= Len(p)
    BY <1>0, Prefix
<1>4. \A r \in Seq(Names) : /\ IsPrefix(p, q) /\ IsPrefix(q, r) => IsPrefix(p, r)
                            /\ IsPrefix(p, r) /\ IsPrefix(q, r) /\ Len(p) <= Len(q) => IsPrefix(p, q)
    BY <1>0, PrefixesOf
<1>5. \A r \in Seq(Names) :
        IsPrefix(p, r) /\ IsPrefix(q, r) /\ Len(q) <= Len(p) => IsPrefix(q, p)
    BY <1>0, PrefixesOf
<1> QED
    BY <1>0, <1>1, <1>2, <1>3, <1>4, <1>5 DEF Paths

\* Children of a directory
LEMMA Children ==
    ASSUME NEW dir \in Paths, NEW n \in Names
    PROVE  /\ Child(dir, n) \in Paths /\ Child(dir, n) # << >> /\ IsPrefix(dir, Child(dir, n))
           /\ Last(Child(dir, n)) = n /\ Front(Child(dir, n)) = dir
           /\ ~IsPrefix(Child(dir, n), dir)
           /\ \A q \in Paths : IsPrefix(q, Child(dir, n)) /\ q # Child(dir, n) => IsPrefix(q, dir)
           /\ \A e \in Paths, m \in Names : Child(dir, n) = Child(e, m) => dir = e /\ n = m
<1>0. dir \in Seq(Names) /\ Len(dir) \in Nat
    BY LenProperties DEF Paths
<1>1. /\ Child(dir, n) \in Seq(Names) \ {<< >>} /\ Len(Child(dir, n)) = Len(dir) + 1
      /\ Last(Child(dir, n)) = n /\ Front(Child(dir, n)) = dir
      /\ \A k \in 0..Len(dir) : SubSeq(Child(dir, n), 1, k) = SubSeq(dir, 1, k)
      /\ IsPrefix(dir, Child(dir, n))
    BY <1>0, ChildIs
<1>2. ~IsPrefix(Child(dir, n), dir)
    <2>1. IsPrefix(Child(dir, n), dir) => Len(Child(dir, n)) <= Len(dir)
        BY <1>0, <1>1, Prefix
    <2> QED
        BY <1>0, <1>1, <2>1
<1>3. ASSUME NEW q \in Paths, IsPrefix(q, Child(dir, n)), q # Child(dir, n)
      PROVE  IsPrefix(q, dir)
    <2> PICK c : c = Child(dir, n)
        OBVIOUS
    <2>1. q \in Seq(Names) /\ Len(q) \in 0..(Len(c) - 1) /\ q = SubSeq(c, 1, Len(q))
        BY <1>1, <1>3, Ancestors DEF Paths
    <2>2. Len(q) \in 0..Len(dir)
        BY <1>0, <1>1, <2>1
    <2>3. q = SubSeq(dir, 1, Len(q))
        BY <1>1, <2>1, <2>2
    <2>4. \A i \in 1..Len(q) : SubSeq(dir, 1, Len(q))[i] = dir[i]
        BY <1>0, <2>2, Cut
    <2>5. Len(q) <= Len(dir) /\ \A i \in 1..Len(q) : dir[i] = q[i]
        BY <2>2, <2>3, <2>4, <1>0
    <2> QED
        BY <1>0, <2>1, <2>5, Prefix
<1>4. ASSUME NEW e \in Paths, NEW m \in Names, Child(dir, n) = Child(e, m)
      PROVE  dir = e /\ n = m
    <2>1. Last(Child(e, m)) = m /\ Front(Child(e, m)) = e
        BY ChildIs DEF Paths
    <2> QED
        BY <1>1, <1>4, <2>1
<1> QED
    BY <1>1, <1>2, <1>3, <1>4 DEF Paths

\* The entries of a node are those below its path.
LEMMA NodeHas ==
    ASSUME NEW t \in Trees, NEW p \in Paths, p # << >>
    PROVE  /\ NodeAt(t, p) \subseteq [path : Paths, id : EntryIds]
           /\ \A r \in Paths : \A x : Entry(r, x) \in NodeAt(t, p) <=> Entry(p \o r, x) \in t
<1>0. t \subseteq [path : Paths, id : EntryIds]
    BY TreeIs, EntriesAre
<1>1. NodeAt(t, p) = {Entry(SubSeq(e.path, Len(p) + 1, Len(e.path)), e.id) :
                        e \in {x \in t : IsPrefix(p, x.path)}}
    BY DEF NodeAt
<1>2. ASSUME NEW e \in t, IsPrefix(p, e.path)
      PROVE  /\ SubSeq(e.path, Len(p) + 1, Len(e.path)) \in Paths
             /\ e.path = p \o SubSeq(e.path, Len(p) + 1, Len(e.path))
             /\ e.path \in Paths /\ e.id \in EntryIds /\ e = Entry(e.path, e.id)
    <2>1. e.path \in Paths /\ e.id \in EntryIds /\ e = Entry(e.path, e.id)
        BY <1>0, <1>2, EntryOf
    <2> QED
        BY <1>2, <2>1, Rest
<1>3. NodeAt(t, p) \subseteq [path : Paths, id : EntryIds]
    BY <1>1, <1>2, EntryOf
<1>4. ASSUME NEW r \in Paths, NEW x, Entry(r, x) \in NodeAt(t, p) PROVE Entry(p \o r, x) \in t
    <2>1. PICK e \in t : /\ IsPrefix(p, e.path)
                         /\ Entry(r, x) = Entry(SubSeq(e.path, Len(p) + 1, Len(e.path)), e.id)
        BY <1>1, <1>4
    <2> PICK q : q = SubSeq(e.path, Len(p) + 1, Len(e.path))
        OBVIOUS
    <2>2. r = q /\ x = e.id
        <3> PICK y : y = e.id
            OBVIOUS
        <3>1. Entry(r, x) = Entry(q, y)
            BY <2>1
        <3>2. Entry(r, x).path = r /\ Entry(r, x).id = x /\ Entry(q, y).path = q /\ Entry(q, y).id = y
            BY EntryIs
        <3> QED
            BY <3>1, <3>2
    <2> QED
        BY <1>2, <2>1, <2>2
<1>5. ASSUME NEW r \in Paths, NEW x, Entry(p \o r, x) \in t PROVE Entry(r, x) \in NodeAt(t, p)
    <2> PICK e : e = Entry(p \o r, x)
        OBVIOUS
    <2>0. e.path = p \o r /\ e.id = x /\ IsPrefix(p, p \o r)
        BY EntryIs, PathJoin
    <2>1. e \in t /\ e.path = p \o r /\ e.id = x /\ IsPrefix(p, e.path)
        BY <1>5, <2>0
    <2>2. /\ SubSeq(e.path, Len(p) + 1, Len(e.path)) \in Paths
          /\ e.path = p \o SubSeq(e.path, Len(p) + 1, Len(e.path))
        BY <1>2, <2>1
    <2>3. r = SubSeq(e.path, Len(p) + 1, Len(e.path))
        BY <2>1, <2>2, PathJoin
    <2> QED
        BY <1>1, <2>1, <2>3
<1> QED
    BY <1>3, <1>4, <1>5

\* What is below a path of a tree is a node, and its files are those of the tree below that path.
LEMMA NodeOfTree ==
    ASSUME NEW t \in Trees, NEW p \in Paths, p # << >>
    PROVE  /\ NodeAt(t, p) \in Nodes /\ Fits(Last(p), NodeAt(t, p))
           /\ FilesOf(NodeAt(t, p)) \subseteq FilesOf(t)
           /\ \A e \in t : IsPrefix(p, e.path) /\ e.id # DirId => e.id \in FilesOf(NodeAt(t, p))
<1> PICK node : node = NodeAt(t, p)
    OBVIOUS
<1>1. /\ node \subseteq [path : Paths, id : EntryIds]
      /\ \A r \in Paths : \A x : Entry(r, x) \in node <=> Entry(p \o r, x) \in t
    BY NodeHas
<1>2. /\ t \subseteq [path : Paths, id : EntryIds]
      /\ \A e \in t : e.path # << >> /\ Named(Last(e.path), e.id)
      /\ \A e \in t : \A q \in Paths \ {<< >>} :
            IsPrefix(q, e.path) /\ q # e.path => Entry(q, DirId) \in t
    BY TreeIs, EntriesAre
<1>3. ASSUME NEW e \in node
      PROVE  /\ e.path \in Paths /\ e.id \in EntryIds /\ Entry(p \o e.path, e.id) \in t
             /\ Named(Last(p \o e.path), e.id)
    <2>1. e.path \in Paths /\ e.id \in EntryIds /\ e = Entry(e.path, e.id)
        BY <1>1, EntryOf
    <2>2. Entry(p \o e.path, e.id) \in t
        BY <1>1, <2>1
    <2> QED
        BY <1>2, <2>1, <2>2, EntryIs
<1>4. ASSUME NEW e \in node, e.path # << >> PROVE Named(Last(e.path), e.id)
    BY <1>3, <1>4, PathJoin
<1>5. ASSUME NEW e \in node, e.path = << >> PROVE Named(Last(p), e.id)
    BY <1>3, <1>5, RootIs
<1>6. ASSUME NEW e \in node, NEW q \in Paths, IsPrefix(q, e.path), q # e.path
      PROVE  Entry(q, DirId) \in node
    <2> PICK f : f = Entry(p \o e.path, e.id)
        OBVIOUS
    <2>1. f \in t /\ f.path = p \o e.path
        BY <1>3, EntryIs
    <2>2. p \o q \in Paths /\ p \o q # << >> /\ IsPrefix(p \o q, f.path) /\ p \o q # f.path
        BY <1>3, <1>6, <2>1, PathJoin
    <2>3. Entry(p \o q, DirId) \in t
        BY <1>2, <2>1, <2>2
    <2> QED
        BY <1>1, <2>3
<1>7. node \in Nodes /\ Fits(Last(p), node)
    BY <1>1, <1>4, <1>5, <1>6, NodeIs DEF Fits
<1>8. ASSUME NEW x \in FilesOf(node) PROVE x \in FilesOf(t)
    <2>1. PICK e \in node : x = e.id /\ x # DirId
        BY DEF FilesOf
    <2>2. Entry(p \o e.path, e.id).id = x
        BY <2>1, EntryIs
    <2> QED
        BY <1>3, <2>1, <2>2 DEF FilesOf
<1>9. ASSUME NEW e \in t, IsPrefix(p, e.path), e.id # DirId PROVE e.id \in FilesOf(node)
    <2>1. e.path \in Paths /\ e = Entry(e.path, e.id)
        BY <1>2, EntryOf
    <2>2. PICK r \in Paths : e.path = p \o r
        BY <1>9, <2>1, Rest
    <2>3. Entry(r, e.id) \in node /\ Entry(r, e.id).id = e.id
        BY <1>1, <2>1, <2>2, EntryIs
    <2> QED
        BY <1>9, <2>3 DEF FilesOf
<1> QED
    BY <1>7, <1>8, <1>9

\* A directory of a tree
LEMMA DirIs ==
    ASSUME NEW t \in Trees, NEW p \in Paths, HasDir(t, p)
    PROVE  /\ \A q \in Paths : IsPrefix(q, p) => HasDir(t, q)
           /\ p # << >> => Entry(p, DirId) \in t /\ Named(Last(p), DirId)
<1>1. ASSUME p # << >> PROVE Entry(p, DirId) \in t /\ Named(Last(p), DirId)
    <2>1. Entry(p, DirId) \in t
        BY <1>1 DEF HasDir
    <2> QED
        BY <2>1, TreeIs, EntriesAre, EntryIs
<1>2. ASSUME NEW q \in Paths, IsPrefix(q, p) PROVE HasDir(t, q)
    <2>1. CASE q = << >> \/ q = p
        BY <2>1 DEF HasDir
    <2>2. CASE q # << >> /\ q # p
        <3>1. p # << >>
            BY <1>2, <2>2, RootIs
        <3>2. Entry(p, DirId) \in t /\ Entry(p, DirId).path = p
            BY <1>1, <3>1, EntryIs
        <3> QED
            BY <1>2, <2>2, <3>2, TreeIs DEF HasDir
    <2> QED
        BY <2>1, <2>2
<1> QED
    BY <1>1, <1>2

\* A node with a fitting name, added to a directory
LEMMA GraftIs ==
    ASSUME NEW t \in Trees, NEW dir \in Paths, HasDir(t, dir), NEW m \in Names,
           NEW node \in Nodes, Fits(m, node)
    PROVE  LET u == Graft(t, Child(dir, m), node) IN
           /\ u \in Trees /\ t \subseteq u
           /\ \A e \in node : Entry(Child(dir, m) \o e.path, e.id) \in u
<1> PICK u, c : u = Graft(t, Child(dir, m), node) /\ c = Child(dir, m)
    OBVIOUS
<1>0. /\ c \in Paths /\ c # << >> /\ Last(c) = m
      /\ \A q \in Paths : IsPrefix(q, c) /\ q # c => IsPrefix(q, dir)
    BY Children
<1>1. u = t \cup {Entry(c \o e.path, e.id) : e \in node}
    BY DEF Graft
<1>2. /\ node \subseteq [path : Paths, id : EntryIds]
      /\ \A e \in node :
            /\ e.path # << >> => Named(Last(e.path), e.id)
            /\ \A q \in Paths : IsPrefix(q, e.path) /\ q # e.path => Entry(q, DirId) \in node
    BY NodeIs
<1>3. ASSUME NEW e \in node PROVE Entry(c \o e.path, e.id) \in Entries
    <2>0. e.path \in Paths /\ e.id \in EntryIds
        BY <1>2
    <2>1. c \o e.path \in Paths /\ c \o e.path # << >>
        BY <1>0, <2>0, PathJoin
    <2>2. Named(Last(c \o e.path), e.id)
        <3>1. CASE e.path = << >>
            BY <1>0, <3>1, RootIs DEF Fits
        <3>2. CASE e.path # << >>
            BY <1>0, <1>2, <2>0, <3>2, PathJoin
        <3> QED
            BY <3>1, <3>2
    <2> PICK f, q : f = Entry(c \o e.path, e.id) /\ q = c \o e.path
        OBVIOUS
    <2>3. f.path = q /\ f.id = e.id /\ f \in [path : Paths, id : EntryIds]
        BY <2>0, <2>1, EntryIs, EntryOf
    <2> QED
        BY <2>1, <2>2, <2>3, EntriesAre
<1>4. ASSUME NEW f \in u, NEW q \in Paths \ {<< >>}, IsPrefix(q, f.path), q # f.path
      PROVE  Entry(q, DirId) \in u
    <2>1. CASE f \in t
        BY <1>1, <1>4, <2>1, TreeIs
    <2>2. CASE \E e \in node : f = Entry(c \o e.path, e.id)
        <3> PICK e \in node : f = Entry(c \o e.path, e.id)
            BY <2>2
        <3>0. e.path \in Paths /\ f.path = c \o e.path /\ f.path \in Paths /\ IsPrefix(c, f.path)
            <4>1. e.path \in Paths
                BY <1>2
            <4>2. f.path = c \o e.path
                BY EntryIs
            <4>3. c \o e.path \in Paths /\ IsPrefix(c, c \o e.path)
                BY <1>0, <4>1, PathJoin
            <4> QED
                BY <4>1, <4>2, <4>3
        <3>1. CASE IsPrefix(c, q)
            <4>1. PICK r \in Paths : q = c \o r
                BY <1>0, <3>1, Rest
            <4>2. IsPrefix(r, e.path) /\ r # e.path
                <5>1. IsPrefix(c \o r, c \o e.path) /\ c \o r # c \o e.path
                    BY <1>4, <3>0, <4>1
                <5>2. IsPrefix(c \o r, c \o e.path) <=> IsPrefix(r, e.path)
                    BY <1>0, <3>0, PathJoin
                <5> QED
                    BY <5>1, <5>2
            <4>3. Entry(r, DirId) \in node /\ Entry(r, DirId).path = r /\ Entry(r, DirId).id = DirId
                BY <1>2, <4>2, EntryIs
            <4> QED
                BY <1>1, <4>1, <4>3
        <3>2. CASE ~IsPrefix(c, q)
            <4>1. IsPrefix(q, c) /\ q # c
                BY <1>0, <1>4, <3>0, <3>2, Comparable
            <4>2. HasDir(t, q)
                BY <1>0, <4>1, DirIs
            <4> QED
                BY <1>1, <4>2 DEF HasDir
        <3> QED
            BY <3>1, <3>2
    <2> QED
        BY <1>1, <2>1, <2>2
<1>5. u \in Trees
    <2>1. t \subseteq Entries
        BY TreeIs
    <2>2. u \subseteq Entries
        BY <1>1, <1>3, <2>1
    <2> QED
        BY <1>4, <2>2, TreeIs
<1> QED
    BY <1>1, <1>5

\* A tree without all that is below some paths
LEMMA CutIs ==
    ASSUME NEW t \in Trees, NEW P \in SUBSET Paths
    PROVE  LET u == {e \in t : ~ \E p \in P : IsPrefix(p, e.path)} IN
           /\ u \in Trees
           /\ \A d \in Paths : HasDir(t, d) /\ (~ \E p \in P : IsPrefix(p, d)) => HasDir(u, d)
<1> PICK u : u = {e \in t : ~ \E p \in P : IsPrefix(p, e.path)}
    OBVIOUS
<1>1. t \subseteq Entries
    BY TreeIs
<1>2. ASSUME NEW f \in u, NEW q \in Paths \ {<< >>}, IsPrefix(q, f.path), q # f.path
      PROVE  Entry(q, DirId) \in u
    <2>1. f \in t /\ f.path \in Paths
        BY <1>1, EntriesAre
    <2>2. Entry(q, DirId) \in t /\ Entry(q, DirId).path = q
        BY <1>2, <2>1, TreeIs, EntryIs
    <2>3. ASSUME NEW p \in P, IsPrefix(p, q) PROVE FALSE
        BY <1>2, <2>1, <2>3, Comparable
    <2> QED
        BY <2>2, <2>3
<1>3. u \in Trees
    BY <1>1, <1>2, TreeIs
<1>4. ASSUME NEW d \in Paths, HasDir(t, d), ~ \E p \in P : IsPrefix(p, d) PROVE HasDir(u, d)
    BY <1>4, EntryIs DEF HasDir
<1> QED
    BY <1>3, <1>4

----------------------------------------------------------------------------
\* Adding entries

\* The trees after the first m of the items
Steps(f, t, dir, items, replace, m) ==
    [k \in 0..m |-> IF k = 0 THEN t
                    ELSE AddEntry(f[k - 1], dir, items[k].name, items[k].node, replace)]

\* The trees after each item can be computed one after the other.
LEMMA StepsExist ==
    ASSUME NEW t, NEW dir, NEW items, NEW replace, NEW m \in Nat
    PROVE  \E f : f = Steps(f, t, dir, items, replace, m)
<1> DEFINE Fails == {k \in Nat : ~\E f : f = Steps(f, t, dir, items, replace, k)}
<1>1. SUFFICES ASSUME Fails # {} PROVE FALSE
    OBVIOUS
<1>2. PICK k \in Fails : \A y \in Fails : k <= y
    <2>1. Fails \subseteq Nat
        OBVIOUS
    <2> HIDE DEF Fails
    <2> QED
        BY <1>1, <2>1, Smallest
<1>3. k # 0
    <2> DEFINE g == [n \in 0..0 |-> t]
    <2>1. g = Steps(g, t, dir, items, replace, 0)
        BY DEF Steps
    <2> QED
        BY <2>1
<1>4. PICK f : f = Steps(f, t, dir, items, replace, k - 1)
    <2>1. k - 1 \in Nat /\ ~(k <= k - 1)
        BY <1>3
    <2>2. k - 1 \notin Fails
        <3> HIDE DEF Fails
        <3> QED
            BY <1>2, <2>1
    <2> QED
        BY <2>1, <2>2
<1> DEFINE last == AddEntry(f[k - 1], dir, items[k].name, items[k].node, replace)
           Next1(h, n) == IF n = 0 THEN t
                          ELSE AddEntry(h[n - 1], dir, items[n].name, items[n].node, replace)
           g == [n \in 0..k |-> IF n = k THEN last ELSE f[n]]
<1>5. \A n \in 0..k : g[n] = Next1(g, n)
    <2> SUFFICES ASSUME NEW n \in 0..k PROVE g[n] = Next1(g, n)
        OBVIOUS
    <2>1. n # 0 => n - 1 \in 0..k /\ n - 1 # k /\ g[n - 1] = f[n - 1]
        OBVIOUS
    <2>2. CASE n = k
        <3>1. g[n] = last /\ g[n - 1] = f[n - 1] /\ n # 0
            BY <1>3, <2>1, <2>2
        <3> HIDE DEF g
        <3> QED
            BY <2>2, <3>1
    <2>3. CASE n # k
        <3>1. n \in 0..(k - 1) /\ g[n] = f[n]
            BY <2>3
        <3>2. f[n] = Next1(f, n)
            BY <1>4, <3>1 DEF Steps
        <3> HIDE DEF g
        <3> QED
            BY <2>1, <3>1, <3>2
    <2> QED
        BY <2>2, <2>3
<1>6. g = Steps(g, t, dir, items, replace, k)
    <2>1. g = [n \in 0..k |-> g[n]]
        OBVIOUS
    <2>2. [n \in 0..k |-> g[n]] = [n \in 0..k |-> Next1(g, n)]
        <3> HIDE DEF g, Next1
        <3> QED
            BY <1>5
    <2> HIDE DEF g
    <2> QED
        BY <2>1, <2>2 DEF Steps
<1> QED
    BY <1>6

\* Each tree comes from the one before (post_multi_files_recursive).
LEMMA AddingIs ==
    ASSUME NEW t, NEW dir, NEW items, NEW replace, Len(items) \in Nat
    PROVE  LET f == Adding(t, dir, items, replace) IN
           /\ f[0] = t
           /\ \A k \in 1..Len(items) :
                 f[k] = AddEntry(f[k - 1], dir, items[k].name, items[k].node, replace)
<1> PICK m : m = Len(items)
    OBVIOUS
<1> DEFINE f == CHOOSE h : h = Steps(h, t, dir, items, replace, m)
<1>1. f = Steps(f, t, dir, items, replace, m)
    BY StepsExist
<1>2. Adding(t, dir, items, replace) = f
    BY DEF Adding, Steps
<1> HIDE DEF f
<1>3. f[0] = t /\ \A k \in 1..m : f[k] = AddEntry(f[k - 1], dir, items[k].name, items[k].node, replace)
    BY <1>1 DEF Steps
<1> QED
    BY <1>2, <1>3

\* A number at the end does not change what a name is for.
LEMMA NumberedIs ==
    ASSUME NEW n \in Names, NEW i \in Nat
    PROVE  Numbered(n, i) \in Names /\ Numbered(n, i)[1] = n[1]
<1> DEFINE S == FileNames \cup DirNames \cup FileIds \cup Nat
<1>1. n \in Seq(S) /\ n # << >> /\ Len(n) \in Nat \ {0} /\ i \in S
    BY EmptySeq DEF Names
<1> HIDE DEF S
<1>2. /\ Append(n, i) \in Seq(S) /\ Append(n, i) # << >>
      /\ \A j \in 1..Len(n) : Append(n, i)[j] = n[j]
    BY <1>1, AppendProperties
<1>3. Append(n, i)[1] = n[1]
    BY <1>1, <1>2
<1> QED
    BY <1>1, <1>2, <1>3 DEF Numbered, Names, S

\* A name of the same kind may have the same node.
LEMMA FitsAs ==
    ASSUME NEW m, NEW n, m[1] = n[1], NEW node, Fits(n, node)
    PROVE  Fits(m, node)
BY DEF Fits, Named

\* The names in a directory are those of its entries.
LEMMA NameIn ==
    ASSUME NEW t \in Trees, NEW dir \in Paths, NEW n
    PROVE  n \in NamesIn(t, dir) <=> n \in Names /\ \E x \in EntryIds : Entry(Child(dir, n), x) \in t
<1>1. ASSUME n \in NamesIn(t, dir)
      PROVE  n \in Names /\ \E x \in EntryIds : Entry(Child(dir, n), x) \in t
    <2>1. PICK e \in t : e.path # << >> /\ Front(e.path) = dir /\ n = Last(e.path)
        BY <1>1 DEF NamesIn
    <2>2. e \in [path : Paths, id : EntryIds] /\ e.path \in Seq(Names) \ {<< >>}
        BY TreeIs, EntriesAre DEF Paths
    <2>3. e.id \in EntryIds /\ e = Entry(e.path, e.id)
        BY <2>2, EntryOf
    <2>4. n \in Names /\ e.path = Child(dir, n)
        BY <2>1, <2>2, Parent
    <2> QED
        BY <2>3, <2>4
<1>2. ASSUME n \in Names, NEW x \in EntryIds, Entry(Child(dir, n), x) \in t
      PROVE  n \in NamesIn(t, dir)
    <2> PICK e : e = Entry(Child(dir, n), x)
        OBVIOUS
    <2>1. e \in t /\ e.path = Child(dir, n)
        BY <1>2, EntryIs
    <2>2. Child(dir, n) # << >> /\ Last(Child(dir, n)) = n /\ Front(Child(dir, n)) = dir
        BY <1>2, Children
    <2> QED
        BY <2>1, <2>2 DEF NamesIn
<1> QED
    BY <1>1, <1>2

\* A path is below one name of a directory only.
LEMMA SameChild ==
    ASSUME NEW dir \in Paths, NEW n \in Names, NEW m \in Names, NEW p \in Paths,
           IsPrefix(Child(dir, n), p), IsPrefix(Child(dir, m), p)
    PROVE  n = m
<1> PICK a, c : a = Child(dir, n) /\ c = Child(dir, m)
    OBVIOUS
<1>1. /\ a \in Paths /\ ~IsPrefix(a, dir) /\ c \in Paths /\ ~IsPrefix(c, dir)
      /\ \A q \in Paths : IsPrefix(q, a) /\ q # a => IsPrefix(q, dir)
      /\ \A q \in Paths : IsPrefix(q, c) /\ q # c => IsPrefix(q, dir)
      /\ a = c => n = m
    BY Children
<1>2. IsPrefix(a, c) \/ IsPrefix(c, a)
    BY <1>1, Comparable
<1> QED
    BY <1>1, <1>2

\* Nothing is below a name that is not in its directory.
LEMMA NothingBelow ==
    ASSUME NEW t \in Trees, NEW dir \in Paths, NEW n \in Names, NEW e \in t,
           IsPrefix(Child(dir, n), e.path)
    PROVE  n \in NamesIn(t, dir)
<1> PICK c : c = Child(dir, n)
    OBVIOUS
<1>1. c \in Paths \ {<< >>} /\ e \in [path : Paths, id : EntryIds] /\ DirId \in EntryIds
    BY Children, TreeIs, EntriesAre DEF EntryIds
<1>2. e.id \in EntryIds /\ e = Entry(e.path, e.id)
    BY <1>1, EntryOf
<1>3. CASE c = e.path
    BY <1>2, <1>3, NameIn
<1>4. CASE c # e.path
    BY <1>1, <1>4, TreeIs, NameIn
<1> QED
    BY <1>3, <1>4

\* add_new_entries() for one entry
LEMMA AddEntryIs ==
    ASSUME OpsConstants, NEW t \in Trees, NEW dir \in Paths, HasDir(t, dir), NEW n \in Names,
           NEW node \in Nodes, Fits(n, node), NEW replace \in BOOLEAN,
           replace \/ FreeSuffixes(t, dir, n) # {}
    PROVE  LET u == AddEntry(t, dir, n, node, replace) IN
           /\ u \in Trees /\ HasDir(u, dir)
           /\ \A e \in t : e \in u \/ (replace /\ IsPrefix(Child(dir, n), e.path))
           /\ \E m \in Names : /\ replace => m = n
                               /\ ~replace => m \notin NamesIn(t, dir)
                               /\ \A e \in node : Entry(Child(dir, m) \o e.path, e.id) \in u
<1> PICK u : u = AddEntry(t, dir, n, node, replace)
    OBVIOUS
<1>0. LastSuffix \in Nat
    BY DEF OpsConstants
<1>1. CASE replace /\ n \in NamesIn(t, dir)
    <2> PICK s, c : s = Prune(t, Child(dir, n)) /\ c = Child(dir, n)
        OBVIOUS
    <2>1. u = Graft(s, c, node)
        BY <1>1 DEF AddEntry
    <2>2. c \in Paths /\ ~IsPrefix(c, dir)
        BY Children
    <2>3. s = {e \in t : ~ \E p \in {c} : IsPrefix(p, e.path)}
        BY DEF Prune
    <2>4. {c} \in SUBSET Paths
        BY <2>2
    <2>5. s \in Trees /\ HasDir(s, dir)
        BY <2>2, <2>3, <2>4, CutIs
    <2>6. /\ u \in Trees /\ s \subseteq u
          /\ \A e \in node : Entry(c \o e.path, e.id) \in u
        BY <2>1, <2>5, GraftIs
    <2>7. HasDir(u, dir)
        BY <2>5, <2>6 DEF HasDir
    <2>8. \A e \in t : e \in u \/ IsPrefix(c, e.path)
        BY <2>3, <2>6
    <2> QED
        BY <1>1, <2>6, <2>7, <2>8
<1>2. CASE ~(replace /\ n \in NamesIn(t, dir))
    <2> DEFINE free == FreeSuffixes(t, dir, n)
               m == UniqueName(t, dir, n)
    <2>1. free \subseteq Nat /\ free # {}
        <3>1. replace => n \notin NamesIn(t, dir) /\ Numbered(n, 0) = n
            BY <1>2 DEF Numbered
        <3>2. replace => 0 \in free
            BY <1>0, <3>1 DEF FreeSuffixes
        <3>3. free \subseteq Nat
            BY <1>0 DEF FreeSuffixes
        <3> QED
            BY <3>2, <3>3
    <2>2. First(free) \in free /\ \A i \in free : First(free) <= i
        BY <2>1, FirstIs
    <2>3. m = Numbered(n, First(free)) /\ First(free) \in Nat /\ m \notin NamesIn(t, dir)
        BY <2>1, <2>2 DEF UniqueName, FreeSuffixes
    <2>4. replace => m = n
        <3>1. replace => 0 \in free
            BY <1>0, <1>2 DEF FreeSuffixes, Numbered
        <3>2. replace => First(free) = 0
            BY <2>2, <2>3, <3>1
        <3> QED
            BY <2>3, <3>2 DEF Numbered
    <2>5. m \in Names /\ m[1] = n[1]
        BY <2>3, NumberedIs
    <2> HIDE DEF free, m
    <2>6. Fits(m, node)
        BY <2>5, FitsAs
    <2>7. u = Graft(t, Child(dir, m), node)
        BY <1>2 DEF AddEntry, m
    <2>8. /\ u \in Trees /\ t \subseteq u
          /\ \A e \in node : Entry(Child(dir, m) \o e.path, e.id) \in u
        BY <2>5, <2>6, <2>7, GraftIs
    <2>9. HasDir(u, dir)
        BY <2>8 DEF HasDir
    <2> QED
        BY <2>3, <2>4, <2>5, <2>8, <2>9
<1> QED
    BY <1>1, <1>2

----------------------------------------------------------------------------
\* What is added: each item has a name and a node that the name may have.
Fitting(items) ==
    /\ Len(items) \in Nat
    /\ \A k \in 1..Len(items) : /\ items[k].name \in Names /\ items[k].node \in Nodes
                                /\ Fits(items[k].name, items[k].node)

Distinct(items) == \A i, j \in 1..Len(items) : items[i].name = items[j].name => i = j

\* The tree u has what the tree t had, except what was replaced, and the first k items.
Keeps(t, u, dir, items, replace, k) ==
    \A e \in t : e \in u \/ (replace /\ \E j \in 1..k : IsPrefix(Child(dir, items[j].name), e.path))

Placed(t, u, dir, items, replace, i) ==
    \E m \in Names : /\ replace => m = items[i].name
                     /\ ~replace => m \notin NamesIn(t, dir)
                     /\ \A e \in items[i].node : Entry(Child(dir, m) \o e.path, e.id) \in u

AddedTo(t, u, dir, items, replace, k) ==
    /\ u \in Trees /\ HasDir(u, dir)
    /\ Keeps(t, u, dir, items, replace, k)
    /\ Distinct(items) => \A i \in 1..k : Placed(t, u, dir, items, replace, i)

\* One more item is added.
LEMMA AddingGoesOn ==
    ASSUME OpsConstants, NEW t \in Trees, NEW dir \in Paths, HasDir(t, dir),
           NEW items, Fitting(items), NEW replace \in BOOLEAN,
           NEW k \in 1..Len(items), NEW u, AddedTo(t, u, dir, items, replace, k - 1),
           replace \/ FreeSuffixes(u, dir, items[k].name) # {}
    PROVE  AddedTo(t, AddEntry(u, dir, items[k].name, items[k].node, replace), dir, items, replace, k)
<1> PICK n, node, v : /\ n = items[k].name /\ node = items[k].node
                      /\ v = AddEntry(u, dir, n, node, replace)
    OBVIOUS
<1>0. /\ n \in Names /\ node \in Nodes /\ Fits(n, node) /\ Len(items) \in Nat
      /\ \A i \in 1..(k - 1) : i \in 1..k /\ i \in 1..Len(items) /\ i # k
      /\ \A i \in 1..k : i \in 1..(k - 1) \/ i = k
    BY DEF Fitting
<1>1. /\ u \in Trees /\ HasDir(u, dir) /\ Keeps(t, u, dir, items, replace, k - 1)
      /\ Distinct(items) => \A i \in 1..(k - 1) : Placed(t, u, dir, items, replace, i)
    BY DEF AddedTo
<1>2. /\ v \in Trees /\ HasDir(v, dir)
      /\ \A e \in u : e \in v \/ (replace /\ IsPrefix(Child(dir, n), e.path))
      /\ \E m \in Names : /\ replace => m = n
                          /\ ~replace => m \notin NamesIn(u, dir)
                          /\ \A e \in node : Entry(Child(dir, m) \o e.path, e.id) \in v
    BY <1>0, <1>1, AddEntryIs
<1>3. Keeps(t, v, dir, items, replace, k)
    <2> SUFFICES ASSUME NEW e \in t, e \notin v
                 PROVE  replace /\ \E j \in 1..k : IsPrefix(Child(dir, items[j].name), e.path)
        BY DEF Keeps
    <2>1. CASE e \in u
        BY <1>2, <2>1
    <2>2. CASE e \notin u
        BY <1>0, <1>1, <2>2 DEF Keeps
    <2> QED
        BY <2>1, <2>2
<1>4. ASSUME Distinct(items), NEW i \in 1..k PROVE Placed(t, v, dir, items, replace, i)
    <2>1. CASE i = k
        <3>1. PICK m \in Names : /\ replace => m = n
                                 /\ ~replace => m \notin NamesIn(u, dir)
                                 /\ \A e \in node : Entry(Child(dir, m) \o e.path, e.id) \in v
            BY <1>2
        <3>2. ~replace => m \notin NamesIn(t, dir)
            <4>1. ~replace => t \subseteq u
                BY <1>1 DEF Keeps
            <4> QED
                BY <1>1, <3>1, <4>1, NameIn
        <3> QED
            BY <2>1, <3>1, <3>2 DEF Placed
    <2>2. CASE i \in 1..(k - 1)
        <3>0. i \in 1..Len(items) /\ i # k
            BY <1>0, <2>2
        <3>1. PICK m \in Names : /\ replace => m = items[i].name
                                 /\ ~replace => m \notin NamesIn(t, dir)
                                 /\ \A e \in items[i].node : Entry(Child(dir, m) \o e.path, e.id) \in u
            BY <1>1, <1>4, <2>2 DEF Placed
        <3>2. ASSUME NEW e \in items[i].node PROVE Entry(Child(dir, m) \o e.path, e.id) \in v
            <4> PICK f : f = Entry(Child(dir, m) \o e.path, e.id)
                OBVIOUS
            <4>1. f \in u /\ f.path = Child(dir, m) \o e.path
                BY <3>1, EntryIs
            <4>2. e.path \in Paths
                <5>1. items[i].node \in Nodes
                    BY <3>0 DEF Fitting
                <5> QED
                    BY <5>1, NodeIs
            <4>3. f.path \in Paths /\ IsPrefix(Child(dir, m), f.path)
                BY <4>1, <4>2, Children, PathJoin
            <4>4. ASSUME replace, IsPrefix(Child(dir, n), f.path) PROVE FALSE
                <5>1. n = m
                    BY <1>0, <4>3, <4>4, SameChild
                <5>2. items[i].name = items[k].name
                    BY <3>1, <4>4, <5>1
                <5> QED
                    BY <1>4, <3>0, <5>2 DEF Distinct
            <4> QED
                BY <1>2, <4>1, <4>4
        <3> QED
            BY <3>1, <3>2 DEF Placed
    <2> QED
        BY <1>0, <2>1, <2>2
<1> QED
    BY <1>2, <1>3, <1>4 DEF AddedTo

\* post_multi_files_recursive(): all items
LEMMA AddEntriesIs ==
    ASSUME OpsConstants, NEW t \in Trees, NEW dir \in Paths, HasDir(t, dir),
           NEW items, Fitting(items), NEW replace \in BOOLEAN, Room(t, dir, items, replace)
    PROVE  AddedTo(t, AddEntries(t, dir, items, replace), dir, items, replace, Len(items))
<1> PICK f, len : f = Adding(t, dir, items, replace) /\ len = Len(items)
    OBVIOUS
<1>0. len \in Nat
    BY DEF Fitting
<1>1. /\ f[0] = t
      /\ \A k \in 1..len : f[k] = AddEntry(f[k - 1], dir, items[k].name, items[k].node, replace)
    BY <1>0, AddingIs
<1>2. \A k \in 1..len : replace \/ FreeSuffixes(f[k - 1], dir, items[k].name) # {}
    BY DEF Room
<1> DEFINE Fails == {k \in 0..len : ~AddedTo(t, f[k], dir, items, replace, k)}
<1>3. SUFFICES Fails = {}
    <2>1. AddEntries(t, dir, items, replace) = f[len] /\ len \in 0..len
        BY <1>0 DEF AddEntries
    <2> QED
        BY <1>3, <2>1
<1>4. SUFFICES ASSUME Fails # {} PROVE FALSE
    OBVIOUS
<1>5. PICK k \in Fails : \A y \in Fails : k <= y
    <2>1. Fails \subseteq Nat
        BY <1>0
    <2> HIDE DEF Fails
    <2> QED
        BY <1>4, <2>1, Smallest
<1>6. k # 0
    <2>1. AddedTo(t, t, dir, items, replace, 0)
        BY DEF AddedTo, Keeps
    <2> QED
        BY <1>1, <2>1
<1>7. k \in 1..len /\ k - 1 \in 0..len /\ ~(k <= k - 1)
    BY <1>0, <1>6
<1>8. AddedTo(t, f[k - 1], dir, items, replace, k - 1)
    <2>1. k - 1 \notin Fails
        <3> HIDE DEF Fails
        <3> QED
            BY <1>5, <1>7
    <2> QED
        BY <1>7, <2>1
<1>9. AddedTo(t, f[k], dir, items, replace, k)
    BY <1>1, <1>2, <1>7, <1>8, AddingGoesOn
<1> QED
    BY <1>9

\* What the operations keep
LEMMA AddKeeps ==
    ASSUME NEW t \in Trees, NEW dir \in Paths, NEW items, Fitting(items), NEW replace \in BOOLEAN,
           NEW u, AddedTo(t, u, dir, items, replace, Len(items)),
           NEW names, \A i \in 1..Len(items) : items[i].name \in names
    PROVE  /\ \A e \in t : e.id # DirId => e \in u \/ e.id \in Replaced(t, dir, names, replace)
           /\ FilesOf(t) \subseteq FilesOf(u) \cup Replaced(t, dir, names, replace)
<1> SUFFICES ASSUME NEW e \in t, e.id # DirId, e \notin u
             PROVE  e.id \in Replaced(t, dir, names, replace)
    BY DEF FilesOf
<1>1. replace /\ \E j \in 1..Len(items) : IsPrefix(Child(dir, items[j].name), e.path)
    BY DEF AddedTo, Keeps
<1>2. PICK n \in names \cap Names : IsPrefix(Child(dir, n), e.path)
    BY <1>1 DEF Fitting
<1>3. e.id \in FilesOf(NodeAt(t, Child(dir, n)))
    BY <1>2, Children, NodeOfTree
<1> QED
    BY <1>1, <1>2, <1>3 DEF Replaced

\* The files of an item that is placed are in the tree.
LEMMA PlacedFiles ==
    ASSUME NEW t, NEW u, NEW dir, NEW items, NEW replace, NEW i, Placed(t, u, dir, items, replace, i)
    PROVE  FilesOf(items[i].node) \subseteq FilesOf(u)
<1>1. PICK m \in Names : \A e \in items[i].node : Entry(Child(dir, m) \o e.path, e.id) \in u
    BY DEF Placed
<1> SUFFICES ASSUME NEW e \in items[i].node, e.id # DirId PROVE e.id \in FilesOf(u)
    BY DEF FilesOf
<1>2. Entry(Child(dir, m) \o e.path, e.id).id = e.id
    BY EntryIs
<1> QED
    BY <1>1, <1>2 DEF FilesOf

\* The files below some names of a directory
FilesBelow(t, dir, names) == UNION {FilesOf(NodeAt(t, Child(dir, n))) : n \in names}

\* del_file_recursive() takes away what is below the names, and no more.
LEMMA DelKeeps ==
    ASSUME NEW t \in Trees, NEW dir \in Paths, NEW names \in SUBSET Names
    PROVE  LET u == DelEntries(t, dir, names) IN
           /\ u \in Trees
           /\ FilesOf(t) \subseteq FilesOf(u) \cup FilesBelow(t, dir, names)
<1> PICK u, P : u = DelEntries(t, dir, names) /\ P = {Child(dir, n) : n \in names}
    OBVIOUS
<1>1. u = {e \in t : ~ \E p \in P : IsPrefix(p, e.path)}
    BY DEF DelEntries
<1>2. P \in SUBSET Paths
    BY Children
<1>3. u \in Trees
    BY <1>1, <1>2, CutIs
<1>4. ASSUME NEW e \in t, e.id # DirId, e \notin u PROVE e.id \in FilesBelow(t, dir, names)
    <2>1. PICK n \in names : IsPrefix(Child(dir, n), e.path)
        BY <1>1, <1>4
    <2>2. e.id \in FilesOf(NodeAt(t, Child(dir, n)))
        BY <1>4, <2>1, Children, NodeOfTree
    <2> QED
        BY <2>2 DEF FilesBelow
<1> QED
    BY <1>3, <1>4 DEF FilesOf

\* A file in the place of another, or in a free place
LEMMA PutKeeps ==
    ASSUME OpsConstants, NEW t \in Trees, NEW dir \in Paths, HasDir(t, dir), NEW n \in Names,
           n[1] \in FileNames, NEW x \in FileIds
    PROVE  LET p == Child(dir, n)
               u == PutFile(t, p, x)
           IN  /\ u \in Trees /\ x \in FilesOf(u)
               /\ FilesOf(t) \subseteq FilesOf(u) \cup FilesOf(NodeAt(t, p))
<1> PICK p, u : p = Child(dir, n) /\ u = PutFile(t, p, x)
    OBVIOUS
<1>0. /\ FileNames \cap DirNames = {} /\ DirId \notin FileIds
      /\ p \in Paths /\ p # << >> /\ Last(p) = n /\ IsPrefix(p, p)
      /\ \A q \in Paths : IsPrefix(q, p) /\ q # p => IsPrefix(q, dir)
    BY Children, Comparable DEF OpsConstants
<1>1. u = {e \in t : e.path # p} \cup {Entry(p, x)}
    BY DEF PutFile
<1>2. /\ t \subseteq Entries
      /\ \A e \in t : \A q \in Paths \ {<< >>} : IsPrefix(q, e.path) /\ q # e.path => Entry(q, DirId) \in t
    BY TreeIs
<1>3. Entry(p, DirId) \notin t
    <2>1. ~Named(n, DirId)
        BY <1>0 DEF Named
    <2>2. Entry(p, DirId).path = p /\ Entry(p, DirId).id = DirId
        BY EntryIs
    <2> QED
        BY <1>0, <1>2, <2>1, <2>2, EntriesAre
<1> PICK f : f = Entry(p, x)
    OBVIOUS
<1>4. f.path = p /\ f.id = x /\ x # DirId /\ x \in EntryIds
    BY <1>0, EntryIs DEF EntryIds
<1>5. f \in Entries
    <2>1. Named(n, x)
        BY <1>4 DEF Named
    <2>2. f \in [path : Paths, id : EntryIds]
        BY <1>0, <1>4, EntryOf
    <2> QED
        BY <1>0, <1>4, <2>1, <2>2, EntriesAre
<1>6. ASSUME NEW e \in u, NEW q \in Paths \ {<< >>}, IsPrefix(q, e.path), q # e.path
      PROVE  Entry(q, DirId) \in u
    <2>1. Entry(q, DirId) \in t
        <3>1. CASE e \in t
            BY <1>2, <1>6, <3>1
        <3>2. CASE e = f
            <4>1. HasDir(t, q)
                BY <1>0, <1>4, <1>6, <3>2, DirIs
            <4> QED
                BY <4>1 DEF HasDir
        <3> QED
            BY <1>1, <3>1, <3>2
    <2>2. Entry(q, DirId).path = q
        BY EntryIs
    <2> QED
        BY <1>1, <1>3, <2>1, <2>2
<1>7. u \in Trees
    <2>1. u \subseteq Entries
        BY <1>1, <1>2, <1>5
    <2> QED
        BY <1>6, <2>1, TreeIs
<1>8. x \in FilesOf(u)
    BY <1>1, <1>4 DEF FilesOf
<1>9. ASSUME NEW e \in t, e.id # DirId, e \notin u PROVE e.id \in FilesOf(NodeAt(t, p))
    BY <1>0, <1>1, <1>9, NodeOfTree
<1> QED
    BY <1>7, <1>8, <1>9 DEF FilesOf

\* An entry under another name
LEMMA RenameKeeps ==
    ASSUME NEW t \in Trees, NEW dir \in Paths, HasDir(t, dir), NEW n \in Names, NEW m \in Names,
           Fits(m, NodeAt(t, Child(dir, n)))
    PROVE  LET u == Rename(t, dir, n, m) IN u \in Trees /\ FilesOf(t) \subseteq FilesOf(u)
<1> PICK u, p, node, s : /\ p = Child(dir, n) /\ node = NodeAt(t, p) /\ u = Rename(t, dir, n, m)
                         /\ s = Prune(t, p)
    OBVIOUS
<1>0. /\ p \in Paths /\ p # << >> /\ ~IsPrefix(p, dir)
    BY Children
<1>1. s = {e \in t : ~ \E q \in {p} : IsPrefix(q, e.path)} /\ {p} \in SUBSET Paths
    BY <1>0 DEF Prune
<1>2. s \in Trees /\ HasDir(s, dir)
    BY <1>0, <1>1, CutIs
<1>3. /\ node \in Nodes
      /\ \A e \in t : IsPrefix(p, e.path) /\ e.id # DirId => e.id \in FilesOf(node)
    BY <1>0, NodeOfTree
<1>4. u = Graft(s, Child(dir, m), node)
    BY DEF Rename
<1>5. /\ u \in Trees /\ s \subseteq u
      /\ \A e \in node : Entry(Child(dir, m) \o e.path, e.id) \in u
    BY <1>2, <1>3, <1>4, GraftIs
<1>6. FilesOf(node) \subseteq FilesOf(u)
    <2> SUFFICES ASSUME NEW e \in node, e.id # DirId PROVE e.id \in FilesOf(u)
        BY DEF FilesOf
    <2>1. Entry(Child(dir, m) \o e.path, e.id).id = e.id
        BY EntryIs
    <2> QED
        BY <1>5, <2>1 DEF FilesOf
<1>7. ASSUME NEW e \in t, e.id # DirId PROVE e.id \in FilesOf(u)
    BY <1>1, <1>3, <1>5, <1>6, <1>7 DEF FilesOf
<1> QED
    BY <1>5, <1>7 DEF FilesOf

----------------------------------------------------------------------------
\* Merges of trees

\* A directory with something new in it is not what it was.
LEMMA ChangedBelow ==
    ASSUME NEW b \in Trees, NEW h \in Trees, NEW d \in Paths, d # << >>,
           NEW e \in h, e \notin b, IsPrefix(d, e.path)
    PROVE  NodeAt(h, d) # NodeAt(b, d)
<1>0. e.path \in Paths /\ e = Entry(e.path, e.id)
    <2>1. e \in [path : Paths, id : EntryIds]
        BY TreeIs, EntriesAre
    <2> QED
        BY <2>1, EntryOf
<1>1. PICK q \in Paths : e.path = d \o q
    BY <1>0, Rest
<1>2. Entry(q, e.id) \in NodeAt(h, d) <=> Entry(d \o q, e.id) \in h
    BY NodeHas
<1>3. Entry(q, e.id) \in NodeAt(b, d) <=> Entry(d \o q, e.id) \in b
    BY NodeHas
<1> QED
    BY <1>0, <1>1, <1>2, <1>3

\* A directory that is what it was has all below it as it was.
LEMMA SameBelow ==
    ASSUME NEW b \in Trees, NEW h \in Trees, NEW d \in Paths, d # << >>, NEW x \in Paths,
           IsPrefix(d, x), NodeAt(h, d) = NodeAt(b, d)
    PROVE  NodeAt(h, x) = NodeAt(b, x)
<1>1. ASSUME NEW g \in Trees, NEW e \in g, IsPrefix(x, e.path) PROVE IsPrefix(d, e.path)
    <2>1. e.path \in Paths
        BY <1>1, TreeIs, EntriesAre
    <2> QED
        BY <1>1, <2>1, Comparable
<1>2. {e \in h : IsPrefix(x, e.path)} = {e \in b : IsPrefix(x, e.path)}
    BY <1>1, ChangedBelow
<1>3. x # << >>
    BY RootIs
<1> QED
    BY <1>2, <1>3 DEF NodeAt

\* Both sides of a merge have the same say about a directory.
LEMMA StaysSame ==
    ASSUME NEW b, NEW h, NEW r, NEW d
    PROVE  StaysDir(b, h, r, d) <=> StaysDir(b, r, h, d)
BY DEF StaysDir

\* A directory stays that both have, or below which one side has something new.
LEMMA StaysAbove ==
    ASSUME NEW b \in Trees, NEW h \in Trees, NEW r \in Trees, NEW d \in Paths, d # << >>,
           HasDir(h, d), HasDir(r, d) \/ \E e \in h \ b : IsPrefix(d, e.path)
    PROVE  StaysDir(b, h, r, d)
<1>1. HasDir(r, d) \/ NodeAt(h, d) # NodeAt(b, d)
    BY ChangedBelow
<1> QED
    BY <1>1 DEF StaysDir

\* Above a directory that stays all directories stay.
LEMMA StaysUp ==
    ASSUME NEW b \in Trees, NEW h \in Trees, NEW r \in Trees, NEW d \in Paths, d # << >>,
           NEW x \in Paths, IsPrefix(d, x), StaysDir(b, h, r, x)
    PROVE  StaysDir(b, h, r, d)
<1>0. x # << >>
    BY RootIs
<1>1. ASSUME NEW g \in Trees, NEW o \in Trees, HasDir(g, x), ~HasDir(b, x)
      PROVE  StaysDir(b, g, o, d)
    <2>1. HasDir(g, d)
        BY <1>1, DirIs
    <2>2. Entry(x, DirId) \in g \ b /\ Entry(x, DirId).path = x
        BY <1>0, <1>1, EntryIs DEF HasDir
    <2> QED
        BY <2>1, <2>2, StaysAbove
<1>2. ASSUME NEW g \in Trees, NEW o \in Trees, HasDir(g, x), NodeAt(g, x) # NodeAt(b, x)
      PROVE  StaysDir(b, g, o, d)
    <2>1. HasDir(g, d)
        BY <1>2, DirIs
    <2>2. NodeAt(g, d) # NodeAt(b, d)
        BY <1>2, SameBelow
    <2> QED
        BY <2>1, <2>2 DEF StaysDir
<1>3. CASE HasDir(h, x) /\ HasDir(r, x)
    <2>1. HasDir(h, d) /\ HasDir(r, d)
        BY <1>3, DirIs
    <2> QED
        BY <2>1 DEF StaysDir
<1>4. CASE ~HasDir(b, x) /\ (HasDir(h, x) \/ HasDir(r, x))
    BY <1>1, <1>4, StaysSame
<1>5. CASE HasDir(h, x) /\ NodeAt(h, x) # NodeAt(b, x)
    BY <1>2, <1>5
<1>6. CASE HasDir(r, x) /\ NodeAt(r, x) # NodeAt(b, x)
    BY <1>2, <1>6, StaysSame
<1> QED
    BY <1>3, <1>4, <1>5, <1>6 DEF StaysDir

\* A file that conflicts has a name of the same kind in the same directory.
LEMMA ConflictIs ==
    ASSUME NEW p \in Paths, p # << >>, NEW x \in FileIds, Named(Last(p), x), x # DirId
    PROVE  LET q == ConflictName(p, x) IN
           /\ q \in Paths /\ q # << >> /\ Named(Last(q), x)
           /\ \A d \in Paths : IsPrefix(d, q) /\ d # q => IsPrefix(d, p) /\ d # p
<1> DEFINE n == Append(Last(p), x)
           dir == Front(p)
<1>1. dir \in Paths /\ Last(p) \in Names /\ p = Child(dir, Last(p))
    BY Parent DEF Paths
<1>2. n \in Names /\ n[1] = Last(p)[1]
    <2> DEFINE S == FileNames \cup DirNames \cup FileIds \cup Nat
    <2>1. Last(p) \in Seq(S) /\ Len(Last(p)) \in Nat \ {0} /\ x \in S
        BY <1>1, EmptySeq DEF Names
    <2> HIDE DEF S
    <2>2. /\ n \in Seq(S) /\ n # << >>
          /\ \A j \in 1..Len(Last(p)) : n[j] = Last(p)[j]
        BY <2>1, AppendProperties
    <2>3. n[1] = Last(p)[1]
        BY <2>1, <2>2
    <2> QED
        BY <2>2, <2>3 DEF Names, S
<1>3. ConflictName(p, x) = Child(dir, n)
    <2>1. dir \in Seq(Names) /\ n \in Names
        BY <1>1, <1>2 DEF Paths
    <2> HIDE DEF n, dir
    <2>2. Append(dir, n) = dir \o << n >>
        BY <2>1, AppendIsConcat
    <2> QED
        BY <2>2 DEF ConflictName, Child, n, dir
<1> HIDE DEF n, dir
<1>4. /\ Child(dir, n) \in Paths /\ Child(dir, n) # << >> /\ Last(Child(dir, n)) = n
      /\ \A d \in Paths : IsPrefix(d, Child(dir, n)) /\ d # Child(dir, n) => IsPrefix(d, dir)
    BY <1>1, <1>2, Children
<1>5. IsPrefix(dir, p) /\ ~IsPrefix(p, dir)
    BY <1>1, Children
<1>6. \A d \in Paths : IsPrefix(d, dir) => IsPrefix(d, p) /\ d # p
    BY <1>1, <1>5, Comparable
<1>7. Named(n, x)
    BY <1>2 DEF Named
<1> QED
    BY <1>3, <1>4, <1>6, <1>7

\* The merge is a tree, and it has every file that one side added or both sides kept.
LEMMA MergeIs ==
    ASSUME OpsConstants, NEW b \in Trees, NEW h \in Trees, NEW r \in Trees
    PROVE  LET u == MergePaths(b, h, r) IN
           /\ u \in Trees
           /\ \A e \in h : e.id # DirId /\ (e \in r \/ e \notin b) => e.id \in FilesOf(u)
           /\ \A e \in r : e.id # DirId /\ (e \in h \/ e \notin b) => e.id \in FilesOf(u)
<1> DEFINE fb == {e \in b : e.id # DirId}
           fh == {e \in h : e.id # DirId}
           fr == {e \in r : e.id # DirId}
           As(e) == IF Contested(fb, fh, e) THEN Entry(ConflictName(e.path, e.id), e.id) ELSE e
           files == (fh \cap fr) \cup (fh \ fb) \cup {As(e) : e \in fr \ fb}
           dirs == {d \in DirsOf(h) \cup DirsOf(r) : d # << >> /\ StaysDir(b, h, r, d)}
           u == files \cup {Entry(d, DirId) : d \in dirs}
<1>0. MergePaths(b, h, r) = u
    BY DEF MergePaths, MergedFiles
<1>1. ASSUME NEW t \in Trees, NEW e \in t
      PROVE  /\ e \in Entries /\ e.path \in Paths /\ e.path # << >> /\ e.id \in EntryIds
             /\ e = Entry(e.path, e.id) /\ Named(Last(e.path), e.id)
             /\ \A q \in Paths : IsPrefix(q, e.path) /\ q # e.path => HasDir(t, q)
    <2>1. e \in Entries /\ e \in [path : Paths, id : EntryIds]
        BY <1>1, TreeIs, EntriesAre
    <2> QED
        BY <1>1, <2>1, TreeIs, EntriesAre, EntryOf DEF HasDir
\* what a side has done is below directories that stay
<1>2. ASSUME NEW e, (e \in fh /\ e \in fr) \/ e \in fh \ fb \/ e \in fr \ fb,
             NEW q \in Paths, q # << >>, IsPrefix(q, e.path), q # e.path
      PROVE  StaysDir(b, h, r, q)
    <2>1. CASE e \in fh /\ e \in fr
        <3>1. HasDir(h, q) /\ HasDir(r, q)
            BY <1>1, <1>2, <2>1
        <3> QED
            BY <3>1 DEF StaysDir
    <2>2. CASE e \in fh \ fb
        <3>1. HasDir(h, q) /\ e \in h \ b
            BY <1>1, <1>2, <2>2
        <3> QED
            BY <1>2, <3>1, StaysAbove
    <2>3. CASE e \in fr \ fb
        <3>1. HasDir(r, q) /\ e \in r \ b
            BY <1>1, <1>2, <2>3
        <3> QED
            BY <1>2, <3>1, StaysAbove, StaysSame
    <2> QED
        BY <1>2, <2>1, <2>2, <2>3
<1>3. ASSUME NEW q \in Paths, q # << >>, StaysDir(b, h, r, q) PROVE Entry(q, DirId) \in u
    <2>1. HasDir(h, q) \/ HasDir(r, q)
        BY <1>3 DEF StaysDir
    <2>2. ASSUME NEW t, HasDir(t, q) PROVE q \in DirsOf(t)
        <3>1. Entry(q, DirId) \in t /\ Entry(q, DirId).path = q /\ Entry(q, DirId).id = DirId
            BY <1>3, <2>2, EntryIs DEF HasDir
        <3> QED
            BY <3>1 DEF DirsOf
    <2>3. q \in dirs
        BY <1>3, <2>1, <2>2
    <2> QED
        BY <2>3
<1>4. ASSUME NEW e \in fr \ fb
      PROVE  /\ As(e) \in Entries /\ As(e).id = e.id
             /\ \A q \in Paths : IsPrefix(q, As(e).path) /\ q # As(e).path => IsPrefix(q, e.path) /\ q # e.path
    <2>1. /\ e \in Entries /\ e.path \in Paths /\ e.path # << >> /\ e.id \in FileIds /\ e.id # DirId
          /\ Named(Last(e.path), e.id)
        BY <1>1, <1>4 DEF EntryIds
    <2>2. CASE Contested(fb, fh, e)
        <3> PICK q, f : q = ConflictName(e.path, e.id) /\ f = Entry(q, e.id)
            OBVIOUS
        <3>1. /\ q \in Paths /\ q # << >> /\ Named(Last(q), e.id)
              /\ \A d \in Paths : IsPrefix(d, q) /\ d # q => IsPrefix(d, e.path) /\ d # e.path
            BY <2>1, ConflictIs
        <3>2. f.path = q /\ f.id = e.id /\ e.id \in EntryIds
            BY <2>1, EntryIs DEF EntryIds
        <3>3. f \in [path : Paths, id : EntryIds]
            BY <3>1, <3>2, EntryOf
        <3>4. f \in Entries
            BY <3>1, <3>2, <3>3, EntriesAre
        <3>5. As(e) = f
            BY <2>2
        <3> HIDE DEF As
        <3> QED
            BY <3>1, <3>2, <3>4, <3>5
    <2>3. CASE ~Contested(fb, fh, e)
        <3>1. As(e) = e
            BY <2>3
        <3> HIDE DEF As
        <3> QED
            BY <2>1, <3>1
    <2> QED
        BY <2>2, <2>3
<1>5. ASSUME NEW d \in dirs
      PROVE  /\ Entry(d, DirId) \in Entries /\ d \in Paths /\ d # << >> /\ StaysDir(b, h, r, d)
    <2>1. d # << >> /\ StaysDir(b, h, r, d)
        OBVIOUS
    <2>2. PICK t \in {h, r} : \E e \in t : e.id = DirId /\ e.path = d
        BY <2>1 DEF DirsOf
    <2> QED
        BY <1>1, <2>1, <2>2
<1>6. ASSUME NEW f \in u, NEW q \in Paths \ {<< >>}, IsPrefix(q, f.path), q # f.path
      PROVE  f \in Entries /\ Entry(q, DirId) \in u
    <2>1. CASE f \in (fh \cap fr) \cup (fh \ fb)
        <3>1. f \in Entries
            BY <1>1, <2>1
        <3>2. StaysDir(b, h, r, q)
            BY <1>2, <1>6, <2>1
        <3> HIDE DEF u
        <3> QED
            BY <1>3, <3>1, <3>2
    <2>2. CASE \E e \in fr \ fb : f = As(e)
        <3> PICK e \in fr \ fb : f = As(e)
            BY <2>2
        <3> HIDE DEF As, u
        <3>1. f \in Entries /\ IsPrefix(q, e.path) /\ q # e.path
            BY <1>4, <1>6
        <3>2. StaysDir(b, h, r, q)
            BY <1>2, <3>1
        <3> QED
            BY <1>3, <3>1, <3>2
    <2>3. CASE \E d \in dirs : f = Entry(d, DirId)
        <3> PICK d \in dirs : f = Entry(d, DirId)
            BY <2>3
        <3>1. f \in Entries /\ d \in Paths /\ StaysDir(b, h, r, d)
            BY <1>5
        <3>2. IsPrefix(q, d)
            BY <1>6, EntryIs
        <3>3. StaysDir(b, h, r, q)
            BY <3>1, <3>2, StaysUp
        <3> HIDE DEF u
        <3> QED
            BY <1>3, <3>1, <3>3
    <2> QED
        BY <1>6, <2>1, <2>2, <2>3
<1>7. u \subseteq Entries
    <2>1. ASSUME NEW f \in (fh \cap fr) \cup (fh \ fb) PROVE f \in Entries
        BY <1>1, <2>1
    <2>2. ASSUME NEW e \in fr \ fb PROVE As(e) \in Entries
        BY <1>4, <2>2
    <2>3. ASSUME NEW d \in dirs PROVE Entry(d, DirId) \in Entries
        BY <1>5, <2>3
    <2> HIDE DEF As, dirs, fb, fh, fr
    <2> QED
        BY <2>1, <2>2, <2>3
<1>8. u \in Trees
    <2> HIDE DEF u
    <2> QED
        BY <1>6, <1>7, TreeIs
<1>9. ASSUME NEW e \in h, e.id # DirId, e \in r \/ e \notin b PROVE e.id \in FilesOf(u)
    <2>1. e \in u
        BY <1>9
    <2> HIDE DEF u
    <2> QED
        BY <1>9, <2>1 DEF FilesOf
<1>10. ASSUME NEW e \in r, e.id # DirId, e \in h \/ e \notin b PROVE e.id \in FilesOf(u)
    <2>1. CASE e \in h
        <3>1. e \in u
            BY <1>10, <2>1
        <3> HIDE DEF u
        <3> QED
            BY <1>10, <3>1 DEF FilesOf
    <2>2. CASE e \notin b
        <3>1. e \in fr \ fb
            BY <1>10, <2>2
        <3>2. As(e) \in u /\ As(e).id = e.id
            <4>1. As(e).id = e.id
                BY <1>4, <3>1
            <4> HIDE DEF As
            <4> QED
                BY <3>1, <4>1
        <3> HIDE DEF u, As
        <3> QED
            BY <1>10, <3>2 DEF FilesOf
    <2> QED
        BY <1>10, <2>1, <2>2
<1> HIDE DEF u
<1> QED
    BY <1>0, <1>8, <1>9, <1>10

----------------------------------------------------------------------------
\* Requests: each name and the new one, of a kind, and no new one twice
Renames(names, new) ==
    /\ names \in Seq(Names) /\ new \in Seq(Names) /\ Len(new) = Len(names)
    /\ \A i \in 1..Len(names) : \A id \in EntryIds : Named(names[i], id) => Named(new[i], id)
    /\ \A i, j \in 1..Len(names) : new[i] = new[j] => i = j

\* A sequence and its elements
LEMMA RangeIs ==
    ASSUME NEW S, NEW s \in Seq(S)
    PROVE  /\ Len(s) \in Nat /\ DOMAIN s = 1..Len(s) /\ \A i \in 1..Len(s) : s[i] \in S
           /\ Range(s) \subseteq S
           /\ \A x : x \in Range(s) <=> \E i \in 1..Len(s) : x = s[i]
<1>1. Len(s) \in Nat /\ DOMAIN s = 1..Len(s) /\ \A i \in 1..Len(s) : s[i] \in S
    BY LenProperties, ElementOfSeq
<1> QED
    BY <1>1 DEF Range

\* The items of a request: each has the new name and the node of the old one.
LEMMA ItemsAre ==
    ASSUME NEW t \in Trees, NEW dir \in Paths, NEW names, NEW new, Renames(names, new)
    PROVE  LET items == Items(t, dir, names, new) IN
           /\ Len(items) = Len(names) /\ DOMAIN items = 1..Len(names)
           /\ Fitting(items) /\ Distinct(items)
           /\ \A i \in 1..Len(names) : /\ items[i].name = new[i]
                                       /\ items[i].node = NodeAt(t, Child(dir, names[i]))
<1> DEFINE items == Items(t, dir, names, new)
<1>0. /\ Len(names) \in Nat /\ DOMAIN names = 1..Len(names)
      /\ \A i \in 1..Len(names) : names[i] \in Names /\ new[i] \in Names
    BY RangeIs DEF Renames
<1>1. items = [i \in 1..Len(names) |->
                 [name |-> new[i], node |-> NodeAt(t, Child(dir, names[i]))]]
    BY <1>0 DEF Items
<1>2. DOMAIN items = 1..Len(names) /\ Len(items) = Len(names)
    <2> PICK n : n = Len(names)
        OBVIOUS
    <2>1. n \in Nat /\ items = [i \in 1..n |-> items[i]]
        BY <1>0, <1>1
    <2> HIDE DEF items
    <2> QED
        BY <2>1
<1>3. \A i \in 1..Len(names) : /\ items[i].name = new[i]
                               /\ items[i].node = NodeAt(t, Child(dir, names[i]))
    BY <1>1
<1> HIDE DEF items
<1>4. ASSUME NEW i \in 1..Len(names)
      PROVE  items[i].node \in Nodes /\ Fits(new[i], items[i].node)
    <2> PICK c, node : c = Child(dir, names[i]) /\ node = NodeAt(t, c)
        OBVIOUS
    <2>1. c \in Paths /\ c # << >> /\ Last(c) = names[i]
        BY <1>0, Children
    <2>2. node \in Nodes /\ Fits(names[i], node)
        BY <2>1, NodeOfTree
    <2>3. \A e \in node : e.id \in EntryIds
        BY <2>2, NodeIs
    <2>4. Fits(new[i], node)
        BY <2>2, <2>3 DEF Fits, Renames
    <2> QED
        BY <1>3, <2>2, <2>4
<1>5. Fitting(items)
    BY <1>0, <1>2, <1>3, <1>4 DEF Fitting
<1>6. Distinct(items)
    BY <1>2, <1>3 DEF Distinct, Renames
<1> QED
    BY <1>2, <1>3, <1>5, <1>6 DEF items

\* A request renames entries that are there, each to a name of its kind.
LEMMA SelectedAre ==
    ASSUME OpsConstants, NEW t \in Trees, NEW dir \in Paths,
           NEW names \in Selected(t, dir), NEW new \in NewNames(t, dir, names)
    PROVE  Renames(names, new) /\ Range(names) \subseteq NamesIn(t, dir)
<1>0. /\ \A n \in NamesIn(t, dir) : n \in Names /\ \E x \in EntryIds : Entry(Child(dir, n), x) \in t
      /\ FileNames \cap DirNames = {} /\ MaxItems \in Nat
    BY NameIn DEF OpsConstants
<1>1. CASE \E n \in NamesIn(t, dir) : names = << n >>
    <2> PICK n \in NamesIn(t, dir) : names = << n >>
        BY <1>1
    <2>1. names \in Seq(Names) /\ Len(names) = 1 /\ names[1] = n
        BY <1>0
    <2>2. PICK m \in NamesFor(t, dir, n) : new = << m >>
        BY <2>1 DEF NewNames
    <2>3. m \in Names /\ \A id \in EntryIds : Named(n, id) => Named(m, id)
        <3>1. PICK x \in EntryIds : Entry(Child(dir, n), x) \in t
            BY <1>0
        <3>2. Named(n, x)
            <4>1. /\ Entry(Child(dir, n), x).path = Child(dir, n) /\ Entry(Child(dir, n), x).id = x
                  /\ Last(Child(dir, n)) = n
                BY <1>0, EntryIs, Children
            <4> QED
                BY <3>1, <4>1, TreeIs, EntriesAre
        <3>3. IsDirNode(NodeAt(t, Child(dir, n))) <=> Entry(Child(dir, n), DirId) \in t
            <4>1. Child(dir, n) \in Paths /\ Child(dir, n) # << >> /\ << >> \in Paths
                BY <1>0, Children, RootIs
            <4>2. Entry(<< >>, DirId) \in NodeAt(t, Child(dir, n)) <=> Entry(Child(dir, n) \o << >>, DirId) \in t
                BY <4>1, NodeHas
            <4>3. Child(dir, n) \o << >> = Child(dir, n)
                BY <4>1, RootIs
            <4> QED
                BY <4>2, <4>3 DEF IsDirNode
        <3>4. CASE IsDirNode(NodeAt(t, Child(dir, n)))
            <4>1. n[1] \in DirNames
                <5>1. /\ Entry(Child(dir, n), DirId).path = Child(dir, n) /\ Entry(Child(dir, n), DirId).id = DirId
                      /\ Last(Child(dir, n)) = n
                    BY <1>0, EntryIs, Children
                <5> QED
                    BY <3>3, <3>4, <5>1, TreeIs, EntriesAre DEF Named
            <4>2. PICK k \in DirNames : m = << k >>
                BY <3>4 DEF NamesFor, Name
            <4>3. m \in Names /\ m[1] = k
                BY <4>2 DEF Names
            <4> QED
                BY <1>0, <4>1, <4>3 DEF Named
        <3>5. CASE ~IsDirNode(NodeAt(t, Child(dir, n)))
            <4>1. n[1] \in FileNames
                BY <3>1, <3>2, <3>3, <3>5 DEF Named
            <4>2. PICK k \in FileNames : m = << k >>
                BY <3>5 DEF NamesFor, Name
            <4>3. m \in Names /\ m[1] = k
                BY <4>2 DEF Names
            <4> QED
                BY <1>0, <4>1, <4>3 DEF Named
        <3> QED
            BY <3>4, <3>5
    <2>4. new \in Seq(Names) /\ Len(new) = 1 /\ new[1] = m
        BY <2>2, <2>3
    <2>5. \A i \in 1..1 : i = 1
        OBVIOUS
    <2>6. Renames(names, new)
        BY <2>1, <2>3, <2>4, <2>5 DEF Renames
    <2>7. Range(names) \subseteq NamesIn(t, dir)
        <3>1. \A x : x \in Range(names) => x = n
            <4>1. \A x : x \in Range(names) <=> \E i \in 1..Len(names) : x = names[i]
                BY <2>1, RangeIs
            <4> QED
                BY <2>1, <2>5, <4>1
        <3> QED
            BY <3>1
    <2> QED
        BY <2>6, <2>7
<1>2. CASE \E k \in 2..MaxItems : names \in [1..k -> NamesIn(t, dir)] /\ IsInjective(names)
    <2> PICK k \in 2..MaxItems : names \in [1..k -> NamesIn(t, dir)] /\ IsInjective(names)
        BY <1>2
    <2>1. k \in Nat /\ k # 1
        BY <1>0
    <2>2. names \in Seq(NamesIn(t, dir)) /\ Len(names) = k
        BY <2>1
    <2>3. names \in Seq(Names) /\ Range(names) \subseteq NamesIn(t, dir) /\ DOMAIN names = 1..k
        <3>1. names \in [1..k -> Names]
            BY <1>0
        <3> QED
            BY <2>1, <2>2, <3>1, RangeIs
    <2>4. new = names
        BY <2>1, <2>2 DEF NewNames
    <2>5. \A i, j \in 1..k : names[i] = names[j] => i = j
        BY <2>3 DEF IsInjective
    <2> QED
        BY <2>2, <2>3, <2>4, <2>5 DEF Renames
<1> QED
    BY <1>1, <1>2 DEF Selected

----------------------------------------------------------------------------
\* move_file and move_dir in one library: what is moved is at its new place, or was replaced, or
\* was moved into itself.
LEMMA MoveKeeps ==
    ASSUME OpsConstants, NEW t \in Trees, NEW src \in Paths, NEW dst \in Paths, HasDir(t, dst),
           NEW names, NEW new, Renames(names, new), Range(names) \subseteq NamesIn(t, src),
           NEW replace \in BOOLEAN, Room(t, dst, Items(t, src, names, new), replace)
    PROVE  LET u == MovedTree(t, src, names, dst, new, replace) IN
           /\ u \in Trees
           /\ FilesOf(t) \subseteq FilesOf(u) \cup Replaced(t, dst, Range(new), replace)
                 \cup (IF OntoItself(src, names, dst, new, replace)
                       THEN FilesBelow(t, src, Range(names)) ELSE {})
<1> PICK items, v, u : /\ items = Items(t, src, names, new) /\ v = AddEntries(t, dst, items, replace)
                       /\ u = MovedTree(t, src, names, dst, new, replace)
    OBVIOUS
<1> PICK len : len = Len(names)
    OBVIOUS
<1>0. /\ len \in Nat /\ Range(names) \subseteq Names
      /\ \A n : n \in Range(names) <=> \E i \in 1..len : n = names[i]
      /\ \A i \in 1..len : names[i] \in Names /\ names[i] \in Range(names)
      /\ \A i \in 1..len : new[i] \in Range(new)
    BY RangeIs DEF Renames
<1>1. /\ Len(items) = len /\ Fitting(items) /\ Distinct(items)
      /\ \A i \in 1..len : items[i].name = new[i] /\ items[i].node = NodeAt(t, Child(src, names[i]))
    BY ItemsAre
<1>2. AddedTo(t, v, dst, items, replace, len)
    BY <1>1, AddEntriesIs
<1>3. v \in Trees /\ \A i \in 1..len : Placed(t, v, dst, items, replace, i)
    BY <1>1, <1>2 DEF AddedTo
<1>4. \A e \in t : e.id # DirId => e \in v \/ e.id \in Replaced(t, dst, Range(new), replace)
    <2>1. \A i \in 1..len : items[i].name \in Range(new)
        BY <1>0, <1>1
    <2> QED
        BY <1>1, <1>2, <2>1, AddKeeps
<1>5. u = DelEntries(v, src, Range(names)) /\ u \in Trees
    <2>1. u = DelEntries(v, src, Range(names))
        BY DEF MovedTree
    <2> QED
        BY <1>0, <1>3, <2>1, DelKeeps
<1>6. u = {e \in v : ~ \E n \in Range(names) : IsPrefix(Child(src, n), e.path)}
    BY <1>5 DEF DelEntries
<1> SUFFICES ASSUME NEW e \in t, e.id # DirId, e.id \notin FilesOf(u),
                    e.id \notin Replaced(t, dst, Range(new), replace)
             PROVE  /\ OntoItself(src, names, dst, new, replace)
                    /\ e.id \in FilesBelow(t, src, Range(names))
    BY <1>5 DEF FilesOf
<1>7. e.path \in Paths /\ e = Entry(e.path, e.id)
    <2>1. e \in [path : Paths, id : EntryIds]
        BY TreeIs, EntriesAre
    <2> QED
        BY <2>1, EntryOf
<1>8. PICK i \in 1..len : IsPrefix(Child(src, names[i]), e.path)
    <2>1. e \in v /\ e \notin u
        BY <1>4 DEF FilesOf
    <2> QED
        BY <1>0, <1>6, <2>1
<1> PICK a : a = Child(src, names[i])
    OBVIOUS
<1>9. /\ a \in Paths /\ a # << >> /\ IsPrefix(src, a)
    BY <1>0, Children
<1>10. e.id \in FilesBelow(t, src, Range(names))
    <2>1. e.id \in FilesOf(NodeAt(t, a))
        BY <1>8, <1>9, NodeOfTree
    <2> QED
        BY <1>0, <2>1 DEF FilesBelow
<1>11. PICK q \in Paths : e.path = a \o q
    <2>1. SubSeq(e.path, Len(a) + 1, Len(e.path)) \in Paths
          /\ e.path = a \o SubSeq(e.path, Len(a) + 1, Len(e.path))
        BY <1>7, <1>8, <1>9, Rest
    <2> QED
        BY <2>1
<1>12. Entry(q, e.id) \in items[i].node
    <2>1. Entry(q, e.id) \in NodeAt(t, a) <=> Entry(a \o q, e.id) \in t
        BY <1>9, NodeHas
    <2> QED
        BY <1>1, <1>7, <1>11, <2>1
<1>13. PICK m \in Names : /\ replace => m = new[i]
                          /\ ~replace => m \notin NamesIn(t, dst)
                          /\ \A g \in items[i].node : Entry(Child(dst, m) \o g.path, g.id) \in v
    BY <1>1, <1>3 DEF Placed
<1> PICK c, f : c = Child(dst, m) /\ f = Entry(c \o q, e.id)
    OBVIOUS
<1>14. /\ c \in Paths /\ c \o q \in Paths /\ IsPrefix(c, c \o q)
       /\ f.path = c \o q /\ f.id = e.id /\ f \in v
    <2>1. c \in Paths
        BY Children
    <2>2. f.path = c \o q /\ f.id = e.id /\ Entry(q, e.id).path = q /\ Entry(q, e.id).id = e.id
        BY EntryIs
    <2>3. f \in v
        BY <1>12, <1>13, <2>2
    <2> QED
        BY <2>1, <2>2, <2>3, PathJoin
<1>15. PICK n \in Range(names) : IsPrefix(Child(src, n), c \o q)
    <2>1. f \notin u
        BY <1>14 DEF FilesOf
    <2> QED
        BY <1>6, <1>14, <2>1
<1> PICK b : b = Child(src, n)
    OBVIOUS
<1>16. /\ n \in Names /\ n \in NamesIn(t, src)
       /\ b \in Paths /\ \A o \in Paths : IsPrefix(o, b) /\ o # b => IsPrefix(o, src)
       /\ \A d \in Paths, o \in Names : b = Child(d, o) => src = d /\ n = o
    <2>1. n \in Names /\ n \in NamesIn(t, src)
        BY <1>0
    <2>2. \A d \in Paths, o \in Names : Child(src, n) = Child(d, o) => src = d /\ n = o
        BY <2>1, Children
    <2>3. b \in Paths /\ \A o \in Paths : IsPrefix(o, b) /\ o # b => IsPrefix(o, src)
        BY <2>1, Children
    <2> QED
        BY <2>1, <2>2, <2>3
<1>17. IsPrefix(b, c) \/ IsPrefix(c, b)
    BY <1>14, <1>15, <1>16, Comparable
<1>18. ASSUME b = c PROVE OntoItself(src, names, dst, new, replace)
    <2>1. src = dst /\ n = m
        BY <1>16, <1>18
    <2>2. replace /\ n \in Range(new)
        BY <1>0, <1>13, <1>16, <2>1
    <2> QED
        BY <2>1, <2>2 DEF OntoItself
<1>19. ASSUME b # c, IsPrefix(b, c) PROVE OntoItself(src, names, dst, new, replace)
    <2>1. IsPrefix(b, dst)
        BY <1>16, <1>19, Children
    <2> QED
        BY <2>1 DEF OntoItself
<1>20. ASSUME b # c, IsPrefix(c, b) PROVE FALSE
    <2>1. IsPrefix(c, src)
        BY <1>14, <1>16, <1>20
    <2>2. IsPrefix(c, a)
        BY <1>9, <1>14, <2>1, Comparable
    <2>3. IsPrefix(c, e.path)
        BY <1>7, <1>8, <1>9, <1>14, <2>2, Comparable
    <2>4. m \in NamesIn(t, dst)
        BY <2>3, NothingBelow
    <2>5. c # << >>
        BY Children
    <2>6. e.id \in FilesOf(NodeAt(t, c))
        BY <1>14, <2>3, <2>5, NodeOfTree
    <2>7. replace /\ m \in Range(new)
        BY <1>0, <1>13, <2>4
    <2> QED
        BY <2>6, <2>7 DEF Replaced
<1> QED
    BY <1>10, <1>17, <1>18, <1>19, <1>20

----------------------------------------------------------------------------
\* The inductive invariant
HistOK == hist \in [Opened -> Seq(Trees) \ {<< >>}]

FilesKept == \A l \in Opened : \A i \in DOMAIN hist[l] : FilesOf(hist[l][i]) \subseteq Versions \cup gone

\* The task: its arguments
TaskTypes(k) ==
    /\ k = [pc |-> k.pc, move |-> k.move, kind |-> k.kind, src |-> k.src, sdir |-> k.sdir,
            names |-> k.names, dst |-> k.dst, ddir |-> k.ddir, new |-> k.new,
            replace |-> k.replace, base |-> k.base, items |-> k.items]
    /\ k.pc \in {"queued", "copy", "put", "delete", "ended"}
    /\ k.src \in Opened /\ k.dst \in Opened /\ k.src # k.dst
    /\ k.sdir \in Paths /\ k.ddir \in Paths /\ k.replace \in BOOLEAN
    /\ Renames(k.names, k.new)

\* what it has read at the source,
ItemsOK(k) ==
    /\ Len(k.items) = Len(k.names) /\ DOMAIN k.items = 1..Len(k.names)
    /\ Fitting(k.items) /\ Distinct(k.items)
    /\ \A i \in 1..Len(k.names) : k.items[i].name = k.new[i]

ItemsIn(k, files) == \A i \in DOMAIN k.items : FilesOf(k.items[i].node) \subseteq files

\* and where that is.
TaskOK(k, f) ==
    /\ TaskTypes(k)
    /\ k.pc \in {"copy", "put"} => k.base \in Trees /\ FilesOf(k.base) \subseteq FilesOf(Tree(k.dst)) \cup gone
    /\ k.pc \in {"copy", "put", "delete"} => ItemsOK(k)
    /\ ItemsIn(k, Versions \cup gone)
    /\ k.pc = "delete" => ItemsIn(k, FilesOf(Tree(k.dst)) \cup gone)
    /\ "successful" \in f =>
          k.pc = "ended" /\ \E i \in DOMAIN hist[k.dst] : ItemsIn(k, FilesOf(hist[k.dst][i]) \cup gone)

NoneOK(k, f) == k = NoTask /\ "successful" \notin f

OpsInv == HistOK /\ FilesKept /\ (NoneOK(task, flags) \/ TaskOK(task, flags))

\* A step adds to the histories, and loses nothing of the libraries L.
Grows(L) ==
    /\ HistOK'
    /\ \A l \in Opened : \A i \in DOMAIN hist[l] : i \in DOMAIN hist'[l] /\ hist'[l][i] = hist[l][i]
    /\ \A l \in Opened : \A i \in DOMAIN hist'[l] : i \in DOMAIN hist[l] \/ hist'[l][i] = Tree(l)'
    /\ gone \subseteq gone'
    /\ \A l \in L : FilesOf(Tree(l)) \subseteq FilesOf(Tree(l)') \cup gone'
    /\ Versions \cup gone \subseteq Versions' \cup gone'

\* Each library has a head, and all its commits are trees.
LEMMA TreeOf ==
    ASSUME HistOK, NEW l \in Opened
    PROVE  /\ hist[l] \in Seq(Trees) /\ Len(hist[l]) \in Nat \ {0} /\ DOMAIN hist[l] = 1..Len(hist[l])
           /\ Tree(l) = hist[l][Len(hist[l])] /\ Tree(l) \in Trees
           /\ \A i \in DOMAIN hist[l] : hist[l][i] \in Trees
<1>1. hist[l] \in Seq(Trees) /\ hist[l] # << >>
    BY DEF HistOK
<1>2. Len(hist[l]) \in Nat \ {0} /\ DOMAIN hist[l] = 1..Len(hist[l])
      /\ \A i \in 1..Len(hist[l]) : hist[l][i] \in Trees
    BY <1>1, RangeIs, EmptySeq
<1>3. Tree(l) = hist[l][Len(hist[l])]
    BY DEF Tree, Last
<1>4. Len(hist[l]) \in 1..Len(hist[l])
    BY <1>2
<1> QED
    BY <1>1, <1>2, <1>3, <1>4

\* The commits
LEMMA CommitGrows ==
    ASSUME HistOK, NEW l \in Opened, NEW t \in Trees, NEW removed, CommitTree(l, t, removed)
    PROVE  /\ HistOK' /\ Tree(l)' = t
           /\ \A k \in Opened : \A i \in DOMAIN hist[k] : i \in DOMAIN hist'[k] /\ hist'[k][i] = hist[k][i]
           /\ \A k \in Opened : \A i \in DOMAIN hist'[k] : i \in DOMAIN hist[k] \/ hist'[k][i] = Tree(k)'
           /\ \A k \in Opened : k # l => Tree(k)' = Tree(k)
           /\ gone' = gone \cup removed
           /\ Versions \subseteq Versions' \cup FilesOf(Tree(l))
<1>0. /\ hist \in [Opened -> Seq(Trees) \ {<< >>}]
      /\ hist' = [hist EXCEPT ![l] = Append(hist[l], t)] /\ gone' = gone \cup removed
    BY DEF CommitTree, HistOK
<1>1. /\ hist[l] \in Seq(Trees) /\ Len(hist[l]) \in Nat \ {0} /\ DOMAIN hist[l] = 1..Len(hist[l])
    BY TreeOf
<1> PICK s, n : s = Append(hist[l], t) /\ n = Len(hist[l])
    OBVIOUS
<1>2. /\ s \in Seq(Trees) \ {<< >>} /\ Len(s) = n + 1 /\ s[n + 1] = t
      /\ \A i \in 1..n : s[i] = hist[l][i]
    BY <1>1, AppendProperties
<1>3. DOMAIN s = 1..(n + 1)
    BY <1>2, RangeIs
<1>4. /\ hist'[l] = s /\ \A k \in Opened : k # l => hist'[k] = hist[k]
      /\ hist' \in [Opened -> Seq(Trees) \ {<< >>}]
    BY <1>0, <1>2
<1>5. Tree(l)' = t
    BY <1>2, <1>4 DEF Tree, Last
<1>6. \A k \in Opened : k # l => Tree(k)' = Tree(k)
    BY <1>4 DEF Tree
<1>7. \A i \in 1..n : i \in 1..(n + 1)
    BY <1>1
<1>8. \A i \in 1..(n + 1) : i \in 1..n \/ i = n + 1
    BY <1>1
<1>9. Versions \subseteq Versions' \cup FilesOf(Tree(l))
    BY <1>6 DEF Versions
<1> QED
    BY <1>0, <1>1, <1>2, <1>3, <1>4, <1>5, <1>6, <1>7, <1>8, <1>9 DEF HistOK

\* A commit that keeps the files of the head, but those it is meant to remove, loses nothing.
LEMMA OperationGrows ==
    ASSUME HistOK, NEW l \in Opened, NEW t \in Trees, NEW removed, CommitTree(l, t, removed),
           FilesOf(Tree(l)) \subseteq FilesOf(t) \cup removed
    PROVE  Grows(Opened)
<1>1. /\ HistOK' /\ Tree(l)' = t
      /\ \A k \in Opened : \A i \in DOMAIN hist[k] : i \in DOMAIN hist'[k] /\ hist'[k][i] = hist[k][i]
      /\ \A k \in Opened : \A i \in DOMAIN hist'[k] : i \in DOMAIN hist[k] \/ hist'[k][i] = Tree(k)'
      /\ \A k \in Opened : k # l => Tree(k)' = Tree(k)
      /\ gone' = gone \cup removed
      /\ Versions \subseteq Versions' \cup FilesOf(Tree(l))
    BY CommitGrows
<1>2. FilesOf(Tree(l)) \subseteq FilesOf(Tree(l)') \cup gone'
    BY <1>1
<1>3. \A k \in Opened : FilesOf(Tree(k)) \subseteq FilesOf(Tree(k)') \cup gone'
    BY <1>1, <1>2
<1>4. FilesOf(Tree(l)') \subseteq Versions'
    BY DEF Versions
<1>5. Versions \cup gone \subseteq Versions' \cup gone'
    BY <1>1, <1>2, <1>4
<1> QED
    BY <1>1, <1>3, <1>5 DEF Grows

\* Without a commit nothing is lost.
LEMMA NothingGrows == ASSUME HistOK, UNCHANGED <<hist, gone>> PROVE Grows(Opened)
<1>1. HistOK' /\ \A l : Tree(l)' = Tree(l)
    BY DEF HistOK, Tree
<1>2. Versions' = Versions
    BY <1>1 DEF Versions
<1> QED
    BY <1>1, <1>2 DEF Grows

\* When nothing is lost, what was kept still is.
LEMMA GrowsKeeps == ASSUME FilesKept, NEW L, Grows(L) PROVE FilesKept'
<1> SUFFICES ASSUME NEW l \in Opened, NEW i \in DOMAIN hist'[l]
             PROVE  FilesOf(hist'[l][i]) \subseteq Versions' \cup gone'
    BY DEF FilesKept
<1>1. FilesOf(Tree(l)') \subseteq Versions'
    BY DEF Versions
<1> QED
    BY <1>1 DEF FilesKept, Grows

\* Items stay in more files.
LEMMA ItemsStayIn ==
    ASSUME NEW k, NEW A, NEW B, ItemsIn(k, A), A \subseteq B
    PROVE  ItemsIn(k, B)
BY DEF ItemsIn

\* While libraries grow, what is known of the task stays true.
LEMMA TaskStays ==
    ASSUME NEW k, NEW f, TaskOK(k, f), Grows(Opened)
    PROVE  TaskOK(k, f)'
<1>0. k.dst \in Opened /\ k.src \in Opened
    BY DEF TaskOK, TaskTypes
<1>1. /\ \A l \in Opened : \A i \in DOMAIN hist[l] : i \in DOMAIN hist'[l] /\ hist'[l][i] = hist[l][i]
      /\ gone \subseteq gone' /\ Versions \cup gone \subseteq Versions' \cup gone'
      /\ FilesOf(Tree(k.dst)) \subseteq FilesOf(Tree(k.dst)') \cup gone'
    BY <1>0 DEF Grows
<1>2. k.pc \in {"copy", "put"} => k.base \in Trees /\ FilesOf(k.base) \subseteq FilesOf(Tree(k.dst)') \cup gone'
    BY <1>1 DEF TaskOK
<1>3. ItemsIn(k, Versions' \cup gone')
    BY <1>1, ItemsStayIn DEF TaskOK
<1>4. k.pc = "delete" => ItemsIn(k, FilesOf(Tree(k.dst)') \cup gone')
    <2>1. FilesOf(Tree(k.dst)) \cup gone \subseteq FilesOf(Tree(k.dst)') \cup gone'
        BY <1>1
    <2> QED
        BY <2>1, ItemsStayIn DEF TaskOK
<1>5. "successful" \in f =>
          k.pc = "ended" /\ \E i \in DOMAIN hist'[k.dst] : ItemsIn(k, FilesOf(hist'[k.dst][i]) \cup gone')
    <2> SUFFICES ASSUME "successful" \in f
                 PROVE  \E i \in DOMAIN hist'[k.dst] : ItemsIn(k, FilesOf(hist'[k.dst][i]) \cup gone')
        BY DEF TaskOK
    <2>1. PICK i \in DOMAIN hist[k.dst] : ItemsIn(k, FilesOf(hist[k.dst][i]) \cup gone)
        BY DEF TaskOK
    <2>2. i \in DOMAIN hist'[k.dst] /\ hist'[k.dst][i] = hist[k.dst][i]
        BY <1>0, <1>1
    <2>3. ItemsIn(k, FilesOf(hist'[k.dst][i]) \cup gone')
        <3>1. FilesOf(hist[k.dst][i]) \cup gone \subseteq FilesOf(hist'[k.dst][i]) \cup gone'
            BY <1>1, <2>2
        <3> QED
            BY <2>1, <3>1, ItemsStayIn
    <2> QED
        BY <2>2, <2>3
<1> QED
    BY <1>2, <1>3, <1>4, <1>5 DEF TaskOK

\* What users do does not touch the task.
LEMMA OtherSteps ==
    ASSUME OpsInv, Grows(Opened), UNCHANGED task, "successful" \in flags' => "successful" \in flags
    PROVE  OpsInv'
<1> PICK k, f : k = task /\ f = flags
    OBVIOUS
<1>1. NoneOK(k, f) \/ TaskOK(k, f)'
    BY TaskStays DEF OpsInv
<1>2. task' = k /\ ("successful" \in flags' => "successful" \in f)
    OBVIOUS
<1>3. TaskOK(k, f)' => TaskOK(task, flags)'
    BY <1>2 DEF TaskOK
<1>4. NoneOK(k, f) => NoneOK(task, flags)'
    BY <1>2 DEF NoneOK
<1>5. HistOK' /\ FilesKept'
    BY GrowsKeeps DEF OpsInv, Grows
<1> QED
    BY <1>1, <1>3, <1>4, <1>5 DEF OpsInv

\* An operation that keeps the files of the head, but those it is meant to remove
LEMMA OperationStep ==
    ASSUME OpsInv, NEW l \in Opened, NEW t \in Trees, NEW removed, Operation(l, t, removed),
           FilesOf(Tree(l)) \subseteq FilesOf(t) \cup removed
    PROVE  OpsInv'
<1>1. CommitTree(l, t, removed) /\ UNCHANGED <<task, flags>>
    BY DEF Operation
<1>2. Grows(Opened)
    BY <1>1, OperationGrows DEF OpsInv
<1> QED
    BY <1>1, <1>2, OtherSteps

\* A revert that keeps the files of the head, but those it is meant to remove
LEMMA RevertStep ==
    ASSUME OpsInv, NEW l \in Opened, NEW t \in Trees, NEW p, NEW node, NEW removed,
           Revert(l, t, p, node, removed), FilesOf(Tree(l)) \subseteq FilesOf(t) \cup removed
    PROVE  OpsInv'
<1>1. UNCHANGED <<task, flags>> /\ (UNCHANGED <<hist, gone>> \/ CommitTree(l, t, removed))
    BY DEF Revert
<1>2. Grows(Opened)
    BY <1>1, OperationGrows, NothingGrows DEF OpsInv
<1> QED
    BY <1>1, <1>2, OtherSteps

----------------------------------------------------------------------------
\* The operations of users

\* files and empty directories
LEMMA LeafIs ==
    ASSUME NEW x \in EntryIds
    PROVE  Leaf(x) \in Nodes /\ \A n : Named(n, x) => Fits(n, Leaf(x))
<1> PICK e : e = Entry(<< >>, x)
    OBVIOUS
<1>1. e.path = << >> /\ e.id = x
    BY EntryIs
<1>2. << >> \in Paths /\ \A q \in Paths : IsPrefix(q, << >>) => q = << >>
    BY RootIs DEF Paths
<1>3. e \in [path : Paths, id : EntryIds]
    BY <1>2, EntryOf
<1>4. Leaf(x) = {e}
    BY DEF Leaf
<1>5. Leaf(x) \in Nodes
    <2>1. Leaf(x) \subseteq [path : Paths, id : EntryIds]
        BY <1>3, <1>4
    <2>2. \A g \in Leaf(x) : /\ g.path # << >> => Named(Last(g.path), g.id)
                             /\ \A q \in Paths : IsPrefix(q, g.path) /\ q # g.path => Entry(q, DirId) \in Leaf(x)
        BY <1>1, <1>2, <1>4
    <2> QED
        BY <2>1, <2>2, NodeIs
<1> QED
    BY <1>1, <1>4, <1>5 DEF Fits

\* Names of files and of directories
LEMMA NameIs ==
    /\ \A n \in FileNames : Name(n) \in Names /\ Name(n)[1] = n /\ \A x \in FileIds : x # DirId => Named(Name(n), x)
    /\ \A n \in DirNames : Name(n) \in Names /\ Name(n)[1] = n /\ Named(Name(n), DirId)
<1>1. \A n \in FileNames \cup DirNames : Name(n) \in Names /\ Name(n)[1] = n
    BY DEF Name, Names
<1> QED
    BY <1>1 DEF Named

\* The directories that requests name are there.
LEMMA DirsAre ==
    ASSUME NEW t \in Trees, NEW dir \in Dirs(t)
    PROVE  dir \in Paths /\ HasDir(t, dir)
<1>1. dir \in DirsOf(t)
    BY DEF Dirs
<1>2. << >> \in Paths
    BY RootIs DEF Paths
<1>3. CASE dir = << >>
    BY <1>2, <1>3 DEF HasDir
<1>4. CASE \E e \in t : e.id = DirId /\ e.path = dir
    <2> PICK e \in t : e.id = DirId /\ e.path = dir
        BY <1>4
    <2>1. e \in [path : Paths, id : EntryIds]
        BY TreeIs, EntriesAre
    <2>2. e.path \in Paths /\ e = Entry(e.path, e.id)
        BY <2>1, EntryOf
    <2> QED
        BY <2>2 DEF HasDir
<1> QED
    BY <1>1, <1>3, <1>4 DEF DirsOf

\* The names in a directory are names.
LEMMA NamesAre ==
    ASSUME NEW t \in Trees, NEW dir \in Paths, NEW n \in NamesIn(t, dir)
    PROVE  n \in Names
BY NameIn

\* A tree with one more node
LEMMA MoreKeeps ==
    ASSUME NEW t \in Trees, NEW dir \in Paths, HasDir(t, dir), NEW n \in Names,
           NEW node \in Nodes, Fits(n, node)
    PROVE  LET u == Graft(t, Child(dir, n), node) IN u \in Trees /\ FilesOf(t) \subseteq FilesOf(u)
<1>1. LET u == Graft(t, Child(dir, n), node) IN u \in Trees /\ t \subseteq u
    BY GraftIs
<1> QED
    BY <1>1 DEF FilesOf

\* post_file, post_multi_files
LEMMA PostFilesStep ==
    ASSUME OpsConstants, OpsInv, NEW l \in Opened, NEW dir \in Paths, HasDir(Tree(l), dir),
           NEW x \in FileIds, NEW replace \in BOOLEAN, NEW n \in FileNames, NEW names \in {<< n >>, << n, n >>},
           PostFiles(l, dir, names, x, replace)
    PROVE  OpsInv'
<1> PICK t : t = Tree(l)
    OBVIOUS
<1>0. t \in Trees /\ dir \in Paths /\ HasDir(t, dir) /\ x \in EntryIds /\ x # DirId
    BY TreeOf DEF OpsInv, EntryIds, OpsConstants
<1> DEFINE items == [i \in DOMAIN names |-> [name |-> Name(names[i]), node |-> Leaf(x)]]
           used == {i.name : i \in Range(items)}
           u == AddEntries(t, dir, items, replace)
<1> PICK len : len = Len(names)
    OBVIOUS
<1>1. /\ len \in {1, 2} /\ DOMAIN names = 1..len /\ \A i \in 1..len : names[i] = n
    OBVIOUS
<1>2. items = [i \in 1..len |-> [name |-> Name(n), node |-> Leaf(x)]]
    BY <1>1
<1>3. /\ Len(items) = len /\ DOMAIN items = 1..len
      /\ \A i \in 1..len : items[i].name = Name(n) /\ items[i].node = Leaf(x)
    BY <1>1, <1>2
<1>4. Room(t, dir, items, replace) /\ Operation(l, u, Replaced(t, dir, used, replace))
    BY DEF PostFiles
<1> HIDE DEF items
<1>5. Fitting(items)
    <2>1. Leaf(x) \in Nodes /\ Name(n) \in Names /\ Fits(Name(n), Leaf(x))
        BY <1>0, LeafIs, NameIs
    <2> QED
        BY <1>1, <1>3, <2>1 DEF Fitting
<1>6. AddedTo(t, u, dir, items, replace, Len(items))
    BY <1>0, <1>4, <1>5, AddEntriesIs
<1>7. \A i \in 1..Len(items) : items[i].name \in used
    BY <1>3 DEF Range
<1> HIDE DEF used, u
<1>8. FilesOf(t) \subseteq FilesOf(u) \cup Replaced(t, dir, used, replace)
    BY <1>0, <1>5, <1>6, <1>7, AddKeeps
<1>9. u \in Trees
    BY <1>6 DEF AddedTo
<1> QED
    BY <1>4, <1>8, <1>9, OperationStep

\* put_file: the old version of the file is meant to go.
LEMMA UpdateFileStep ==
    ASSUME OpsConstants, OpsInv, NEW l \in Opened, NEW dir \in Dirs(Tree(l)), NEW x \in FileIds,
           NEW n \in NamesIn(Tree(l), dir), UpdateFile(l, dir, n, x)
    PROVE  OpsInv'
<1> PICK t : t = Tree(l)
    OBVIOUS
<1>0. t \in Trees /\ dir \in Paths /\ HasDir(t, dir) /\ n \in Names
    BY TreeOf, DirsAre, NamesAre DEF OpsInv
<1> PICK p, u : p = Child(dir, n) /\ u = PutFile(t, p, x)
    OBVIOUS
<1>1. HasFile(t, p) /\ Operation(l, u, FilesOf(NodeAt(t, p)))
    BY DEF UpdateFile
<1>2. n[1] \in FileNames
    <2>1. PICK e \in t : e.path = p /\ e.id # DirId
        BY <1>1 DEF HasFile
    <2>2. Named(Last(p), e.id) /\ Last(p) = n
        BY <1>0, <2>1, TreeIs, EntriesAre, Children
    <2> QED
        BY <2>1, <2>2 DEF Named
<1>3. u \in Trees /\ FilesOf(t) \subseteq FilesOf(u) \cup FilesOf(NodeAt(t, p))
    BY <1>0, <1>2, PutKeeps
<1> QED
    BY <1>1, <1>3, OperationStep

\* post_dir, post_empty_file
LEMMA PostStep ==
    ASSUME OpsConstants, OpsInv, NEW l \in Opened, NEW dir \in Dirs(Tree(l)), NEW n,
           \/ n \in DirNames /\ PostDir(l, dir, n)
           \/ n \in FileNames /\ \E x \in FileIds : PostEmptyFile(l, dir, n, x)
    PROVE  OpsInv'
<1> PICK t : t = Tree(l)
    OBVIOUS
<1>0. t \in Trees /\ dir \in Paths /\ HasDir(t, dir)
    BY TreeOf, DirsAre DEF OpsInv
<1>1. PICK x \in EntryIds : /\ Operation(l, Graft(t, Child(dir, Name(n)), Leaf(x)), {})
                       /\ Name(n) \in Names /\ Named(Name(n), x)
    <2>1. CASE n \in DirNames /\ PostDir(l, dir, n)
        <3>1. DirId \in EntryIds /\ EmptyDir = Leaf(DirId)
            BY DEF EntryIds, EmptyDir
        <3> QED
            BY <2>1, <3>1, NameIs DEF PostDir
    <2>2. CASE n \in FileNames /\ \E x \in FileIds : PostEmptyFile(l, dir, n, x)
        <3>1. \A x \in FileIds : x \in EntryIds /\ x # DirId
            BY DEF EntryIds, OpsConstants
        <3> QED
            BY <2>2, <3>1, NameIs DEF PostEmptyFile
    <2> QED
        BY <2>1, <2>2
<1>2. Leaf(x) \in Nodes /\ Fits(Name(n), Leaf(x))
    BY <1>1, LeafIs
<1> PICK u : u = Graft(t, Child(dir, Name(n)), Leaf(x))
    OBVIOUS
<1>3. u \in Trees /\ FilesOf(t) \subseteq FilesOf(u)
    BY <1>0, <1>1, <1>2, MoreKeeps
<1>4. Operation(l, u, {}) /\ FilesOf(Tree(l)) \subseteq FilesOf(u) \cup {}
    BY <1>1, <1>3
<1> QED
    BY <1>3, <1>4, OperationStep

\* mkdir_with_parents: one or two directories
LEMMA MkdirStep ==
    ASSUME OpsConstants, OpsInv, NEW l \in Opened, NEW n \in DirNames, NEW m \in DirNames,
           MkdirWithParents(l, << >>, <<Name(n), Name(m)>>)
    PROVE  OpsInv'
<1> PICK t, a, c : t = Tree(l) /\ a = Child(<< >>, Name(n)) /\ c = Child(a, Name(m))
    OBVIOUS
<1>0. t \in Trees /\ << >> \in Paths /\ HasDir(t, << >>) /\ DirId \in EntryIds
    BY TreeOf, RootIs DEF OpsInv, HasDir, EntryIds, Paths
<1>1. /\ Name(n) \in Names /\ Name(m) \in Names /\ Leaf(DirId) \in Nodes
      /\ Fits(Name(n), Leaf(DirId)) /\ Fits(Name(m), Leaf(DirId))
    BY <1>0, NameIs, LeafIs
<1>2. a \in Paths /\ c \in Paths /\ a # << >> /\ c # << >>
    BY <1>0, <1>1, Children
<1> DEFINE path == <<Name(n), Name(m)>>
           made == {<< >> \o SubSeq(path, 1, i) : i \in 1..Len(path)}
           missing == {p \in made : ~Has(t, p)}
<1>3. /\ \A p \in made \ missing : HasDir(t, p)
      /\ Operation(l, t \cup {Entry(p, DirId) : p \in missing}, {})
    BY DEF MkdirWithParents
<1>4. made = {a, c}
    <2> PICK x, y, q : x = Name(n) /\ y = Name(m) /\ q = <<x, y>>
        OBVIOUS
    <2>0. x \in Names /\ y \in Names
        BY <1>1
    <2>1. q \in Seq(Names) /\ Len(q) = 2 /\ q[1] = x /\ q[2] = y
        BY <2>0
    <2>2. /\ a \in Seq(Names) /\ Len(a) = 1 /\ a[1] = x
          /\ c \in Seq(Names) /\ Len(c) = 2 /\ c[1] = x /\ c[2] = y
        <3>0. << >> \in Seq(Names) /\ Len(<< >>) = 0 /\ a = Append(<< >>, x) /\ c = Append(a, y)
            BY DEF Child
        <3>1. a \in Seq(Names) /\ Len(a) = 0 + 1 /\ a[0 + 1] = x
            BY <2>0, <3>0, AppendProperties
        <3>2. Len(a) = 1 /\ a[1] = x /\ 1 \in 1..Len(a)
            BY <3>1
        <3>3. c \in Seq(Names) /\ Len(c) = Len(a) + 1 /\ c[1] = a[1] /\ c[Len(a) + 1] = y
            BY <2>0, <3>0, <3>1, <3>2, AppendProperties
        <3>4. Len(c) = 1 + 1 /\ c[1 + 1] = y
            BY <3>2, <3>3
        <3>6. 1 + 1 = 2
            OBVIOUS
        <3>5. Len(c) = 2 /\ c[2] = y
            BY <3>4, <3>6
        <3> QED
            BY <3>1, <3>2, <3>3, <3>5
    <2>3. SubSeq(q, 1, 1) = a
        <3>1. 1 \in 0..Len(q)
            BY <2>1
        <3>2. SubSeq(q, 1, 1) \in Seq(Names) /\ Len(SubSeq(q, 1, 1)) = 1 /\ \A i \in 1..1 : SubSeq(q, 1, 1)[i] = q[i]
            BY <2>1, <3>1, Cut
        <3>3. \A i \in 1..1 : SubSeq(q, 1, 1)[i] = a[i]
            BY <2>1, <2>2, <3>2
        <3> QED
            BY <2>2, <3>2, <3>3, SeqEqual
    <2>7. SubSeq(q, 1, 2) = c
        <3>1. SubSeq(q, 1, 2) = q
            BY <2>1, SubSeqFull
        <3>2. \A i \in 1..2 : q[i] = c[i]
            <4>1. \A i \in 1..2 : i = 1 \/ i = 2
                OBVIOUS
            <4> QED
                BY <2>1, <2>2, <4>1
        <3> QED
            BY <2>1, <2>2, <3>1, <3>2, SeqEqual
    <2>8. << >> \o a = a /\ << >> \o c = c
        BY <1>2, RootIs
    <2>4. Len(path) = 2 /\ \A i \in 1..2 : i = 1 \/ i = 2
        OBVIOUS
    <2>5. made = {<< >> \o SubSeq(q, 1, i) : i \in 1..2}
        BY <2>4
    <2> HIDE DEF made
    <2>6. << >> \o SubSeq(q, 1, 1) = a /\ << >> \o SubSeq(q, 1, 2) = c
        BY <2>3, <2>7, <2>8
    <2> QED
        BY <2>4, <2>5, <2>6
<1> PICK u : u = t \cup {Entry(p, DirId) : p \in missing}
    OBVIOUS
<1>5. u = t \cup {Entry(a, DirId), Entry(c, DirId)}
    <2>1. \A p \in made \ missing : Entry(p, DirId) \in t
        BY <1>2, <1>3, <1>4 DEF HasDir
    <2>2. missing \subseteq made
        OBVIOUS
    <2> HIDE DEF missing, made
    <2> QED
        BY <1>4, <2>1, <2>2
<1> PICK v : v = Graft(t, a, Leaf(DirId))
    OBVIOUS
<1>6. \A g, p : p \in Paths => Graft(g, p, Leaf(DirId)) = g \cup {Entry(p, DirId)}
    <2>1. Entry(<< >>, DirId).path = << >> /\ Entry(<< >>, DirId).id = DirId
        BY EntryIs
    <2>2. \A p \in Paths : p \o << >> = p
        BY RootIs
    <2> QED
        BY <2>1, <2>2 DEF Graft, Leaf
<1>7. v \in Trees /\ FilesOf(t) \subseteq FilesOf(v) /\ HasDir(v, a)
    <2>1. v \in Trees /\ FilesOf(t) \subseteq FilesOf(v)
        BY <1>0, <1>1, MoreKeeps
    <2>2. HasDir(v, a)
        BY <1>2, <1>6 DEF HasDir
    <2> QED
        BY <2>1, <2>2
<1>8. u = Graft(v, c, Leaf(DirId))
    BY <1>2, <1>5, <1>6
<1>9. u \in Trees /\ FilesOf(v) \subseteq FilesOf(u)
    <2>1. LET g == Graft(v, Child(a, Name(m)), Leaf(DirId)) IN g \in Trees /\ FilesOf(v) \subseteq FilesOf(g)
        BY <1>1, <1>2, <1>7, MoreKeeps
    <2> QED
        BY <1>8, <2>1
<1>10. Operation(l, u, {}) /\ FilesOf(Tree(l)) \subseteq FilesOf(u) \cup {}
    BY <1>3, <1>7, <1>9
<1> QED
    BY <1>9, <1>10, OperationStep

\* del_file
LEMMA DelFileStep ==
    ASSUME OpsConstants, OpsInv, NEW l \in Opened, NEW dir \in Dirs(Tree(l)),
           NEW names \in Selected(Tree(l), dir), DelFile(l, dir, Range(names))
    PROVE  OpsInv'
<1> PICK t : t = Tree(l)
    OBVIOUS
<1>0. t \in Trees /\ dir \in Paths
    BY TreeOf, DirsAre DEF OpsInv
<1>1. Range(names) \in SUBSET Names
    <2>1. Range(names) \subseteq NamesIn(t, dir)
        <3>1. \E new : new \in NewNames(t, dir, names) \/ Len(names) = 1
            BY DEF NewNames
        <3>2. CASE Len(names) # 1
            BY <1>0, <3>2, SelectedAre DEF NewNames
        <3>3. CASE Len(names) = 1
            <4>1. names \in {<<n>> : n \in NamesIn(t, dir)} \/ \E k \in 2..MaxItems : names \in [1..k -> NamesIn(t, dir)]
                BY DEF Selected
            <4>2. \A n \in NamesIn(t, dir) : Range(<<n>>) \subseteq NamesIn(t, dir)
                BY DEF Range
            <4>3. \A k \in 2..MaxItems : \A q \in [1..k -> NamesIn(t, dir)] : Range(q) \subseteq NamesIn(t, dir)
                BY DEF Range
            <4> QED
                BY <4>1, <4>2, <4>3
        <3> QED
            BY <3>2, <3>3
    <2> QED
        BY <1>0, <2>1, NamesAre
<1> PICK u, names1 : u = DelEntries(t, dir, names1) /\ names1 = Range(names)
    OBVIOUS
<1>2. Operation(l, u, FilesBelow(t, dir, names1))
    BY DEF DelFile, FilesBelow
<1>3. u \in Trees /\ FilesOf(t) \subseteq FilesOf(u) \cup FilesBelow(t, dir, names1)
    BY <1>0, <1>1, DelKeeps
<1> QED
    BY <1>2, <1>3, OperationStep

\* rename_file
LEMMA RenameFileStep ==
    ASSUME OpsConstants, OpsInv, NEW l \in Opened, NEW dir \in Dirs(Tree(l)),
           NEW n \in NamesIn(Tree(l), dir), NEW m \in NamesFor(Tree(l), dir, n), RenameFile(l, dir, n, m)
    PROVE  OpsInv'
<1> PICK t : t = Tree(l)
    OBVIOUS
<1>0. t \in Trees /\ dir \in Paths /\ HasDir(t, dir) /\ n \in Names
    BY TreeOf, DirsAre, NamesAre DEF OpsInv
<1>1. m \in Names /\ Fits(m, NodeAt(t, Child(dir, n)))
    <2>1. << n >> \in Selected(t, dir)
        BY DEF Selected
    <2>2. << m >> \in NewNames(t, dir, << n >>)
        BY DEF NewNames
    <2>3. Renames(<< n >>, << m >>)
        BY <1>0, <2>1, <2>2, SelectedAre
    <2>4. m \in Names /\ \A id \in EntryIds : Named(n, id) => Named(m, id)
        <3>1. 1 \in 1..Len(<< n >>) /\ << n >>[1] = n /\ << m >>[1] = m /\ Len(<< m >>) = 1
            OBVIOUS
        <3> PICK a, c : a = << n >> /\ c = << m >>
            OBVIOUS
        <3>2. 1 \in 1..Len(a) /\ a[1] = n /\ c[1] = m /\ 1 \in 1..Len(c) /\ Renames(a, c)
            BY <2>3, <3>1
        <3>3. \A id \in EntryIds : Named(a[1], id) => Named(c[1], id)
            BY <3>2 DEF Renames
        <3>4. c[1] \in Names
            BY <3>2, RangeIs DEF Renames
        <3> QED
            BY <3>2, <3>3, <3>4
    <2>5. Child(dir, n) \in Paths /\ Child(dir, n) # << >> /\ Last(Child(dir, n)) = n
        BY <1>0, Children
    <2> PICK node : node = NodeAt(t, Child(dir, n))
        OBVIOUS
    <2>6. node \in Nodes /\ Fits(n, node)
        BY <1>0, <2>5, NodeOfTree
    <2>7. \A e \in node : e.id \in EntryIds
        BY <2>6, NodeIs
    <2> QED
        BY <2>4, <2>6, <2>7 DEF Fits
<1> PICK u : u = Rename(t, dir, n, m)
    OBVIOUS
<1>2. u \in Trees /\ FilesOf(t) \subseteq FilesOf(u)
    BY <1>0, <1>1, RenameKeeps
<1>3. Operation(l, u, {}) /\ FilesOf(Tree(l)) \subseteq FilesOf(u) \cup {}
    BY <1>2 DEF RenameFile
<1> QED
    BY <1>2, <1>3, OperationStep

\* copy_file in one library
LEMMA CopyStep ==
    ASSUME OpsConstants, OpsInv, NEW l \in Opened, NEW src \in Dirs(Tree(l)), NEW dst \in Dirs(Tree(l)),
           NEW names \in Selected(Tree(l), src), NEW new \in NewNames(Tree(l), src, names),
           CopyInRepo(l, src, names, dst, new)
    PROVE  OpsInv'
<1> PICK t, items : t = Tree(l) /\ items = Items(t, src, names, new)
    OBVIOUS
<1>0. t \in Trees /\ src \in Paths /\ dst \in Paths /\ HasDir(t, dst)
    BY TreeOf, DirsAre DEF OpsInv
<1>1. Renames(names, new)
    BY <1>0, SelectedAre
<1>2. Fitting(items)
    BY <1>0, <1>1, ItemsAre
<1> PICK u : u = AddEntries(t, dst, items, FALSE)
    OBVIOUS
<1>3. Room(t, dst, items, FALSE) /\ Operation(l, u, {})
    BY DEF CopyInRepo, Into
<1>4. AddedTo(t, u, dst, items, FALSE, Len(items))
    BY <1>0, <1>2, <1>3, AddEntriesIs
<1> PICK given : given = {items[i].name : i \in 1..Len(items)}
    OBVIOUS
<1>5. u \in Trees
    BY <1>4 DEF AddedTo
<1>6. Keeps(t, u, dst, items, FALSE, Len(items))
    BY <1>4 DEF AddedTo
<1>7. t \subseteq u
    BY <1>6 DEF Keeps
<1>8. FilesOf(Tree(l)) \subseteq FilesOf(u) \cup {}
    BY <1>7 DEF FilesOf
<1> QED
    BY <1>3, <1>5, <1>8, OperationStep

\* move_file in one library
LEMMA MoveStep ==
    ASSUME OpsConstants, OpsInv, NEW l \in Opened, NEW src \in Dirs(Tree(l)), NEW dst \in Dirs(Tree(l)),
           NEW names \in Selected(Tree(l), src), NEW new \in NewNames(Tree(l), src, names),
           NEW replace \in BOOLEAN, MoveInRepo(l, src, names, dst, new, replace)
    PROVE  OpsInv'
<1> PICK t : t = Tree(l)
    OBVIOUS
<1>0. t \in Trees /\ src \in Paths /\ dst \in Paths /\ HasDir(t, dst)
    BY TreeOf, DirsAre DEF OpsInv
<1>1. Renames(names, new) /\ Range(names) \subseteq NamesIn(t, src)
    BY <1>0, SelectedAre
<1> PICK u, removed :
        /\ u = MovedTree(t, src, names, dst, new, replace)
        /\ removed = Replaced(t, dst, Range(new), replace)
                     \cup (IF OntoItself(src, names, dst, new, replace)
                           THEN FilesBelow(t, src, Range(names)) ELSE {})
    OBVIOUS
<1>2. Room(t, dst, Items(t, src, names, new), replace) /\ Operation(l, u, removed)
    BY DEF MoveInRepo, Into, FilesBelow
<1>3. u \in Trees /\ FilesOf(t) \subseteq FilesOf(u) \cup removed
    <2>1. /\ u \in Trees
          /\ FilesOf(t) \subseteq FilesOf(u) \cup Replaced(t, dst, Range(new), replace)
                 \cup (IF OntoItself(src, names, dst, new, replace)
                       THEN FilesBelow(t, src, Range(names)) ELSE {})
        BY <1>0, <1>1, <1>2, MoveKeeps
    <2> QED
        BY <2>1
<1> QED
    BY <1>2, <1>3, OperationStep

\* An old commit: a tree that is not the head
LEMMA OldTree ==
    ASSUME OpsInv, NEW l \in Opened, NEW k \in 1..Len(hist[l])
    PROVE  hist[l][k] \in Trees
BY TreeOf DEF OpsInv

\* Where a revert puts the old version
LEMMA RevertToIs ==
    ASSUME NEW t \in Trees, NEW p \in Paths \ {<< >>}, NEW i \in Nat
    PROVE  LET dir == RevertTo(t, p)
               n == Numbered(Last(p), i)
           IN  /\ dir \in Paths /\ HasDir(t, dir) /\ n \in Names /\ n[1] = Last(p)[1]
               /\ RevertPath(t, p, i) = Child(dir, n)
               /\ Last(p) \in Names /\ p = Child(Front(p), Last(p)) /\ Front(p) \in Paths
<1>1. Last(p) \in Names /\ p = Child(Front(p), Last(p)) /\ Front(p) \in Paths
    BY Parent DEF Paths
<1>2. RevertTo(t, p) \in Paths /\ HasDir(t, RevertTo(t, p))
    BY <1>1, RootIs DEF RevertTo, HasDir, Paths
<1> QED
    BY <1>1, <1>2, NumberedIs DEF RevertPath

\* revert_dir: the old directory gets a free place, or is there already.
LEMMA RevertDirStep ==
    ASSUME OpsConstants, OpsInv, NEW l \in Opened, NEW k \in 1..Len(hist[l]), NEW e \in hist[l][k],
           RevertDir(l, k, e.path)
    PROVE  OpsInv'
<1> PICK t, h, p : t = Tree(l) /\ h = hist[l][k] /\ p = e.path
    OBVIOUS
<1>0. t \in Trees /\ h \in Trees /\ p \in Paths \ {<< >>}
    <2>1. t \in Trees /\ h \in Trees
        BY TreeOf, OldTree DEF OpsInv
    <2>2. e \in [path : Paths, id : EntryIds] /\ p # << >>
        BY <2>1, TreeIs, EntriesAre
    <2> QED
        BY <2>1, <2>2
<1> PICK node, fits, i : node = NodeAt(h, p) /\ fits = DirFits(t, p, node) /\ i = First(fits)
    OBVIOUS
<1>1. fits # {} /\ fits \subseteq Nat
    <2>1. fits # {}
        BY DEF RevertDir
    <2>2. fits \subseteq 0..LastSuffix /\ LastSuffix \in Nat
        BY DEF DirFits, OpsConstants
    <2> QED
        BY <2>1, <2>2
<1>2. i \in Nat
    BY <1>1, FirstIs
<1> PICK dir, n, u : /\ dir = RevertTo(t, p) /\ n = Numbered(Last(p), i)
                     /\ u = RevertedDir(t, p, node)
    OBVIOUS
<1>3. /\ dir \in Paths /\ HasDir(t, dir) /\ n \in Names /\ n[1] = Last(p)[1]
      /\ RevertPath(t, p, i) = Child(dir, n)
    BY <1>0, <1>2, RevertToIs
<1>4. node \in Nodes /\ Fits(n, node)
    <2>1. node \in Nodes /\ Fits(Last(p), node)
        BY <1>0, NodeOfTree
    <2> QED
        BY <1>3, <2>1, FitsAs
<1>5. u = Graft(t, Child(dir, n), node)
    BY <1>3 DEF RevertedDir
<1>6. u \in Trees /\ FilesOf(t) \subseteq FilesOf(u)
    BY <1>3, <1>4, <1>5, <1>0, MoreKeeps
<1>7. Revert(l, u, p, node, {}) /\ FilesOf(Tree(l)) \subseteq FilesOf(u) \cup {}
    BY <1>6 DEF RevertDir
<1> QED
    BY <1>6, <1>7, RevertStep

\* A file that was put is in the tree.
LEMMA PutHas ==
    ASSUME OpsConstants, NEW t, NEW p, NEW x \in FileIds
    PROVE  x \in FilesOf(PutFile(t, p, x))
<1> PICK e : e = Entry(p, x)
    OBVIOUS
<1>1. e \in PutFile(t, p, x) /\ e.id = x /\ x # DirId
    BY EntryIs DEF PutFile, OpsConstants
<1> QED
    BY <1>1 DEF FilesOf

\* revert_file: the version at the place of the file is meant to go; in the root none goes.
LEMMA RevertFileStep ==
    ASSUME OpsConstants, OpsInv, NEW l \in Opened, NEW k \in 1..Len(hist[l]), NEW e \in hist[l][k],
           RevertFile(l, k, e.path)
    PROVE  OpsInv'
<1> PICK t, h, p : t = Tree(l) /\ h = hist[l][k] /\ p = e.path
    OBVIOUS
<1>0. t \in Trees /\ h \in Trees /\ p \in Paths \ {<< >>}
    <2>1. t \in Trees /\ h \in Trees
        BY TreeOf, OldTree DEF OpsInv
    <2>2. e \in [path : Paths, id : EntryIds] /\ p # << >>
        BY <2>1, TreeIs, EntriesAre
    <2> QED
        BY <2>1, <2>2
<1> PICK node, over : node = NodeAt(h, p) /\ over = NodeAt(t, p)
    OBVIOUS
<1>x. PICK x : x = CHOOSE y \in FilesOf(node) : TRUE
    OBVIOUS
<1> PICK removed, u, fits : /\ removed = (IF IsDirNode(over) THEN {} ELSE FilesOf(over))
                            /\ u = RevertedFile(t, p, x) /\ fits = FileFits(t, p, x)
    OBVIOUS
<1>1. HasFile(h, p) /\ fits # {} /\ Revert(l, u, p, node, removed)
    BY <1>x DEF RevertFile
<1>2. PICK g \in h : g.path = p /\ g.id # DirId
    BY <1>1 DEF HasFile
<1>3. Named(Last(p), g.id) /\ g.id \in EntryIds
    <2>1. Named(Last(g.path), g.id) /\ g \in [path : Paths, id : EntryIds]
        BY <1>0, TreeIs, EntriesAre
    <2>2. g.id \in EntryIds
        BY <2>1
    <2> QED
        BY <1>2, <2>1, <2>2
<1>4. Last(p)[1] \in FileNames
    BY <1>2, <1>3 DEF Named
<1>5. x \in FileIds
    <2>1. node \in Nodes
        BY <1>0, NodeOfTree
    <2>2. FilesOf(node) \subseteq FileIds
        <3>1. node \subseteq [path : Paths, id : EntryIds]
            BY <2>1, NodeIs
        <3>2. \A d \in node : d.id \in EntryIds
            BY <3>1
        <3> QED
            BY <3>2 DEF FilesOf, EntryIds
    <2>3. FilesOf(node) # {}
        <3>1. IsPrefix(p, g.path)
            BY <1>0, <1>2, Comparable
        <3>2. g.id \in FilesOf(node)
            BY <1>0, <1>2, <3>1, NodeOfTree
        <3> QED
            BY <3>2
    <2> QED
        BY <1>x, <2>2, <2>3
<1>6. fits \subseteq Nat /\ 0 \in 0..LastSuffix /\ \A j \in Nat : j <= 0 => j = 0
    <2>1. fits \subseteq 0..LastSuffix /\ LastSuffix \in Nat
        BY DEF FileFits, OpsConstants
    <2> QED
        BY <2>1
<1> PICK i : i = First(fits)
    OBVIOUS
<1>7. i \in fits /\ i \in Nat /\ \A j \in fits : i <= j
    BY <1>1, <1>6, FirstIs
<1> PICK dir, n, q : dir = RevertTo(t, p) /\ n = Numbered(Last(p), i) /\ q = RevertPath(t, p, i)
    OBVIOUS
<1>8. /\ dir \in Paths /\ HasDir(t, dir) /\ n \in Names /\ n[1] = Last(p)[1] /\ q = Child(dir, n)
      /\ Last(p) \in Names /\ p = Child(Front(p), Last(p)) /\ Front(p) \in Paths
    BY <1>0, <1>7, RevertToIs
<1>9. u \in Trees /\ FilesOf(t) \subseteq FilesOf(u) \cup FilesOf(NodeAt(t, q))
    <2>1. u = PutFile(t, Child(dir, n), x)
        BY <1>8 DEF RevertedFile
    <2>2. n[1] \in FileNames
        BY <1>4, <1>8
    <2>3. u \in Trees /\ FilesOf(t) \subseteq FilesOf(u) \cup FilesOf(NodeAt(t, q))
        <3> PICK y \in FileIds : y = x
            BY <1>5
        <3>2. u = PutFile(t, q, y) /\ q = Child(dir, n)
            BY <1>8, <2>1
        <3>1. t \in Trees /\ dir \in Paths /\ HasDir(t, dir) /\ n \in Names
            BY <1>0, <1>8
        <3> QED
            BY <2>2, <3>1, <3>2, PutKeeps
    <2> QED
        BY <2>3
<1>10. NodeAt(t, q) \in {{}, Leaf(x)} \/ HasDir(t, Front(p))
    BY <1>7 DEF FileFits
<1>11. CASE NodeAt(t, q) = {} \/ NodeAt(t, q) = Leaf(x)
    <2>1. x \in FilesOf(u)
        <3>1. u = PutFile(t, Child(dir, n), x)
            BY <1>8 DEF RevertedFile
        <3> QED
            BY <1>5, <3>1, PutHas
    <2>2. FilesOf(Leaf(x)) \subseteq {x} /\ FilesOf({}) = {}
        <3> PICK d : d = Entry(<< >>, x)
            OBVIOUS
        <3>1. d.id = x /\ Leaf(x) = {d}
            BY EntryIs DEF Leaf
        <3> QED
            BY <3>1 DEF FilesOf
    <2>3. FilesOf(t) \subseteq FilesOf(u) \cup removed
        BY <1>9, <1>11, <2>1, <2>2
    <2> QED
        BY <1>1, <1>9, <2>3, RevertStep
<1>12. CASE HasDir(t, Front(p))
    <2>1. RevertPath(t, p, 0) = p
        BY <1>8, <1>12 DEF RevertPath, RevertTo, Numbered
    <2>2. ~IsDirNode(over)
        <3>1. SUFFICES ASSUME IsDirNode(over) PROVE FALSE
            OBVIOUS
        <3>2. Entry(<< >>, DirId) \in over
            BY <3>1 DEF IsDirNode
        <3>3. over \in Nodes /\ Fits(Last(p), over)
            BY <1>0, NodeOfTree
        <3>4. Named(Last(p), DirId)
            BY <3>2, <3>3, EntryIs DEF Fits
        <3> QED
            BY <1>4, <3>4 DEF Named, OpsConstants
    <2>3. 0 \in fits
        BY <1>6, <1>12, <2>1, <2>2 DEF FileFits
    <2>4. i = 0 /\ q = p
        BY <1>6, <1>7, <2>1, <2>3
    <2>5. FilesOf(t) \subseteq FilesOf(u) \cup removed
        BY <1>9, <2>2, <2>4
    <2> QED
        BY <1>1, <1>9, <2>5, RevertStep
<1> QED
    BY <1>10, <1>11, <1>12

\* revert_on_server: what the old commit has not is meant to go.
LEMMA RevertOnServerStep ==
    ASSUME OpsInv, NEW l \in Opened, NEW k \in 1..Len(hist[l]), RevertOnServer(l, k)
    PROVE  OpsInv'
<1> PICK t, u : t = Tree(l) /\ u = hist[l][k]
    OBVIOUS
<1>1. u \in Trees
    BY OldTree
<1>2. Operation(l, u, FilesOf(t) \ FilesOf(u)) /\ FilesOf(t) \subseteq FilesOf(u) \cup (FilesOf(t) \ FilesOf(u))
    BY DEF RevertOnServer
<1> QED
    BY <1>1, <1>2, OperationStep

\* What users do
LEMMA UserStep == ASSUME OpsConstants, OpsInv, UserNext PROVE OpsInv'
<1> PICK l \in Opened : LET t == Tree(l) IN
        \/ \E dir \in Dirs(t), x \in FileIds \ Versions, r \in BOOLEAN, n \in FileNames :
             PostFiles(l, dir, <<n>>, x, r)
        \/ \E x \in FileIds \ Versions, r \in BOOLEAN, n \in FileNames :
             PostFiles(l, <<>>, <<n, n>>, x, r)
        \/ \E dir \in Dirs(t), x \in FileIds : \E n \in NamesIn(t, dir) :
             UpdateFile(l, dir, n, x)
        \/ \E dir \in Dirs(t), n \in DirNames : PostDir(l, dir, n)
        \/ \E n, m \in DirNames : MkdirWithParents(l, <<>>, <<Name(n), Name(m)>>)
        \/ \E dir \in Dirs(t), n \in FileNames, x \in FileIds \ Versions :
             PostEmptyFile(l, dir, n, x)
        \/ \E dir \in Dirs(t) : \E names \in Selected(t, dir) :
             DelFile(l, dir, Range(names))
        \/ \E dir \in Dirs(t) : \E n \in NamesIn(t, dir) : \E m \in NamesFor(t, dir, n) :
             RenameFile(l, dir, n, m)
        \/ \E src, dst \in Dirs(t) : \E names \in Selected(t, src) :
             \E new \in NewNames(t, src, names) :
               \/ CopyInRepo(l, src, names, dst, new)
               \/ \E r \in BOOLEAN : MoveInRepo(l, src, names, dst, new, r)
        \/ \E k \in 1..Len(hist[l]) :
             \/ \E e \in hist[l][k] : RevertFile(l, k, e.path) \/ RevertDir(l, k, e.path)
             \/ RevertOnServer(l, k)
    BY DEF UserNext
<1>1. CASE \E dir \in Dirs(Tree(l)), x \in FileIds \ Versions, r \in BOOLEAN, n \in FileNames :
             PostFiles(l, dir, <<n>>, x, r)
    <2> PICK dir \in Dirs(Tree(l)), x \in FileIds \ Versions, r \in BOOLEAN, n \in FileNames :
             PostFiles(l, dir, <<n>>, x, r)
        BY <1>1
    <2>1. dir \in Paths /\ HasDir(Tree(l), dir)
        BY TreeOf, DirsAre DEF OpsInv
    <2> QED
        BY <2>1, PostFilesStep
<1>2. CASE \E x \in FileIds \ Versions, r \in BOOLEAN, n \in FileNames : PostFiles(l, <<>>, <<n, n>>, x, r)
    <2>1. << >> \in Paths /\ HasDir(Tree(l), << >>)
        BY RootIs DEF HasDir, Paths
    <2> QED
        BY <1>2, <2>1, PostFilesStep
<1>3. CASE \E dir \in Dirs(Tree(l)), x \in FileIds : \E n \in NamesIn(Tree(l), dir) : UpdateFile(l, dir, n, x)
    BY <1>3, UpdateFileStep
<1>4. CASE \/ \E dir \in Dirs(Tree(l)), n \in DirNames : PostDir(l, dir, n)
           \/ \E dir \in Dirs(Tree(l)), n \in FileNames, x \in FileIds \ Versions : PostEmptyFile(l, dir, n, x)
    BY <1>4, PostStep
<1>5. CASE \E n, m \in DirNames : MkdirWithParents(l, <<>>, <<Name(n), Name(m)>>)
    BY <1>5, MkdirStep
<1>6. CASE \E dir \in Dirs(Tree(l)) : \E names \in Selected(Tree(l), dir) : DelFile(l, dir, Range(names))
    BY <1>6, DelFileStep
<1>7. CASE \E dir \in Dirs(Tree(l)) : \E n \in NamesIn(Tree(l), dir) : \E m \in NamesFor(Tree(l), dir, n) :
             RenameFile(l, dir, n, m)
    BY <1>7, RenameFileStep
<1>8. CASE \E src, dst \in Dirs(Tree(l)) : \E names \in Selected(Tree(l), src) :
             \E new \in NewNames(Tree(l), src, names) :
               \/ CopyInRepo(l, src, names, dst, new)
               \/ \E r \in BOOLEAN : MoveInRepo(l, src, names, dst, new, r)
    BY <1>8, CopyStep, MoveStep
<1>9. CASE \E k \in 1..Len(hist[l]) :
             \/ \E e \in hist[l][k] : RevertFile(l, k, e.path) \/ RevertDir(l, k, e.path)
             \/ RevertOnServer(l, k)
    BY <1>9, RevertFileStep, RevertDirStep, RevertOnServerStep
<1> QED
    BY <1>1, <1>2, <1>3, <1>4, <1>5, <1>6, <1>7, <1>8, <1>9

----------------------------------------------------------------------------
\* The steps of the task

\* Something runs unless the task is the empty one.
LEMMA TaskNow ==
    ASSUME OpsInv, NEW pc, pc # "none", TaskAt(pc)
    PROVE  TaskOK(task, flags) /\ HistOK /\ FilesKept /\ task.pc = pc /\ (pc # "ended" => "successful" \notin flags)
<1>1. NoTask.pc = "none"
    BY DEF NoTask
<1>2. task.pc = pc /\ HistOK /\ FilesKept /\ (NoneOK(task, flags) \/ TaskOK(task, flags))
    BY DEF TaskAt, OpsInv
<1>3. TaskOK(task, flags)
    BY <1>1, <1>2 DEF NoneOK
<1> QED
    BY <1>2, <1>3 DEF TaskOK

\* What a step leaves of the task
Same(k, j) ==
    /\ j.names = k.names /\ j.new = k.new /\ j.src = k.src /\ j.dst = k.dst
    /\ j.sdir = k.sdir /\ j.ddir = k.ddir /\ j.base = k.base /\ j.items = k.items

\* Only the place of the task changes.
LEMMA GotoIs ==
    ASSUME NEW k, TaskTypes(k), NEW pc \in {"queued", "copy", "put", "delete", "ended"}
    PROVE  LET j == [k EXCEPT !.pc = pc] IN TaskTypes(j) /\ j.pc = pc /\ Same(k, j)
<1> PICK j : j = [k EXCEPT !.pc = pc]
    OBVIOUS
<1> PICK a, b, s, d, n, o, e, w, r, g, i : 
        /\ a = k.move /\ b = k.kind /\ s = k.src /\ d = k.sdir /\ n = k.names /\ o = k.dst
        /\ e = k.ddir /\ w = k.new /\ r = k.replace /\ g = k.base /\ i = k.items
    OBVIOUS
<1>1. j = [pc |-> pc, move |-> a, kind |-> b, src |-> s, sdir |-> d, names |-> n, dst |-> o,
           ddir |-> e, new |-> w, replace |-> r, base |-> g, items |-> i]
    BY DEF TaskTypes
<1>2. /\ j.pc = pc /\ j.move = a /\ j.kind = b /\ j.src = s /\ j.sdir = d /\ j.names = n /\ j.dst = o
      /\ j.ddir = e /\ j.new = w /\ j.replace = r /\ j.base = g /\ j.items = i
    BY <1>1
<1>3. TaskTypes(j)
    BY <1>1, <1>2 DEF TaskTypes
<1> QED
    BY <1>2, <1>3 DEF Same

\* What was read stays what it is.
LEMMA SameItems ==
    ASSUME NEW k, NEW j, Same(k, j)
    PROVE  /\ ItemsOK(k) => ItemsOK(j)
           /\ \A files : ItemsIn(k, files) <=> ItemsIn(j, files)
BY DEF Same, ItemsOK, ItemsIn

\* The head is one of the commits.
LEMMA HeadIs ==
    ASSUME NEW s \in Seq(Trees) \ {<< >>}
    PROVE  \E i \in DOMAIN s : s[i] = Last(s)
<1>1. Len(s) \in Nat \ {0} /\ DOMAIN s = 1..Len(s)
    BY RangeIs, EmptySeq
<1> QED
    BY <1>1 DEF Last

\* The end of a task
LEMMA EndsStep ==
    ASSUME TaskOK(task, flags), "successful" \notin flags, HistOK', FilesKept',
           NEW failed \in BOOLEAN, Ends(failed), NEW dst, dst = task.dst,
           ItemsIn(task, Versions' \cup gone'),
           ~failed => ItemsIn(task, FilesOf(Tree(dst)') \cup gone')
    PROVE  OpsInv'
<1> PICK k, f, j, g : k = task /\ f = flags /\ j = task' /\ g = flags'
    OBVIOUS
<1>1. TaskTypes(k)
    BY DEF TaskOK
<1>2. j = [k EXCEPT !.pc = "ended"]
    BY DEF Ends, Goto
<1>3. TaskTypes(j) /\ j.pc = "ended" /\ Same(k, j)
    BY <1>1, <1>2, GotoIs
<1>4. k.dst \in Opened /\ j.dst = k.dst
    BY <1>1, <1>3 DEF TaskTypes, Same
<1>5. ItemsIn(j, Versions' \cup gone')
    BY <1>3, SameItems
<1>6. ASSUME "successful" \in g
      PROVE  \E i \in DOMAIN hist'[j.dst] : ItemsIn(j, FilesOf(hist'[j.dst][i]) \cup gone')
    <2>1. ~failed
        BY <1>6 DEF Ends
    <2> PICK s, files : s = hist'[k.dst] /\ files = FilesOf(Last(s)) \cup gone'
        OBVIOUS
    <2>2. Tree(dst)' = Last(s)
        BY DEF Tree
    <2>3. ItemsIn(j, files)
        <3>1. ItemsIn(k, files)
            BY <2>1, <2>2
        <3> QED
            BY <1>3, <3>1, SameItems
    <2>4. s \in Seq(Trees) \ {<< >>}
        BY <1>4 DEF HistOK
    <2>5. PICK i \in DOMAIN s : s[i] = Last(s)
        BY <2>4, HeadIs
    <2> QED
        BY <1>4, <2>3, <2>5
<1>7. TaskOK(j, g)'
    BY <1>3, <1>5, <1>6 DEF TaskOK
<1>8. TaskOK(task, flags)'
    BY <1>7 DEF TaskOK
<1> QED
    BY <1>8 DEF OpsInv

\* A new task has read nothing.
LEMMA StartStep == ASSUME OpsConstants, OpsInv, StartNext PROVE OpsInv'
<1>1. PICK pair \in TaskLibs :
        \E sdir \in Dirs(Tree(pair[1])), ddir \in Dirs(Tree(pair[2])) :
          \E names \in Selected(Tree(pair[1]), sdir) :
            \E new \in NewNames(Tree(pair[1]), sdir, names), kind \in TaskKinds,
               move \in BOOLEAN : \E r \in IF move THEN BOOLEAN ELSE {FALSE} :
                StartTask(NewTask(move, kind, pair[1], sdir, names, pair[2], ddir, new, r))
    BY DEF StartNext
<1> PICK src, dst : src = pair[1] /\ dst = pair[2]
    OBVIOUS
<1>2. src \in Opened /\ dst \in Opened /\ src # dst
    BY DEF OpsConstants
<1>3. PICK sdir \in Dirs(Tree(src)), ddir \in Dirs(Tree(dst)) :
          \E names \in Selected(Tree(src), sdir) :
            \E new \in NewNames(Tree(src), sdir, names), kind \in TaskKinds,
               move \in BOOLEAN : \E r \in IF move THEN BOOLEAN ELSE {FALSE} :
                StartTask(NewTask(move, kind, src, sdir, names, dst, ddir, new, r))
    BY <1>1
<1>4. PICK names \in Selected(Tree(src), sdir) :
            \E new \in NewNames(Tree(src), sdir, names), kind \in TaskKinds,
               move \in BOOLEAN : \E r \in IF move THEN BOOLEAN ELSE {FALSE} :
                StartTask(NewTask(move, kind, src, sdir, names, dst, ddir, new, r))
    BY <1>3
<1>5. PICK new \in NewNames(Tree(src), sdir, names), kind \in TaskKinds, move \in BOOLEAN, r \in BOOLEAN :
                StartTask(NewTask(move, kind, src, sdir, names, dst, ddir, new, r))
    BY <1>4
<1>6. sdir \in Paths /\ ddir \in Paths /\ Renames(names, new)
    <2>1. Tree(src) \in Trees /\ Tree(dst) \in Trees
        BY <1>2, TreeOf DEF OpsInv
    <2>2. sdir \in Paths /\ ddir \in Paths
        BY <2>1, DirsAre
    <2> QED
        BY <2>1, <2>2, SelectedAre
<1> PICK k : k = NewTask(move, kind, src, sdir, names, dst, ddir, new, r)
    OBVIOUS
<1>7. task' = k /\ flags' = {} /\ UNCHANGED <<hist, gone>>
    BY <1>5 DEF StartTask
<1> PICK replace : replace = (r /\ move /\ ~(kind = "background" /\ Len(names) > 1))
    OBVIOUS
<1>8. replace \in BOOLEAN
    OBVIOUS
<1>9. k = [pc |-> "queued", move |-> move, kind |-> kind, src |-> src, sdir |-> sdir, names |-> names,
           dst |-> dst, ddir |-> ddir, new |-> new, replace |-> replace, base |-> {}, items |-> << >>]
    BY DEF NewTask
<1>10. /\ k.pc = "queued" /\ k.move = move /\ k.kind = kind /\ k.src = src /\ k.sdir = sdir
       /\ k.names = names /\ k.dst = dst /\ k.ddir = ddir /\ k.new = new /\ k.replace = replace
       /\ k.base = {} /\ k.items = << >>
    BY <1>9
<1>11. TaskTypes(k)
    BY <1>2, <1>6, <1>8, <1>9, <1>10 DEF TaskTypes
<1>12. \A files : ItemsIn(k, files)
    BY <1>10 DEF ItemsIn
<1>13. TaskOK(k, {})'
    BY <1>10, <1>11, <1>12 DEF TaskOK
<1>14. TaskOK(task, flags)'
    BY <1>7, <1>13 DEF TaskOK
<1>15. HistOK' /\ FilesKept'
    BY <1>7, NothingGrows, GrowsKeeps DEF OpsInv, Grows
<1> QED
    BY <1>14, <1>15 DEF OpsInv

\* A step that ends the task with an error
LEMMA FailStep ==
    ASSUME OpsInv, NEW pc, pc \notin {"none", "ended"}, TaskAt(pc), Ends(TRUE), UNCHANGED <<hist, gone>>
    PROVE  OpsInv'
<1>1. TaskOK(task, flags) /\ HistOK /\ FilesKept /\ "successful" \notin flags
    BY TaskNow
<1>2. Grows(Opened) /\ HistOK' /\ FilesKept'
    BY <1>1, NothingGrows, GrowsKeeps DEF Grows
<1>3. ItemsIn(task, Versions' \cup gone')
    <2>1. ItemsIn(task, Versions \cup gone) /\ Versions \cup gone \subseteq Versions' \cup gone'
        BY <1>1, <1>2 DEF TaskOK, Grows
    <2> QED
        BY <2>1, ItemsStayIn
<1> QED
    BY <1>1, <1>2, <1>3, EndsStep

\* The task reads both heads: all it has read is in the libraries.
LEMMA ReadHeadsStep == ASSUME OpsConstants, OpsInv, ReadHeads PROVE OpsInv'
<1>1. TaskOK(task, flags) /\ HistOK /\ FilesKept /\ "successful" \notin flags /\ TaskAt("queued") /\ UNCHANGED <<hist, gone>>
    BY TaskNow DEF ReadHeads
<1> PICK k, f, items : k = task /\ f = flags /\ items = Items(Tree(task.src), task.sdir, task.names, task.new)
    OBVIOUS
<1>2. CASE Ends(TRUE)
    BY <1>1, <1>2, FailStep
<1>3. CASE /\ task' = [task EXCEPT !.base = Tree(task.dst), !.items = items,
                            !.pc = IF task.kind = "related" THEN "put" ELSE "copy"]
           /\ UNCHANGED flags
    <2>1. TaskTypes(k)
        BY <1>1 DEF TaskOK
    <2> PICK j, base, pc : j = task' /\ base = Tree(k.dst) /\ pc = (IF k.kind = "related" THEN "put" ELSE "copy")
        OBVIOUS
    <2>2. pc \in {"copy", "put"}
        OBVIOUS
    <2> PICK a, b, s, d, n, o, e, w, r : 
            /\ a = k.move /\ b = k.kind /\ s = k.src /\ d = k.sdir /\ n = k.names /\ o = k.dst
            /\ e = k.ddir /\ w = k.new /\ r = k.replace
        OBVIOUS
    <2>3. j = [k EXCEPT !.base = base, !.items = items, !.pc = pc]
        BY <1>3
    <2>4. j = [pc |-> pc, move |-> a, kind |-> b, src |-> s, sdir |-> d, names |-> n, dst |-> o,
               ddir |-> e, new |-> w, replace |-> r, base |-> base, items |-> items]
        BY <2>1, <2>3 DEF TaskTypes
    <2>5. /\ j.pc = pc /\ j.move = a /\ j.kind = b /\ j.src = s /\ j.sdir = d /\ j.names = n /\ j.dst = o
          /\ j.ddir = e /\ j.new = w /\ j.replace = r /\ j.base = base /\ j.items = items
        BY <2>4
    <2>6. TaskTypes(j)
        BY <2>1, <2>2, <2>4, <2>5 DEF TaskTypes
    <2>7. s \in Opened /\ o \in Opened /\ d \in Paths /\ Renames(n, w)
        BY <2>1 DEF TaskTypes
    <2>8. Tree(s) \in Trees /\ base \in Trees
        BY <1>1, <2>7, TreeOf
    <2>9. /\ Len(items) = Len(n) /\ DOMAIN items = 1..Len(n) /\ Fitting(items) /\ Distinct(items)
          /\ \A i \in 1..Len(n) : items[i].name = w[i] /\ items[i].node = NodeAt(Tree(s), Child(d, n[i]))
        <3> PICK t : t = Tree(s)
            OBVIOUS
        <3>1. items = Items(t, d, n, w) /\ t \in Trees
            BY <2>8
        <3> QED
            BY <2>7, <3>1, ItemsAre
    <2>10. ItemsOK(j)
        BY <2>5, <2>9 DEF ItemsOK
    <2>11. ItemsIn(j, Versions \cup gone)
        <3> SUFFICES ASSUME NEW i \in 1..Len(n) PROVE FilesOf(items[i].node) \subseteq Versions
            BY <2>5, <2>9 DEF ItemsIn
        <3>1. n[i] \in Names
            BY <2>7, RangeIs DEF Renames
        <3>2. Child(d, n[i]) \in Paths /\ Child(d, n[i]) # << >>
            BY <2>7, <3>1, Children
        <3>3. FilesOf(NodeAt(Tree(s), Child(d, n[i]))) \subseteq FilesOf(Tree(s))
            BY <2>8, <3>2, NodeOfTree
        <3>4. FilesOf(Tree(s)) \subseteq Versions
            BY <2>7 DEF Versions
        <3> QED
            BY <2>9, <3>3, <3>4
    <2>12. FilesOf(base) \subseteq FilesOf(Tree(j.dst)) \cup gone
        BY <2>5
    <2>13. TaskOK(j, f)
        BY <1>1, <2>2, <2>5, <2>6, <2>8, <2>10, <2>11, <2>12 DEF TaskOK
    <2>14. Grows(Opened)
        BY <1>1, NothingGrows
    <2>15. TaskOK(j, f)'
        BY <2>13, <2>14, TaskStays
    <2>16. TaskOK(task, flags)'
        BY <1>3, <2>15 DEF TaskOK
    <2>17. HistOK' /\ FilesKept'
        BY <1>1, <2>14, GrowsKeeps DEF Grows
    <2> QED
        BY <2>16, <2>17 DEF OpsInv
<1> QED
    BY <1>2, <1>3 DEF ReadHeads

\* copy_recursive() changes no head.
LEMMA CopyObjectsStep == ASSUME OpsInv, CopyObjects PROVE OpsInv'
<1>1. TaskOK(task, flags) /\ HistOK /\ FilesKept /\ task.pc = "copy" /\ TaskAt("copy") /\ UNCHANGED <<hist, gone>>
    BY TaskNow DEF CopyObjects
<1>2. CASE Ends(TRUE)
    BY <1>1, <1>2, FailStep
<1>3. CASE Goto("put") /\ UNCHANGED flags
    <2> PICK k, f, j : k = task /\ f = flags /\ j = task'
        OBVIOUS
    <2>1. TaskTypes(j) /\ j.pc = "put" /\ Same(k, j)
        BY <1>1, <1>3, GotoIs DEF TaskOK, Goto
    <2>2. TaskOK(j, f)
        <3>1. /\ k.base \in Trees /\ FilesOf(k.base) \subseteq FilesOf(Tree(k.dst)) \cup gone
              /\ ItemsOK(k) /\ ItemsIn(k, Versions \cup gone) /\ "successful" \notin f
            BY <1>1 DEF TaskOK
        <3>2. ItemsOK(j) /\ ItemsIn(j, Versions \cup gone)
            BY <2>1, <3>1, SameItems
        <3>3. j.base = k.base /\ j.dst = k.dst
            BY <2>1 DEF Same
        <3> QED
            BY <2>1, <3>1, <3>2, <3>3 DEF TaskOK
    <2>3. Grows(Opened)
        BY <1>1, NothingGrows
    <2>4. TaskOK(j, f)'
        BY <2>2, <2>3, TaskStays
    <2>5. TaskOK(task, flags)'
        BY <1>3, <2>4 DEF TaskOK
    <2>6. HistOK' /\ FilesKept'
        BY <1>1, <2>3, GrowsKeeps DEF Grows
    <2> QED
        BY <2>5, <2>6 DEF OpsInv
<1> QED
    BY <1>2, <1>3 DEF CopyObjects

\* What the task put: the items are in the new tree, and what was in the head is there or replaced,
\* whether the head is the one that was read or is merged with it.
LEMMA PutTreeIs ==
    ASSUME OpsConstants, TaskOK(task, flags), HistOK, TaskAt("put"),
           HasDir(task.base, task.ddir), Room(task.base, task.ddir, task.items, task.replace),
           NEW removed, removed = Replaced(task.base, task.ddir, Range(task.new), task.replace)
    PROVE  /\ PutTree \in Trees
           /\ FilesOf(Tree(task.dst)) \subseteq FilesOf(PutTree) \cup removed
           /\ ItemsIn(task, FilesOf(PutTree) \cup gone \cup removed)
<1> PICK k, h, b, dir, items, replace, p, u :
        /\ k = task /\ h = Tree(task.dst) /\ b = task.base /\ dir = task.ddir /\ items = task.items
        /\ replace = task.replace /\ p = Proposed /\ u = PutTree
    OBVIOUS
<1>0. k.pc = "put"
    BY DEF TaskAt
<1>1. /\ TaskTypes(k) /\ b \in Trees /\ FilesOf(b) \subseteq FilesOf(h) \cup gone /\ ItemsOK(k)
    BY <1>0 DEF TaskOK
<1>2. k.dst \in Opened /\ dir \in Paths /\ replace \in BOOLEAN /\ Renames(k.names, k.new)
    BY <1>1 DEF TaskTypes
<1>3. h \in Trees
    BY <1>2, TreeOf
<1>4. /\ Len(items) = Len(k.names) /\ DOMAIN items = 1..Len(k.names) /\ Fitting(items) /\ Distinct(items)
      /\ \A i \in 1..Len(k.names) : items[i].name = k.new[i]
    BY <1>1 DEF ItemsOK
<1>5. p = AddEntries(b, dir, items, replace)
    BY DEF Proposed
<1>6. AddedTo(b, p, dir, items, replace, Len(items))
    BY <1>1, <1>2, <1>4, <1>5, AddEntriesIs
<1>7. p \in Trees /\ \A i \in DOMAIN items : FilesOf(items[i].node) \subseteq FilesOf(p)
    BY <1>4, <1>6, PlacedFiles DEF AddedTo
<1>8. \A e \in b : e.id # DirId => e \in p \/ e.id \in removed
    <2> PICK names : names = Range(k.new)
        OBVIOUS
    <2>1. \A i \in 1..Len(items) : items[i].name \in names
        BY <1>2, <1>4, RangeIs DEF Renames
    <2> QED
        BY <1>1, <1>2, <1>4, <1>6, <2>1, AddKeeps
<1>9. CASE h = b
    <2>1. u = p
        BY <1>9 DEF PutTree
    <2>2. FilesOf(h) \subseteq FilesOf(u) \cup removed
        BY <1>8, <1>9, <2>1 DEF FilesOf
    <2>3. ItemsIn(k, FilesOf(u) \cup gone \cup removed)
        BY <1>7, <2>1 DEF ItemsIn
    <2> QED
        BY <1>7, <2>1, <2>2, <2>3
<1>10. CASE h # b
    <2>1. u = MergePaths(b, h, p)
        BY <1>10 DEF PutTree
    <2>2. /\ u \in Trees
          /\ \A e \in h : e.id # DirId /\ (e \in p \/ e \notin b) => e.id \in FilesOf(u)
          /\ \A e \in p : e.id # DirId /\ (e \in h \/ e \notin b) => e.id \in FilesOf(u)
        BY <1>1, <1>3, <1>7, <2>1, MergeIs
    <2>3. FilesOf(h) \subseteq FilesOf(u) \cup removed
        BY <1>8, <2>2 DEF FilesOf
    <2>4. FilesOf(p) \subseteq FilesOf(u) \cup gone \cup removed
        <3> SUFFICES ASSUME NEW e \in p, e.id # DirId PROVE e.id \in FilesOf(u) \cup gone \cup removed
            BY DEF FilesOf
        <3>1. CASE e \in h \/ e \notin b
            BY <2>2, <3>1
        <3>2. CASE e \in b
            <4>1. e.id \in FilesOf(b)
                BY <3>2 DEF FilesOf
            <4> QED
                BY <1>1, <2>3, <4>1
        <3> QED
            BY <3>1, <3>2
    <2>5. ItemsIn(k, FilesOf(u) \cup gone \cup removed)
        BY <1>7, <2>4 DEF ItemsIn
    <2> QED
        BY <2>2, <2>3, <2>5
<1> QED
    BY <1>9, <1>10

\* put_dirent_and_commit(): what was read is in the destination now.
LEMMA PutDirentsStep == ASSUME OpsConstants, OpsInv, PutDirents PROVE OpsInv'
<1>1. TaskOK(task, flags) /\ HistOK /\ FilesKept /\ task.pc = "put" /\ TaskAt("put") /\ "successful" \notin flags
    BY TaskNow DEF PutDirents
<1> PICK k, f, dst, u, removed :
        /\ k = task /\ f = flags /\ dst = task.dst /\ u = PutTree
        /\ removed = Replaced(task.base, task.ddir, Range(task.new), task.replace)
    OBVIOUS
<1>2. CommitTree(dst, u, removed)
    BY DEF PutDirents
<1>3. u \in Trees /\ FilesOf(Tree(dst)) \subseteq FilesOf(u) \cup removed
      /\ ItemsIn(k, FilesOf(u) \cup gone \cup removed)
    BY <1>1, PutTreeIs DEF PutDirents
<1>4. TaskTypes(k) /\ dst \in Opened
    BY <1>1 DEF TaskOK, TaskTypes
<1>5. Grows(Opened) /\ Tree(dst)' = u /\ gone' = gone \cup removed
    BY <1>1, <1>2, <1>3, <1>4, OperationGrows, CommitGrows
<1>6. HistOK' /\ FilesKept'
    BY <1>1, <1>5, GrowsKeeps DEF Grows
<1>7. ItemsIn(k, FilesOf(Tree(dst)') \cup gone')
    <2>1. FilesOf(u) \cup gone \cup removed = FilesOf(Tree(dst)') \cup gone'
        BY <1>5
    <2> QED
        BY <1>3, <2>1
<1>8. ItemsIn(k, Versions' \cup gone')
    <2>1. FilesOf(Tree(dst)') \cup gone' \subseteq Versions' \cup gone'
        BY <1>4 DEF Versions
    <2> QED
        BY <1>7, <2>1, ItemsStayIn
<1>9. CASE Ends(FALSE)
    BY <1>1, <1>6, <1>7, <1>8, <1>9, EndsStep
<1>10. CASE Goto("delete") /\ UNCHANGED flags
    <2> PICK j : j = task'
        OBVIOUS
    <2>1. TaskTypes(j) /\ j.pc = "delete" /\ Same(k, j)
        BY <1>4, <1>10, GotoIs DEF Goto
    <2>2. ItemsOK(j)
        <3>1. ItemsOK(k)
            BY <1>1 DEF TaskOK
        <3> QED
            BY <2>1, <3>1, SameItems
    <2>3. j.dst = dst
        BY <2>1 DEF Same
    <2>4. ItemsIn(j, Versions' \cup gone')
        BY <1>8, <2>1, SameItems
    <2>5. ItemsIn(j, FilesOf(Tree(dst)') \cup gone')
        <3> PICK files : files = FilesOf(Tree(dst)') \cup gone'
            OBVIOUS
        <3> QED
            BY <1>7, <2>1, SameItems
    <2>6. TaskOK(j, f)'
        BY <1>1, <2>1, <2>2, <2>3, <2>4, <2>5 DEF TaskOK
    <2>7. TaskOK(task, flags)'
        BY <1>10, <2>6 DEF TaskOK
    <2> QED
        BY <1>6, <2>7 DEF OpsInv
<1> QED
    BY <1>9, <1>10 DEF PutDirents

\* del_file() at the source: what the task had read is in the destination, and what it had not
\* read was meant to go.
LEMMA DeleteSourceStep == ASSUME OpsConstants, OpsInv, DeleteSource PROVE OpsInv'
<1>1. TaskOK(task, flags) /\ HistOK /\ FilesKept /\ task.pc = "delete" /\ "successful" \notin flags
    BY TaskNow DEF DeleteSource
<1> PICK k, f, src, dst, sdir, names, items :
        /\ k = task /\ f = flags /\ src = task.src /\ dst = task.dst /\ sdir = task.sdir
        /\ names = Range(task.names) /\ items = task.items
    OBVIOUS
<1>2. /\ TaskTypes(k) /\ ItemsOK(k) /\ ItemsIn(k, Versions \cup gone)
      /\ ItemsIn(k, FilesOf(Tree(dst)) \cup gone)
    BY <1>1 DEF TaskOK
<1>3. src \in Opened /\ dst \in Opened /\ src # dst /\ sdir \in Paths /\ names \in SUBSET Names
    <2>1. Renames(k.names, k.new) /\ src \in Opened /\ dst \in Opened /\ src # dst /\ sdir \in Paths
        BY <1>2 DEF TaskTypes
    <2> QED
        BY <2>1, RangeIs DEF Renames
<1> PICK s, t, now, put : /\ s = Tree(src) /\ t = DelEntries(s, sdir, names)
                          /\ now = FilesBelow(s, sdir, names)
                          /\ put = UNION {FilesOf(i.node) : i \in Range(items)}
    OBVIOUS
<1>4. (IF t = s THEN UNCHANGED <<hist, gone>> ELSE CommitTree(src, t, now \ put)) /\ Ends(FALSE)
    BY DEF DeleteSource, FilesBelow
<1>5. s \in Trees
    BY <1>1, <1>3, TreeOf
<1>6. t \in Trees /\ FilesOf(s) \subseteq FilesOf(t) \cup now
    BY <1>3, <1>5, DelKeeps
<1>7. put \subseteq FilesOf(Tree(dst)) \cup gone
    BY <1>2 DEF ItemsIn, Range
<1>8. Grows({dst})
    <2>1. CASE UNCHANGED <<hist, gone>>
        <3>1. Grows(Opened)
            BY <1>1, <2>1, NothingGrows
        <3> QED
            BY <1>3, <3>1 DEF Grows
    <2>2. CASE CommitTree(src, t, now \ put)
        <3>1. /\ HistOK' /\ Tree(src)' = t
              /\ \A l \in Opened : \A i \in DOMAIN hist[l] : i \in DOMAIN hist'[l] /\ hist'[l][i] = hist[l][i]
              /\ \A l \in Opened : \A i \in DOMAIN hist'[l] : i \in DOMAIN hist[l] \/ hist'[l][i] = Tree(l)'
              /\ \A l \in Opened : l # src => Tree(l)' = Tree(l)
              /\ gone' = gone \cup (now \ put)
              /\ Versions \subseteq Versions' \cup FilesOf(Tree(src))
            BY <1>1, <1>3, <1>6, <2>2, CommitGrows
        <3>2. Tree(dst)' = Tree(dst)
            BY <1>3, <3>1
        <3>3. FilesOf(Tree(dst)') \subseteq Versions' /\ FilesOf(Tree(src)') \subseteq Versions'
            BY <1>3 DEF Versions
        <3>4. FilesOf(s) \subseteq Versions' \cup gone'
            BY <1>6, <1>7, <3>1, <3>2, <3>3
        <3>5. Versions \cup gone \subseteq Versions' \cup gone'
            BY <3>1, <3>4
        <3> QED
            BY <3>1, <3>2, <3>5 DEF Grows
    <2> QED
        BY <1>4, <2>1, <2>2
<1>9. HistOK' /\ FilesKept'
    <2> PICK L : L = {dst}
        OBVIOUS
    <2>1. Grows(L)
        BY <1>8
    <2>2. FilesKept'
        BY <1>1, <2>1, GrowsKeeps
    <2> QED
        BY <2>1, <2>2 DEF Grows
<1>10. ItemsIn(k, Versions' \cup gone') /\ ItemsIn(k, FilesOf(Tree(dst)') \cup gone')
    <2>1. /\ Versions \cup gone \subseteq Versions' \cup gone'
          /\ FilesOf(Tree(dst)) \cup gone \subseteq FilesOf(Tree(dst)') \cup gone'
        BY <1>8 DEF Grows
    <2> QED
        BY <1>2, <2>1, ItemsStayIn
<1> QED
    BY <1>1, <1>4, <1>9, <1>10, EndsStep

\* The steps of the task
LEMMA TaskStep == ASSUME OpsConstants, OpsInv, TaskNext PROVE OpsInv'
<1>1. CASE PutFails
    BY <1>1, FailStep DEF PutFails
<1>2. CASE DeleteFails
    BY <1>2, FailStep DEF DeleteFails
<1>3. CASE CancelTask \/ PollTask
    <2>1. UNCHANGED <<hist, gone, task>> /\ ("successful" \in flags' => "successful" \in flags)
        BY <1>3 DEF CancelTask, PollTask
    <2>2. Grows(Opened)
        BY <2>1, NothingGrows DEF OpsInv
    <2> QED
        BY <2>1, <2>2, OtherSteps
<1>4. CASE CrashOps
    <2>1. UNCHANGED <<hist, gone>> /\ task' = NoTask /\ flags' = {}
        BY <1>4 DEF CrashOps
    <2>2. Grows(Opened)
        BY <2>1, NothingGrows DEF OpsInv
    <2>3. HistOK' /\ FilesKept'
        BY <2>2, GrowsKeeps DEF OpsInv, Grows
    <2>4. NoneOK(task, flags)'
        BY <2>1 DEF NoneOK
    <2> QED
        BY <2>3, <2>4 DEF OpsInv
<1> QED
    BY <1>1, <1>2, <1>3, <1>4, ReadHeadsStep, CopyObjectsStep, PutDirentsStep, DeleteSourceStep DEF TaskNext

\* At the beginning all is there.
LEMMA OpsStart == ASSUME OpsConstants, OpsInit PROVE OpsInv
<1>1. InitTrees \in [Opened -> Trees]
    BY DEF OpsConstants
<1>2. \A l \in Opened : hist[l] = <<InitTrees[l]>> /\ InitTrees[l] \in Trees
    BY <1>1 DEF OpsInit
<1>3. HistOK
    <2>1. hist = [l \in Opened |-> <<InitTrees[l]>>]
        BY DEF OpsInit
    <2>2. \A l \in Opened : <<InitTrees[l]>> \in Seq(Trees) \ {<< >>}
        BY <1>2
    <2> QED
        BY <2>1, <2>2 DEF HistOK
<1>4. FilesKept
    <2> SUFFICES ASSUME NEW l \in Opened, NEW i \in DOMAIN hist[l]
                 PROVE  FilesOf(hist[l][i]) \subseteq Versions
        BY DEF FilesKept
    <2>1. hist[l][i] = InitTrees[l] /\ Tree(l) = InitTrees[l]
        BY <1>2 DEF Tree, Last
    <2> QED
        BY <2>1 DEF Versions
<1>5. NoneOK(task, flags)
    BY DEF OpsInit, NoneOK
<1> QED
    BY <1>3, <1>4, <1>5 DEF OpsInv

\* No step loses anything.
LEMMA OpsGoOn == ASSUME OpsConstants, OpsInv, [OpsNext]_opsVars PROVE OpsInv'
<1>1. CASE UNCHANGED opsVars
    <2>1. UNCHANGED <<hist, gone, task, flags>>
        BY <1>1 DEF opsVars
    <2>2. Grows(Opened)
        BY <2>1, NothingGrows DEF OpsInv
    <2> QED
        BY <2>1, <2>2, OtherSteps
<1> QED
    BY <1>1, UserStep, StartStep, TaskStep DEF OpsNext

\* Every entry of a tree is in a directory.
LEMMA RootedIs == ASSUME NEW t \in Trees PROVE Rooted(t)
<1> SUFFICES ASSUME NEW e \in t PROVE e.path # << >> /\ HasDir(t, Front(e.path))
    BY DEF Rooted
<1>1. e \in [path : Paths, id : EntryIds] /\ e.path # << >>
    BY TreeIs, EntriesAre
<1> PICK p : p = e.path
    OBVIOUS
<1>2. p \in Paths \ {<< >>}
    BY <1>1
<1>3. Front(p) \in Paths /\ Last(p) \in Names /\ p = Child(Front(p), Last(p))
    BY <1>2, Parent DEF Paths
<1>4. IsPrefix(Front(p), p) /\ ~IsPrefix(p, Front(p)) /\ IsPrefix(p, p)
    BY <1>2, <1>3, Children, Comparable
<1>5. Front(p) # << >> => Entry(Front(p), DirId) \in t
    BY <1>3, <1>4, TreeIs
<1> QED
    BY <1>1, <1>5 DEF HasDir

\* Every file version that was ever in a library is in the head of one, unless an operation was
\* meant to remove it, whatever tasks run or crash meanwhile (move_file, copy-mgr.c).
THEOREM NothingIsLost == OpsSpec => []NothingLost
<1>1. OpsInit => OpsInv
    BY OpsAssumption, OpsStart
<1>2. OpsInv /\ [OpsNext]_opsVars => OpsInv'
    BY OpsAssumption, OpsGoOn
<1>3. OpsInv => NothingLost
    <2> SUFFICES ASSUME OpsInv, NEW l \in Opened, NEW i \in DOMAIN hist[l]
                 PROVE  Rooted(hist[l][i]) /\ FilesOf(hist[l][i]) \subseteq Versions \cup gone
        BY DEF NothingLost
    <2>1. hist[l][i] \in Trees
        BY TreeOf DEF OpsInv
    <2> QED
        BY <2>1, RootedIs DEF OpsInv, FilesKept
<1> QED
    BY <1>1, <1>2, <1>3, PTL DEF OpsSpec

\* A task that succeeded has committed what it had read to the destination, and one that did not
\* has not lost it (seaf_copy_manager_get_task).
THEOREM TasksTellTheTruth == OpsSpec => []TaskTruth
<1>1. OpsInit => OpsInv
    BY OpsAssumption, OpsStart
<1>2. OpsInv /\ [OpsNext]_opsVars => OpsInv'
    BY OpsAssumption, OpsGoOn
<1>3. OpsInv => TaskTruth
    <2> SUFFICES ASSUME OpsInv PROVE TaskTruth
        OBVIOUS
    <2>1. CASE NoneOK(task, flags)
        <3>1. NoTask.pc = "none"
            BY DEF NoTask
        <3> QED
            BY <2>1, <3>1 DEF NoneOK, TaskTruth
    <2>2. CASE TaskOK(task, flags)
        <3>1. \A files : ItemsIn(task, files) => \A j \in Range(task.items) : FilesOf(j.node) \subseteq files
            BY DEF ItemsIn, Range
        <3> QED
            BY <2>2, <3>1 DEF TaskOK, TaskTruth
    <2> QED
        BY <2>1, <2>2 DEF OpsInv
<1> QED
    BY <1>1, <1>2, <1>3, PTL DEF OpsSpec
=============================================================================
