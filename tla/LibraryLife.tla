----------------------------- MODULE LibraryLife -----------------------------
(***************************************************************************)
(* The life of a library: created, deleted into the trash, restored, purged, *)
(* and collected by seafserv-gc (server/repo-mgr.c, server/gc/gc-core.c).    *)
(* Each operation is a sequence of SQL statements, one step each; only the   *)
(* restore has a transaction.  Threads of the RPC service and the timer of   *)
(* the trash interleave; a statement may fail; the server may crash between  *)
(* two.  The statements on RepoHead go with those on Branch, and those on    *)
(* the tables of shares, tokens and sizes with that on RepoOwner.            *)
(***************************************************************************)
EXTENDS Naturals, FiniteSets

CONSTANTS
    Libs,           \* ids of libraries
    VRepos,         \* ids of virtual repos
    OriginOf,       \* the library each virtual repo was made from
    Workers,        \* threads
    Overlaps,       \* may a deletion be asked for while the library is being
                    \* deleted or restored, or when it is deleted already?
    MaxHead,        \* bound: commits of one library
    MaxFaults,      \* bound: statements that fail
    MaxCrashes      \* bound: crashes of the server or of the collector

ASSUME LifeAssumption ==
    /\ Libs \cap VRepos = {}
    /\ OriginOf \in [VRepos -> Libs]
    /\ Overlaps \in BOOLEAN
    /\ MaxHead \in Nat \ {0}
    /\ MaxFaults \in Nat
    /\ MaxCrashes \in Nat

Ids == Libs \cup VRepos
SharesOf(l) == {v \in VRepos : OriginOf[v] = l}

VARIABLES
    repo,       \* table Repo: the libraries one can open
    head,       \* table Branch: the head of master, 0 without a row
    owner,      \* table RepoOwner: the libraries with a row
    trash,      \* table RepoTrash: column head_id, 0 without a row
    virt,       \* table VirtualRepo: the virtual repos with a row
    garbage,    \* table GarbageRepos
    store,      \* ids with a directory of objects in the stores
    ops,        \* what each thread is doing
    created,    \* history: libraries whose creation was acknowledged
    asked,      \* history: head of the library when its deletion was asked for
    faults,     \* statements that have failed
    crashes     \* crashes so far

tables == <<repo, head, owner, trash, virt, garbage>>
history == <<created, asked>>
vars == <<tables, store, ops, history, faults, crashes>>

Kinds == {"create", "delete", "unshare", "purge", "restore"}
Places == {"commit", "branch", "repo", "owner", "read", "trash", "shares",
           "next", "virt", "garbage", "transaction"}

\* kind: the operation; lib: of which id; on: the id it works on now, the
\* library or a virtual repo of it; at: the next statement; h: the head it has
\* read; todo: virtual repos it has listed
Op == [kind : Kinds, lib : Ids, on : Ids, at : Places, h : Nat, todo : SUBSET VRepos]
Idle == [kind |-> "none"]

Started(kind, i, at) ==
    [kind |-> kind, lib |-> i, on |-> i, at |-> at, h |-> 0, todo |-> {}]

Busy(i, kinds) == \E w \in Workers : ops[w].kind \in kinds /\ ops[w].lib = i
AllIdle == \A w \in Workers : ops[w] = Idle

\* Some libraries exist already, with their virtual repos.
Init ==
    /\ created \in SUBSET Libs
    /\ virt = {v \in VRepos : OriginOf[v] \in created}
    /\ repo = created \cup virt
    /\ head = [i \in Ids |-> IF i \in repo THEN 1 ELSE 0]
    /\ owner = repo
    /\ trash = [l \in Libs |-> 0]
    /\ garbage = {}
    /\ store = repo
    /\ ops = [w \in Workers |-> Idle]
    /\ asked = [l \in Libs |-> 0]
    /\ faults = 0
    /\ crashes = 0

At(w, place) == ops[w] # Idle /\ ops[w].at = place
Go(w, place) == ops' = [ops EXCEPT ![w].at = place]
End(w) == ops' = [ops EXCEPT ![w] = Idle]
NoFault == faults' = faults
Fault == faults < MaxFaults /\ faults' = faults + 1

-----------------------------------------------------------------------------
(* Creation: the first commit, then Branch, Repo and RepoOwner.            *)

StartCreate(w, l) ==
    /\ ops[w] = Idle
    /\ l \notin created \cup store
    /\ ~Busy(l, Kinds)
    /\ ops' = [ops EXCEPT ![w] = Started("create", l, "commit")]
    /\ UNCHANGED <<tables, store, history, faults, crashes>>

AddCommit(w) ==
    /\ At(w, "commit")
    /\ store' = store \cup {ops[w].lib}
    /\ Go(w, "branch")
    /\ UNCHANGED <<tables, history, faults, crashes>>

AddBranch(w) ==
    /\ At(w, "branch") /\ ops[w].kind = "create"
    /\ head' = [head EXCEPT ![ops[w].lib] = 1]
    /\ Go(w, "repo")
    /\ UNCHANGED <<repo, owner, trash, virt, garbage, store, history, faults, crashes>>

AddRepo(w) ==
    /\ At(w, "repo") /\ ops[w].kind = "create"
    /\ repo' = repo \cup {ops[w].lib}
    /\ Go(w, "owner")
    /\ UNCHANGED <<head, owner, trash, virt, garbage, store, history, faults, crashes>>

SetOwner(w) ==
    /\ At(w, "owner") /\ ops[w].kind = "create"
    /\ owner' = owner \cup {ops[w].lib}
    /\ created' = created \cup {ops[w].lib}
    /\ End(w)
    /\ UNCHANGED <<repo, head, trash, virt, garbage, store, asked, faults, crashes>>

\* Any step of the creation fails: the rest is left where it is.
CreateFails(w) ==
    /\ ops[w].kind = "create"
    /\ Fault
    /\ End(w)
    /\ UNCHANGED <<tables, store, history, crashes>>

\* A request moves the head; one that had opened the library may still do so
\* after a deletion has taken the row of Repo away.
Commit(l) ==
    /\ head[l] \in 1..(MaxHead - 1)
    /\ l \in repo \/ Busy(l, {"delete"})
    /\ head' = [head EXCEPT ![l] = @ + 1]
    /\ UNCHANGED <<repo, owner, trash, virt, garbage, store, ops, history, faults, crashes>>

-----------------------------------------------------------------------------
(* Deletion: seaf_repo_manager_del_repo(), and the removal of a virtual repo *)
(* (remove_virtual_repo_ondisk()), alone or as a part of it.                 *)

\* The web server asks only for libraries it sees.
StartDelete(w, l) ==
    /\ ops[w] = Idle
    /\ Overlaps \/ (l \in repo /\ ~Busy(l, {"delete", "restore"}))
    /\ l \in created
    /\ ops' = [ops EXCEPT ![w] = Started("delete", l, "read")]
    /\ asked' = [asked EXCEPT ![l] = IF l \in repo THEN head[l] ELSE @]
    /\ UNCHANGED <<tables, store, created, faults, crashes>>

\* A merge task has found that the directory is gone.
StartUnshare(w, v) ==
    /\ ops[w] = Idle
    /\ v \in virt
    /\ ops' = [ops EXCEPT ![w] = Started("unshare", v, "repo")]
    /\ UNCHANGED <<tables, store, history, faults, crashes>>

\* The head read without an error: nothing without a row or a commit object
HeadCommit(l) == IF l \in store THEN head[l] ELSE 0

\* Without a head the trash is skipped.
ReadHead(w, h) ==
    ops' = [ops EXCEPT ![w].h = h, ![w].at = IF h = 0 THEN "repo" ELSE "trash"]

GetHeadCommit(w) ==
    /\ At(w, "read") /\ ops[w].kind = "delete"
    /\ \/ ReadHead(w, HeadCommit(ops[w].lib)) /\ NoFault
       \/ ReadHead(w, 0) /\ Fault       \* the commit object cannot be read
       \/ End(w) /\ Fault               \* the database does not answer
    /\ UNCHANGED <<tables, store, history, crashes>>

\* A deletion that keeps the first head, against RestoresWhatWasDeleted
TrashedFirst(l, h) == [trash EXCEPT ![l] = 1]

\* A row is not written without an owner, nor over another one.
Trashed(l, h) ==
    IF l \in owner /\ trash[l] = 0 THEN [trash EXCEPT ![l] = h] ELSE trash

AddToTrash(w) ==
    /\ At(w, "trash") /\ ops[w].kind = "delete"
    /\ \/ trash' = Trashed(ops[w].lib, ops[w].h) /\ NoFault
       \/ trash' = trash /\ Fault
    /\ Go(w, "repo")
    /\ UNCHANGED <<repo, head, owner, virt, garbage, store, history, crashes>>

\* An error ends the operation, except that the deletion of a library goes on
\* with the next of its virtual repos.
DelRepoRow(w) ==
    /\ At(w, "repo") /\ ops[w].kind \in {"delete", "unshare"}
    /\ \/ repo' = repo \ {ops[w].on} /\ Go(w, "branch") /\ NoFault
       \/ /\ repo' = repo /\ Fault
          /\ IF ops[w].on = ops[w].lib THEN End(w) ELSE Go(w, "next")
    /\ UNCHANGED <<head, owner, trash, virt, garbage, store, history, crashes>>

DelBranch(w) ==
    /\ At(w, "branch") /\ ops[w].kind \in {"delete", "unshare"}
    /\ \/ head' = [head EXCEPT ![ops[w].on] = 0] /\ NoFault
       \/ head' = head /\ Fault
    /\ Go(w, "owner")
    /\ UNCHANGED <<repo, owner, trash, virt, garbage, store, history, crashes>>

DelOwner(w) ==
    /\ At(w, "owner") /\ ops[w].kind \in {"delete", "unshare"}
    /\ \/ owner' = owner \ {ops[w].on} /\ NoFault
       \/ owner' = owner /\ Fault
    /\ Go(w, IF ops[w].on \in Libs THEN "shares" ELSE "garbage")
    /\ UNCHANGED <<repo, head, trash, virt, garbage, store, history, crashes>>

ListShares(w) ==
    /\ At(w, "shares")
    /\ \E listed \in {virt \cap SharesOf(ops[w].lib), {}} :
        /\ ops' = [ops EXCEPT ![w].todo = listed, ![w].at = "next"]
        /\ IF listed = virt \cap SharesOf(ops[w].lib) THEN NoFault ELSE Fault
    /\ UNCHANGED <<tables, store, history, crashes>>

\* A deletion that forgets the virtual repos it has listed, against SharesFollow
NoNextShare(w) ==
    /\ At(w, "next")
    /\ Go(w, "virt")
    /\ UNCHANGED <<tables, store, history, faults, crashes>>

NextShare(w) ==
    /\ At(w, "next")
    /\ \/ \E v \in ops[w].todo :
            ops' = [ops EXCEPT ![w].on = v, ![w].todo = @ \ {v}, ![w].at = "repo"]
       \/ ops[w].todo = {} /\ Go(w, "virt")
    /\ UNCHANGED <<tables, store, history, faults, crashes>>

\* Only a deletion that found no head leaves the library to the collector;
\* otherwise it should be in the trash.
DelVirtualRows(w) ==
    /\ At(w, "virt")
    /\ \/ virt' = virt \ ({ops[w].lib} \cup SharesOf(ops[w].lib)) /\ NoFault
       \/ virt' = virt /\ Fault
    /\ IF ops[w].kind = "delete" /\ ops[w].h = 0
       THEN ops' = [ops EXCEPT ![w].on = ops[w].lib, ![w].at = "garbage"]
       ELSE End(w)
    /\ UNCHANGED <<repo, head, owner, trash, garbage, store, history, crashes>>

-----------------------------------------------------------------------------
(* add_deleted_repo_record(), purge and restore                            *)

\* After the record: a removed virtual repo, a library without a head, or a
\* purge, which goes on only when the record is written
AfterRecord(w, written) ==
    CASE ops[w].kind = "unshare" -> Go(w, "virt")
      [] ops[w].kind = "delete" /\ ops[w].on \in VRepos -> Go(w, "next")
      [] ops[w].kind = "delete" /\ ops[w].on \in Libs -> End(w)
      [] ops[w].kind = "purge" -> IF written THEN Go(w, "trash") ELSE End(w)

AddDeletedRepoRecord(w) ==
    /\ At(w, "garbage")
    /\ \/ garbage' = garbage \cup {ops[w].on} /\ NoFault /\ AfterRecord(w, TRUE)
       \/ garbage' = garbage /\ Fault /\ AfterRecord(w, FALSE)
    /\ UNCHANGED <<repo, head, owner, trash, virt, store, history, crashes>>

\* A purge that takes the row of the trash away first, against Recorded
StartPurgeRowFirst(w, l) ==
    /\ ops[w] = Idle
    /\ trash[l] # 0
    /\ ops' = [ops EXCEPT ![w] = Started("purge", l, "trash")]
    /\ UNCHANGED <<tables, store, history, faults, crashes>>

\* The timer and "empty the trash" take ids from a list they read before.
StartPurge(w, l) ==
    /\ ops[w] = Idle
    /\ trash[l] # 0
    /\ ops' = [ops EXCEPT ![w] = Started("purge", l, "garbage")]
    /\ UNCHANGED <<tables, store, history, faults, crashes>>

DelFromTrash(w) ==
    /\ At(w, "trash") /\ ops[w].kind = "purge"
    /\ \/ trash' = [trash EXCEPT ![ops[w].lib] = 0] /\ NoFault
       \/ trash' = trash /\ Fault
    /\ End(w)
    /\ UNCHANGED <<repo, head, owner, virt, garbage, store, history, crashes>>

StartRestore(w, l) ==
    /\ ops[w] = Idle
    /\ trash[l] # 0
    /\ Overlaps \/ ~Busy(l, {"delete"})
    /\ ops' = [ops EXCEPT ![w] = Started("restore", l, "read")]
    /\ UNCHANGED <<tables, store, history, faults, crashes>>

\* The row is read before the transaction; without the row or the commit
\* object the library is not found.
GetRepoFromTrash(w) ==
    LET l == ops[w].lib IN
    /\ At(w, "read") /\ ops[w].kind = "restore"
    /\ \/ /\ trash[l] # 0 /\ l \in store /\ NoFault
          /\ ops' = [ops EXCEPT ![w].h = trash[l], ![w].at = "transaction"]
       \/ (trash[l] = 0 \/ l \notin store) /\ End(w) /\ NoFault
       \/ End(w) /\ Fault
    /\ UNCHANGED <<tables, store, history, crashes>>

\* A restore that leaves the head to be set, against LiveIsComplete
HeadLeft(l, h) == head

\* The restore keeps a row of Branch that is still there.
RestoredHead(l, h) == IF head[l] = 0 THEN [head EXCEPT ![l] = h] ELSE head

RestoreFromTrash(w) ==
    LET l == ops[w].lib IN
    /\ At(w, "transaction")
    /\ \/ /\ repo' = repo \cup {l} /\ NoFault
          /\ head' = RestoredHead(l, ops[w].h)
          /\ owner' = owner \cup {l}
          /\ trash' = [trash EXCEPT ![l] = 0]
       \/ /\ l \notin repo /\ repo' = repo /\ Fault  \* the INSERT into Repo fails:
          /\ head' = RestoredHead(l, ops[w].h)       \* its error is not noticed
          /\ owner' = owner \cup {l}
          /\ trash' = [trash EXCEPT ![l] = 0]
       \/ UNCHANGED <<repo, head, owner, trash>> /\ Fault
    /\ End(w)
    /\ UNCHANGED <<virt, garbage, store, history, crashes>>

-----------------------------------------------------------------------------
(* The collector runs while the server is stopped, so between operations.  *)

\* Objects go unless the library is in table Repo, then the record goes;
\* a collector that is interrupted leaves the record.
Collect(i) ==
    /\ AllIdle
    /\ i \in garbage
    /\ store' = IF i \in repo THEN store ELSE store \ {i}
    /\ \/ garbage' = garbage \ {i} /\ crashes' = crashes
       \/ garbage' = garbage /\ crashes < MaxCrashes /\ crashes' = crashes + 1
    /\ UNCHANGED <<repo, head, owner, trash, virt, ops, history, faults>>

Crash ==
    /\ ~AllIdle
    /\ crashes < MaxCrashes
    /\ crashes' = crashes + 1
    /\ ops' = [w \in Workers |-> Idle]
    /\ UNCHANGED <<tables, store, history, faults>>

Create(w) == \/ AddCommit(w) \/ AddBranch(w) \/ AddRepo(w) \/ SetOwner(w) \/ CreateFails(w)
Delete(w) == \/ GetHeadCommit(w) \/ AddToTrash(w) \/ DelRepoRow(w) \/ DelBranch(w)
             \/ DelOwner(w) \/ ListShares(w) \/ NextShare(w) \/ DelVirtualRows(w)
Trash(w) == \/ AddDeletedRepoRecord(w) \/ DelFromTrash(w)
            \/ GetRepoFromTrash(w) \/ RestoreFromTrash(w)
Start(w) == \/ \E l \in Libs : \/ StartCreate(w, l) \/ StartDelete(w, l)
                               \/ StartPurge(w, l) \/ StartRestore(w, l)
            \/ \E v \in VRepos : StartUnshare(w, v)

Next == \/ \E w \in Workers : Start(w) \/ Create(w) \/ Delete(w) \/ Trash(w)
        \/ \E l \in Libs : Commit(l)
        \/ \E i \in Ids : Collect(i)
        \/ Crash

Spec == Init /\ [][Next]_vars

-----------------------------------------------------------------------------
TypeOK ==
    /\ repo \in SUBSET Ids /\ owner \in SUBSET Ids
    /\ garbage \in SUBSET Ids /\ store \in SUBSET Ids
    /\ virt \in SUBSET VRepos
    /\ head \in [Ids -> Nat]
    /\ trash \in [Libs -> Nat]
    /\ ops \in [Workers -> Op \cup {Idle}]
    /\ created \in SUBSET Libs /\ asked \in [Libs -> Nat]
    /\ faults \in 0..MaxFaults /\ crashes \in 0..MaxCrashes

\* Wherever the server crashes, a library whose creation was acknowledged and
\* whose objects are stored is in use, in the trash, or recorded for the
\* collector: del_repo() writes RepoTrash before it deletes from Repo, a purge
\* writes GarbageRepos before it deletes from RepoTrash.  A statement that
\* fails may break this: del_repo() goes on without a row in the trash, and
\* the restore does not notice that it could not insert into Repo.
Recorded ==
    faults = 0 =>
        \A l \in created \cap store : l \in repo \/ trash[l] # 0 \/ l \in garbage

\* A library one can open has a head, an owner and its objects, whatever
\* failed and wherever the server crashed in the operations on it before:
\* creation writes Repo after Branch, deletion removes it first, a restore
\* puts all back, and the collector does not touch it.  (With Overlaps = FALSE:
\* a deletion that was still removing rows would take them from a restored one.)
LiveIsComplete ==
    \A l \in created \cap repo :
        ~Busy(l, {"delete"}) => head[l] # 0 /\ l \in owner /\ l \in store

\* The virtual repos of a library go with it, also when a merge task removes
\* one of them at the same time, and their commits are left to the collector.
SharesFollow ==
    faults = 0 /\ crashes = 0 =>
        \A v \in VRepos :
            ~Busy(v, {"unshare"}) /\ ~Busy(OriginOf[v], {"delete"}) =>
                /\ v \in repo <=> v \in virt
                /\ v \in repo => OriginOf[v] \in repo
                /\ v \in repo \/ v \in garbage \/ v \notin store

\* A restored library has all that was acknowledged before its deletion was
\* asked for, though purges, restores and commits meet.
RestoresWhatWasDeleted ==
    faults = 0 /\ crashes = 0 =>
        \A l \in created \cap repo : ~Busy(l, {"delete"}) => head[l] >= asked[l]

\* The objects of a library in the trash are kept, the trash exists to restore
\* it: only a purge, which takes the row of the trash away as well, should leave
\* a library that del_repo() has put there to the collector.
TrashKeepsObjects == \A l \in Libs : trash[l] # 0 => l \in store
=============================================================================
