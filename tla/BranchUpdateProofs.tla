------------------------- MODULE BranchUpdateProofs -------------------------
(***************************************************************************)
(* Proofs about FileMerge, for any directories, and about BranchUpdate, for  *)
(* any number of threads, files, users, retries and requests. First what is  *)
(* needed for the store of commits to stay closed; from this invariant        *)
(* follows what the history of a library promises: requests take effect       *)
(* atomically (the refinement of AtomicBranch), merges lose no file, retries  *)
(* are caused by progress; and, where no two commits are made in one second, *)
(* nothing acknowledged is lost, renames are applied, and only renames change *)
(* the name.                                                                 *)
(***************************************************************************)
EXTENDS BranchUpdate, TLAPS

----------------------------------------------------------------------------
\* The three-way merge, for any three directories

\* The merge of directories is a directory (merge_entries() writes dirents).
LEMMA MergeFilesType ==
    ASSUME NEW b \in SUBSET Dirent, NEW h \in SUBSET Dirent,
           NEW r \in SUBSET Dirent
    PROVE  MergeFiles(b, h, r) \in SUBSET Dirent
<1>1. ASSUME NEW e \in r
      PROVE  ConflictCopy(e) \in Dirent
    <2>1. e.name \in Seq(Names \cup FileIds) /\ e.id \in Names \cup FileIds
        BY <1>1 DEF Dirent, Path
    <2>2. Append(e.name, e.id) \in Seq(Names \cup FileIds)
        BY <2>1
    <2> QED
        BY <1>1, <2>2 DEF ConflictCopy, Dirent, Path
<1> QED
    BY <1>1 DEF MergeFiles

\* Head has not moved since the base: the result is remote's directory (the
\* fast forward that gen_new_commit() makes without calling the merge).
THEOREM MergeFastForward ==
    ASSUME NEW b, NEW r
    PROVE  MergeFiles(b, b, r) = r
BY DEF MergeFiles, Conflicting

\* Remote has no change: the result is head's directory.
THEOREM MergeNothing ==
    ASSUME NEW b, NEW h
    PROVE  MergeFiles(b, h, b) = h
BY DEF MergeFiles, Conflicting

\* Both sides made the same change: the result is that change, so a request
\* that is applied a second time at once changes nothing.
THEOREM MergeSame ==
    ASSUME NEW b, NEW h, \A x, y \in h : x.name = y.name => x = y
    PROVE  MergeFiles(b, h, h) = h
BY DEF MergeFiles, Conflicting

\* Nothing head added or changed is lost.
THEOREM MergeKeepsHead ==
    ASSUME NEW b, NEW h, NEW r
    PROVE  h \ b \subseteq MergeFiles(b, h, r)
BY DEF MergeFiles

\* Nothing remote added or changed is lost: it is there under its own name,
\* or, when head has another version of that file, under the conflict name.
THEOREM MergeKeepsRemote ==
    ASSUME NEW b, NEW h, NEW r, NEW e \in r \ b
    PROVE  \/ e \in MergeFiles(b, h, r)
           \/ /\ Conflicting(b, h, e)
              /\ ConflictCopy(e) \in MergeFiles(b, h, r)
BY DEF MergeFiles

\* What remote deleted or changed, and head did not touch, is gone; the one
\* exception is a conflict copy that happens to be that very dirent.
THEOREM MergeDeletes ==
    ASSUME NEW b, NEW h, NEW r, NEW e \in b \ r, e \in MergeFiles(b, h, r)
    PROVE  \E x \in r \ b : /\ Conflicting(b, h, x)
                            /\ e = ConflictCopy(x)
BY DEF MergeFiles

----------------------------------------------------------------------------
\* The inductive invariant behind TypeOK and HistoryClosed.

\* A commit store: parents are stored before their children, and only the
\* first commit has no parent.
StoreOK(cs) ==
    /\ DOMAIN cs \subseteq CommitId
    /\ \A c \in DOMAIN cs :
        /\ cs[c] \in Body
        /\ cs[c].parent # None => cs[c].parent \in DOMAIN cs
        /\ cs[c].second # None => cs[c].second \in DOMAIN cs
        /\ c.desc.op # "created" => cs[c].parent # None

\* Whatever the database or a client refers to is stored.
RefsOK ==
    /\ branch # None => branch \in DOMAIN commits
    /\ published \subseteq DOMAIN commits
    /\ uploaded \subseteq DOMAIN commits
    /\ \A c \in uploaded : c.desc.op # "created"

\* The commits in the local variables of a thread that serves a request.
ThreadOK(p) ==
    /\ req[p].desc.op # "created"
    /\ pc[p] # "idle" => req[p].user \in Users /\ req[p].kind # "none"
    /\ pc[p] # "idle" /\ req[p].kind # "edit" => req[p].base \in DOMAIN commits
    /\ pc[p] # "idle" /\ req[p].kind = "sync" => req[p].new \in DOMAIN commits
    /\ pc[p] = "retry" => req[p].kind \in {"write", "sync"}
    /\ pc[p] \in {"cas", "retry", "info", "info2"} =>
          /\ req[p].new \in DOMAIN commits
          /\ req[p].old \in DOMAIN commits
          /\ req[p].target \in DOMAIN commits

Inv ==
    /\ TypeOK
    /\ StoreOK(commits)
    /\ RefsOK
    /\ \A p \in Procs : ThreadOK(p)

----------------------------------------------------------------------------
\* The commit store

\* The fields of a commit object that are not hashed have their types when its
\* parents are stored commits (seaf_commit_new(), repo_to_commit()).
LEMMA MakeBodyType ==
    ASSUME NEW cs, StoreOK(cs), NEW c \in CommitId,
           NEW parent \in DOMAIN cs, NEW second \in DOMAIN cs \cup {None},
           NEW rname \in RepoNames
    PROVE  /\ MakeBody(cs, c, parent, second, rname) \in Body
           /\ MakeBody(cs, c, parent, second, rname).parent = parent
           /\ MakeBody(cs, c, parent, second, rname).second = second
           /\ MakeBody(cs, c, parent, second, rname).rname = rname
           /\ MakeBody(cs, c, parent, second, rname).anc =
                {c} \cup cs[parent].anc \cup Ancestors(cs, second)
<1>1. parent # None /\ parent \in CommitId /\ second \in CommitId \cup {None}
    BY NoneAssumption DEF StoreOK
<1>2. Ancestors(cs, parent) = cs[parent].anc /\ cs[parent].anc \subseteq CommitId
    BY <1>1 DEF Ancestors, StoreOK, Body
<1>3. Ancestors(cs, second) \subseteq CommitId
    BY DEF Ancestors, StoreOK, Body
<1> QED
    BY <1>1, <1>2, <1>3 DEF MakeBody, Body

\* save_commit() keeps a store a store and changes no stored object.
LEMMA SaveStoreOK ==
    ASSUME NEW cs, StoreOK(cs), NEW c \in CommitId, NEW body \in Body,
           body.parent \in DOMAIN cs, body.second \in DOMAIN cs \cup {None}
    PROVE  /\ StoreOK(Save(cs, c, body))
           /\ DOMAIN Save(cs, c, body) = DOMAIN cs \cup {c}
           /\ \A x \in DOMAIN cs : Save(cs, c, body)[x] = cs[x]
           /\ c \notin DOMAIN cs => Save(cs, c, body)[c] = body
<1>1. body.parent # None
    BY NoneAssumption DEF StoreOK
<1>2. CASE c \in DOMAIN cs
    BY <1>2 DEF Save
<1>3. CASE c \notin DOMAIN cs
    <2>1. Save(cs, c, body) =
            [x \in DOMAIN cs \cup {c} |-> IF x = c THEN body ELSE cs[x]]
        BY <1>3 DEF Save
    <2>2. \A x \in DOMAIN cs \cup {c} :
            Save(cs, c, body)[x] = IF x = c THEN body ELSE cs[x]
        BY <2>1
    <2> QED
        BY <1>1, <1>3, <2>1, <2>2 DEF StoreOK
<1> QED
    BY <1>2, <1>3

----------------------------------------------------------------------------
\* Inv is inductive

\* The library as create_repo_common() leaves it satisfies Inv.
LEMMA InitInv == Init => Inv
<1> SUFFICES ASSUME Init PROVE Inv
    OBVIOUS
<1> USE ConstantsAssumption, NoneAssumption
<1>1. InitCommit \in CommitId /\ InitCommit.desc.op = "created"
    <2>1. (CHOOSE u \in Users : TRUE) \in Users
        OBVIOUS
    <2> QED
        BY <2>1 DEF InitCommit, CommitId, Desc
<1>2. DOMAIN commits = {InitCommit} /\ commits[InitCommit] \in Body
      /\ commits[InitCommit].parent = None /\ commits[InitCommit].second = None
    BY <1>1 DEF Init, Body
<1>3. NoReq \in Request
    BY DEF NoReq, Request, Desc
<1>4. TypeOK
    BY <1>1, <1>2, <1>3 DEF Init, TypeOK
<1>5. StoreOK(commits)
    BY <1>1, <1>2 DEF StoreOK
<1>6. RefsOK
    BY <1>2 DEF RefsOK, Init
<1>7. ASSUME NEW p \in Procs PROVE ThreadOK(p)
    <2>1. pc[p] = "idle" /\ req[p] = NoReq
        BY DEF Init
    <2> QED
        BY <2>1 DEF ThreadOK, NoReq
<1> QED
    BY <1>4, <1>5, <1>6, <1>7 DEF Inv

\* A thread that does not move is not disturbed by new objects in the store.
LEMMA ThreadOKStable ==
    ASSUME NEW q \in Procs, ThreadOK(q), DOMAIN commits \subseteq DOMAIN commits',
           pc'[q] = pc[q], req'[q] = req[q]
    PROVE  ThreadOK(q)'
BY DEF ThreadOK

\* A request begins.
LEMMA BeginInv ==
    ASSUME Inv, NEW p \in Procs, NEW r \in Request, Begin(p, r),
           r.desc.op # "created", r.user \in Users, r.kind # "none",
           r.kind # "edit" => r.base \in DOMAIN commits,
           r.kind = "sync" => r.new \in DOMAIN commits
    PROVE  Inv'
<1>1. pc' = [pc EXCEPT ![p] = "begin"] /\ req' = [req EXCEPT ![p] = r]
    BY DEF Begin
<1>2. /\ commits' = commits /\ uploaded' = uploaded /\ branch' = branch
      /\ published' = published /\ acked' = acked /\ updates' = updates
      /\ repoRow' = repoRow /\ repoInfo' = repoInfo /\ now' = now
      /\ faults' = faults /\ ops' = ops + 1
    BY DEF Begin, store, db, history
<1>3. TypeOK'
    BY <1>1, <1>2 DEF Inv, TypeOK
<1>4. StoreOK(commits)' /\ RefsOK'
    BY <1>2 DEF Inv, StoreOK, RefsOK
<1>5. ASSUME NEW q \in Procs PROVE ThreadOK(q)'
    <2>1. CASE q = p
        <3>1. pc'[p] = "begin" /\ req'[p] = r
            BY <1>1 DEF Inv, TypeOK
        <3> QED
            BY <1>2, <2>1, <3>1 DEF ThreadOK
    <2>2. CASE q # p
        <3>1. pc'[q] = pc[q] /\ req'[q] = req[q]
            BY <1>1, <2>2 DEF Inv, TypeOK
        <3> QED
            BY <1>2, <3>1, ThreadOKStable DEF Inv
    <2> QED
        BY <2>1, <2>2
<1> QED
    BY <1>3, <1>4, <1>5 DEF Inv

\* The file operations give directories.
LEMMA DirOpsType ==
    ASSUME NEW dir \in SUBSET Dirent, NEW n \in Names, NEW m \in Names,
           NEW i \in 0..LastSuffix, NEW id \in FileIds
    PROVE  /\ PostFile(dir, n, i, id) \in SUBSET Dirent
           /\ PutFile(dir, n, id) \in SUBSET Dirent
           /\ DelFile(dir, n) \in SUBSET Dirent
           /\ RenameFile(dir, n, m) \in SUBSET Dirent
<1>1. PlainName(n) \in Path /\ PlainName(m) \in Path
    BY DEF PlainName, Path
<1>2. Numbered(n, i) \in Path
    <2>1. i + 1 \in Nat
        BY LastSuffixAssumption
    <2> QED
        BY <2>1 DEF Numbered, Path
<1>3. \A e \in dir : e.id \in FileIds
    BY DEF Dirent
<1> QED
    BY <1>1, <1>2, <1>3 DEF PostFile, PutFile, DelFile, RenameFile, Named, Dirent

\* A file operation on a stored commit begins (post, put, delete, rename).
LEMMA BeginWriteInv ==
    ASSUME Inv, NEW p \in Procs, NEW u \in Users, NEW b \in DOMAIN commits,
           NEW root \in SUBSET Dirent, NEW n \in Names,
           NEW op \in {"added", "modified", "deleted", "renamed"},
           BeginWrite(p, u, b, root, op, n)
    PROVE  Inv'
<1> DEFINE r == [NoReq EXCEPT !.kind = "write", !.user = u, !.base = b,
                              !.root = root, !.desc = [op |-> op, name |-> n],
                              !.since = updates]
<1>1. /\ r \in Request /\ r.desc.op # "created" /\ r.user \in Users
      /\ r.kind = "write" /\ r.base \in DOMAIN commits
    BY DEF Inv, TypeOK, StoreOK, NoReq, Request, Desc
<1>2. Begin(p, r)
    BY DEF BeginWrite
<1> HIDE DEF r
<1> QED
    BY <1>1, <1>2, BeginInv

\* Every request that a thread may begin keeps Inv.
LEMMA NewRequestInv ==
    ASSUME Inv, NEW p \in Procs, NewRequest(p)
    PROVE  Inv'
<1>0. 0 \in 0..LastSuffix
    BY LastSuffixAssumption
<1>1. /\ branch # None => branch \in DOMAIN commits
      /\ published \subseteq DOMAIN commits
      /\ \A c \in DOMAIN commits : c \in CommitId /\ c.root \in SUBSET Dirent
                                   /\ c.ctime \in Nat /\ c.creator \in Users
    BY DEF Inv, StoreOK, RefsOK, CommitId
<1>2. ASSUME NEW u \in Users, NEW n \in Names, NEW id \in FileIds,
             BeginPost(p, u, n, id)
      PROVE  Inv'
    <2>1. PICK i \in 0..LastSuffix :
            BeginWrite(p, u, branch, PostFile(branch.root, n, i, id), "added", n)
        BY <1>2 DEF BeginPost
    <2>2. branch \in DOMAIN commits /\ PostFile(branch.root, n, i, id) \in SUBSET Dirent
        BY <1>1, <1>2, DirOpsType DEF BeginPost
    <2> QED
        BY <2>1, <2>2, BeginWriteInv
<1>3. ASSUME NEW u \in Users, NEW n \in Names, NEW id \in FileIds,
             NEW b \in published, BeginPut(p, u, n, id, b)
      PROVE  Inv'
    <2>1. b \in DOMAIN commits /\ PutFile(b.root, n, id) \in SUBSET Dirent
        BY <1>0, <1>1, DirOpsType
    <2> QED
        BY <1>3, <2>1, BeginWriteInv DEF BeginPut
<1>4. ASSUME NEW u \in Users, NEW n \in Names, BeginDel(p, u, n)
      PROVE  Inv'
    <2>1. branch \in DOMAIN commits /\ DelFile(branch.root, n) \in SUBSET Dirent
        BY <1>1, <1>4 DEF BeginDel, DelFile
    <2> QED
        BY <1>4, <2>1, BeginWriteInv DEF BeginDel
<1>5. ASSUME NEW u \in Users, NEW n \in Names, NEW m \in Names,
             BeginRename(p, u, n, m)
      PROVE  Inv'
    <2>1. branch \in DOMAIN commits
        BY <1>1, <1>5 DEF BeginRename
    <2>2. PICK e \in branch.root : TRUE
        BY <1>5 DEF BeginRename, Exists, Named
    <2>3. e.id \in FileIds
        BY <1>1, <2>1, <2>2 DEF Dirent
    <2>4. RenameFile(branch.root, n, m) \in SUBSET Dirent
        BY <1>0, <1>1, <2>1, <2>3, DirOpsType
    <2> QED
        BY <1>5, <2>1, <2>4, BeginWriteInv DEF BeginRename
<1>6. ASSUME NEW u \in Users, NEW name \in RepoNames \cup {None},
             BeginEdit(p, u, name)
      PROVE  Inv'
    <2> DEFINE r == [NoReq EXCEPT !.kind = "edit", !.user = u, !.name = name,
                                  !.given = (name # None), !.since = updates]
    <2>1. /\ r \in Request /\ r.desc.op # "created" /\ r.user \in Users
          /\ r.kind = "edit"
        BY DEF Inv, TypeOK, NoReq, Request, Desc
    <2>2. Begin(p, r)
        BY <1>6 DEF BeginEdit
    <2> HIDE DEF r
    <2> QED
        BY <2>1, <2>2, BeginInv
<1>7. ASSUME NEW u \in Users, NEW c \in published, BeginRevert(p, u, c)
      PROVE  Inv'
    <2> DEFINE r == [NoReq EXCEPT !.kind = "revert", !.user = u, !.base = c,
                              !.root = c.root, !.since = updates,
                              !.desc = [op |-> "reverted", ctime |-> c.ctime]]
    <2>0. c \in DOMAIN commits /\ c \in CommitId /\ c.root \in SUBSET Dirent
          /\ c.ctime \in Nat
        BY <1>1
    <2>1. /\ r \in Request /\ r.desc.op # "created" /\ r.user \in Users
          /\ r.kind = "revert" /\ r.base \in DOMAIN commits
        BY <2>0 DEF Inv, TypeOK, NoReq, Request, Desc
    <2>2. Begin(p, r)
        BY <1>7 DEF BeginRevert
    <2> HIDE DEF r
    <2> QED
        BY <2>1, <2>2, BeginInv
<1>8. ASSUME NEW c \in uploaded, BeginSync(p, c)
      PROVE  Inv'
    <2> DEFINE r == [NoReq EXCEPT !.kind = "sync", !.user = c.creator,
                              !.base = commits[c].parent, !.root = c.root,
                              !.desc = c.desc, !.new = c, !.since = updates]
    <2>1. /\ c \in DOMAIN commits /\ c \in CommitId /\ c.desc.op # "created"
          /\ commits[c].parent \in DOMAIN commits
        BY DEF Inv, StoreOK, RefsOK
    <2>2. commits[c].parent \in CommitId
        BY <2>1 DEF Inv, StoreOK
    <2>3. /\ r \in Request /\ r.desc.op # "created" /\ r.user \in Users
          /\ r.kind = "sync" /\ r.base \in DOMAIN commits /\ r.new \in DOMAIN commits
        BY <2>1, <2>2 DEF Inv, TypeOK, NoReq, Request, CommitId
    <2>4. Begin(p, r)
        BY <1>8 DEF BeginSync
    <2> HIDE DEF r
    <2> QED
        BY <2>3, <2>4, BeginInv
<1> QED
    BY <1>2, <1>3, <1>4, <1>5, <1>6, <1>7, <1>8 DEF NewRequest

\* A sync client stores a commit.
LEMMA PutCommitInv ==
    ASSUME Inv, NEW u \in Users, NEW b \in published, NEW n \in Names,
           NEW root \in SUBSET Dirent, NEW op \in {"added", "modified", "deleted"},
           PutCommit(u, b, root, op, n)
    PROVE  Inv'
<1> DEFINE c == [root |-> root, creator |-> u, desc |-> [op |-> op, name |-> n],
                 ctime |-> now']
           body == MakeBody(commits, c, b, None, NameOf(b))
<1>1. now' \in Nat
    BY DEF PutCommit, Tick, Inv, TypeOK
<1>2. c \in CommitId /\ c.desc.op # "created"
    BY <1>1 DEF CommitId, Desc
<1>3. b \in DOMAIN commits /\ NameOf(b) \in RepoNames
    BY DEF Inv, RefsOK, StoreOK, Body, NameOf
<1>4. commits' = Save(commits, c, body) /\ uploaded' = uploaded \cup {c}
    BY DEF PutCommit
<1> HIDE DEF c
<1>5. body \in Body /\ body.parent = b /\ body.second = None
    BY <1>2, <1>3, MakeBodyType DEF Inv
<1> HIDE DEF body
<1>6. /\ StoreOK(commits') /\ DOMAIN commits' = DOMAIN commits \cup {c}
    BY <1>2, <1>3, <1>4, <1>5, SaveStoreOK DEF Inv
<1>7. /\ branch' = branch /\ published' = published /\ acked' = acked
      /\ updates' = updates /\ repoRow' = repoRow /\ repoInfo' = repoInfo
      /\ pc' = pc /\ req' = req /\ faults' = faults /\ ops' = ops + 1
    BY DEF PutCommit, db, history
<1>8. TypeOK'
    BY <1>1, <1>2, <1>4, <1>6, <1>7 DEF Inv, TypeOK, StoreOK
<1>9. RefsOK'
    BY <1>2, <1>4, <1>6, <1>7 DEF Inv, RefsOK
<1>10. ASSUME NEW q \in Procs PROVE ThreadOK(q)'
    BY <1>6, <1>7, ThreadOKStable DEF Inv
<1> QED
    BY <1>6, <1>8, <1>9, <1>10 DEF Inv

\* Every commit that put_commit_cb() may store keeps Inv.
LEMMA ClientCommitInv ==
    ASSUME Inv, ClientCommit
    PROVE  Inv'
<1>1. PICK u \in Users, b \in published, n \in Names :
        \/ \E id \in FileIds :
             PutCommit(u, b, PutFile(b.root, n, id),
                       IF Exists(b.root, PlainName(n)) THEN "modified"
                       ELSE "added", n)
        \/ PutCommit(u, b, DelFile(b.root, n), "deleted", n)
    BY DEF ClientCommit
<1>2. b.root \in SUBSET Dirent
    BY DEF Inv, StoreOK, RefsOK, CommitId
<1>3. \A id \in FileIds : PutFile(b.root, n, id) \in SUBSET Dirent
    <2>1. 0 \in 0..LastSuffix
        BY LastSuffixAssumption
    <2> QED
        BY <1>2, <2>1, DirOpsType
<1>4. DelFile(b.root, n) \in SUBSET Dirent
    BY <1>2 DEF DelFile
<1>5. (IF Exists(b.root, PlainName(n)) THEN "modified" ELSE "added")
        \in {"added", "modified", "deleted"}
    OBVIOUS
<1> QED
    BY <1>1, <1>3, <1>4, <1>5, PutCommitInv

\* What an attempt leaves in the local variables of its thread.
LEMMA AttemptRequest ==
    ASSUME NEW r \in Request, NEW n \in CommitId, NEW o \in CommitId,
           NEW t \in CommitId, NEW k \in Nat
    PROVE  [r EXCEPT !.new = n, !.old = o, !.at = k, !.target = t] \in Request
BY DEF Request

\* An attempt of gen_new_commit() or fast_forward_or_merge(): cs is the store
\* with the commit n of the request in it.
LEMMA AttemptInv ==
    ASSUME Inv, NEW p \in Procs, NEW cs, NEW n \in DOMAIN cs, StoreOK(cs),
           DOMAIN commits \subseteq DOMAIN cs, RepoOpen, Tick, Attempt(p, cs, n),
           pc[p] # "idle", req[p].kind \in {"write", "sync"}
    PROVE  /\ Inv'
           /\ DOMAIN cs \subseteq DOMAIN commits'
           /\ \A x \in DOMAIN cs : commits'[x] = cs[x]
<1> DEFINE b == req[p].base
           m == MergedCommit(b, branch, n, req[p].user, now')
           body == MakeBody(cs, m, branch, n, NameOf(branch))
<1>1. now' \in Nat
    BY DEF Tick, Inv, TypeOK
<1>2. /\ branch \in DOMAIN commits /\ branch \in DOMAIN cs
      /\ NameOf(branch) \in RepoNames
    BY DEF Inv, RefsOK, StoreOK, Body, NameOf, RepoOpen
<1>3. b \in DOMAIN commits /\ req[p].user \in Users
    BY DEF Inv, ThreadOK
<1>4. /\ b.root \in SUBSET Dirent /\ branch.root \in SUBSET Dirent
      /\ n.root \in SUBSET Dirent
    BY <1>2, <1>3 DEF Inv, StoreOK, CommitId
<1>5. m \in CommitId
    <2>1. MergeFiles(b.root, branch.root, n.root) \in SUBSET Dirent
        BY <1>4, MergeFilesType
    <2>2. MergeDesc(b, branch, n) \in Desc
        BY <1>4 DEF MergeDesc, Desc
    <2> QED
        BY <1>1, <1>3, <2>1, <2>2 DEF MergedCommit, CommitId
<1>a. commits' = IF b = branch THEN cs ELSE Save(cs, m, body)
    BY DEF Attempt
<1>6. /\ req' = [req EXCEPT ![p] =
                    [@ EXCEPT !.new = n, !.old = branch, !.at = updates,
                              !.target = IF b = branch THEN n ELSE m]]
      /\ pc' = [pc EXCEPT ![p] = "cas"]
    BY DEF Attempt
<1>7. /\ branch' = branch /\ published' = published /\ acked' = acked
      /\ updates' = updates /\ repoRow' = repoRow /\ repoInfo' = repoInfo
      /\ uploaded' = uploaded /\ faults' = faults /\ ops' = ops
    BY DEF Attempt, db, history
<1> HIDE DEF m
<1>8. body \in Body /\ body.parent = branch /\ body.second = n
    BY <1>2, <1>5, MakeBodyType
<1> HIDE DEF body
<1>9. /\ StoreOK(commits') /\ DOMAIN cs \subseteq DOMAIN commits'
      /\ \A x \in DOMAIN cs : commits'[x] = cs[x]
      /\ b # branch => m \in DOMAIN commits'
    <2>1. CASE b = branch
        BY <1>a, <2>1
    <2>2. CASE b # branch
        <3>1. commits' = Save(cs, m, body)
            BY <1>a, <2>2
        <3>2. /\ StoreOK(Save(cs, m, body))
              /\ DOMAIN Save(cs, m, body) = DOMAIN cs \cup {m}
              /\ \A x \in DOMAIN cs : Save(cs, m, body)[x] = cs[x]
            BY <1>2, <1>5, <1>8, SaveStoreOK
        <3> QED
            BY <3>1, <3>2
    <2> QED
        BY <2>1, <2>2
<1>10. n \in CommitId /\ branch \in CommitId
    BY <1>2 DEF StoreOK
<1>11. TypeOK'
    <2>1. req' \in [Procs -> Request]
        <3>1. req \in [Procs -> Request] /\ updates \in Nat
            BY DEF Inv, TypeOK
        <3>2. (IF b = branch THEN n ELSE m) \in CommitId
            BY <1>5, <1>10
        <3>3. [req[p] EXCEPT !.new = n, !.old = branch, !.at = updates,
                             !.target = IF b = branch THEN n ELSE m] \in Request
            BY <1>10, <3>1, <3>2, AttemptRequest
        <3> QED
            BY <1>6, <3>1, <3>3
    <2> QED
        BY <1>1, <1>6, <1>7, <1>9, <2>1 DEF Inv, TypeOK, StoreOK
<1>12. RefsOK'
    BY <1>2, <1>7, <1>9 DEF Inv, RefsOK
<1>13. ASSUME NEW q \in Procs PROVE ThreadOK(q)'
    <2>1. CASE q = p
        <3>1. /\ pc'[p] = "cas" /\ req'[p].kind = req[p].kind
              /\ req'[p].desc = req[p].desc /\ req'[p].user = req[p].user
              /\ req'[p].base = b /\ req'[p].new = n /\ req'[p].old = branch
              /\ req'[p].target = IF b = branch THEN n ELSE m
            BY <1>6 DEF Inv, TypeOK, Request
        <3> QED
            BY <1>2, <1>3, <1>9, <2>1, <3>1 DEF Inv, ThreadOK
    <2>2. CASE q # p
        <3>1. pc'[q] = pc[q] /\ req'[q] = req[q]
            BY <1>6, <2>2 DEF Inv, TypeOK
        <3> QED
            BY <1>9, <3>1, ThreadOKStable DEF Inv
    <2> QED
        BY <2>1, <2>2
<1> QED
    BY <1>9, <1>11, <1>12, <1>13 DEF Inv

\* gen_new_commit() first stores the commit of the request: cs is the store
\* after that, n that commit.
LEMMA GenNewCommitStore ==
    ASSUME Inv, NEW p \in Procs, GenNewCommit(p), NEW n, NEW cs,
           n = [root |-> req[p].root, creator |-> req[p].user,
                desc |-> req[p].desc, ctime |-> now'],
           cs = Save(commits, n, MakeBody(commits, n, req[p].base, None,
                                          NameOf(branch)))
    PROVE  /\ Attempt(p, cs, n) /\ StoreOK(cs)
           /\ DOMAIN cs = DOMAIN commits \cup {n}
           /\ \A x \in DOMAIN commits : cs[x] = commits[x]
           /\ n \notin DOMAIN commits =>
                /\ cs[n].parent = req[p].base
                /\ cs[n].anc = {n} \cup commits[req[p].base].anc
<1>1. now' \in Nat
    BY DEF GenNewCommit, Tick, Inv, TypeOK
<1>2. /\ req[p] \in Request /\ req[p].desc.op # "created"
      /\ req[p].user \in Users /\ req[p].base \in DOMAIN commits
    BY DEF GenNewCommit, Inv, TypeOK, ThreadOK
<1>3. n \in CommitId
    BY <1>1, <1>2 DEF CommitId, Request
<1>4. NameOf(branch) \in RepoNames
    BY DEF GenNewCommit, RepoOpen, Inv, RefsOK, StoreOK, Body, NameOf
<1> DEFINE body == MakeBody(commits, n, req[p].base, None, NameOf(branch))
<1>5. /\ body \in Body /\ body.parent = req[p].base /\ body.second = None
      /\ body.anc = {n} \cup commits[req[p].base].anc \cup Ancestors(commits, None)
    BY <1>2, <1>3, <1>4, MakeBodyType DEF Inv
<1>6. Ancestors(commits, None) = {}
    BY DEF Ancestors
<1>7. Attempt(p, cs, n)
    BY DEF GenNewCommit
<1>8. cs = Save(commits, n, body)
    OBVIOUS
<1> HIDE DEF body
<1> QED
    BY <1>2, <1>3, <1>5, <1>6, <1>7, <1>8, SaveStoreOK DEF Inv

\* gen_new_commit(), fast_forward_or_merge() and their retries keep Inv up to
\* the compare-and-set.
LEMMA AttemptsInv ==
    ASSUME Inv, NEW p \in Procs,
           GenNewCommit(p) \/ FastForwardOrMerge(p) \/ Retry(p)
    PROVE  Inv'
<1>1. CASE GenNewCommit(p)
    <2> DEFINE n == [root |-> req[p].root, creator |-> req[p].user,
                     desc |-> req[p].desc, ctime |-> now']
               cs == Save(commits, n, MakeBody(commits, n, req[p].base, None,
                                               NameOf(branch)))
    <2>1. /\ Attempt(p, cs, n) /\ StoreOK(cs) /\ DOMAIN cs = DOMAIN commits \cup {n}
        BY <1>1, GenNewCommitStore
    <2>2. Tick /\ RepoOpen /\ pc[p] # "idle" /\ req[p].kind \in {"write", "sync"}
        BY <1>1 DEF GenNewCommit
    <2> HIDE DEF n, cs
    <2> QED
        BY <2>1, <2>2, AttemptInv
<1>2. CASE FastForwardOrMerge(p) \/ Retry(p)
    <2>1. /\ Attempt(p, commits, req[p].new) /\ Tick /\ RepoOpen /\ pc[p] # "idle"
          /\ req[p].kind \in {"write", "sync"} /\ req[p].new \in DOMAIN commits
        BY <1>2 DEF FastForwardOrMerge, Retry, Inv, ThreadOK
    <2> QED
        BY <2>1, AttemptInv DEF Inv
<1> QED
    BY <1>1, <1>2

\* edit_repo() and revert_on_server()
LEMMA CommitInv ==
    ASSUME Inv, NEW p \in Procs, RepoOpen, Tick, NEW c \in CommitId,
           NEW name \in RepoNames, Commit(p, c, name),
           pc[p] = "begin", req[p].kind \in {"edit", "revert"}
    PROVE  /\ Inv'
           /\ DOMAIN commits' = DOMAIN commits \cup {c}
           /\ \A x \in DOMAIN commits : commits'[x] = commits[x]
           /\ c \notin DOMAIN commits =>
                commits'[c].anc = {c} \cup commits[branch].anc
<1> DEFINE body == MakeBody(commits, c, branch, None, name)
<1>1. now' \in Nat
    BY DEF Tick, Inv, TypeOK
<1>2. branch \in DOMAIN commits /\ branch \in CommitId
    BY DEF Inv, RefsOK, StoreOK, RepoOpen
<1>3. /\ body \in Body /\ body.parent = branch /\ body.second = None
      /\ body.anc = {c} \cup commits[branch].anc \cup Ancestors(commits, None)
    BY <1>2, MakeBodyType DEF Inv
<1>4. Ancestors(commits, None) = {}
    BY DEF Ancestors
<1>5. commits' = Save(commits, c, body)
    BY DEF Commit
<1>6. /\ req' = [req EXCEPT ![p] = [@ EXCEPT !.new = c, !.old = branch,
                                             !.at = updates, !.target = c]]
      /\ pc' = [pc EXCEPT ![p] = "cas"]
    BY DEF Commit
<1>7. /\ branch' = branch /\ published' = published /\ acked' = acked
      /\ updates' = updates /\ repoRow' = repoRow /\ repoInfo' = repoInfo
      /\ uploaded' = uploaded /\ faults' = faults /\ ops' = ops
    BY DEF Commit, db, history
<1> HIDE DEF body
<1>8. /\ StoreOK(commits') /\ DOMAIN commits' = DOMAIN commits \cup {c}
      /\ \A x \in DOMAIN commits : commits'[x] = commits[x]
      /\ c \notin DOMAIN commits => commits'[c] = body
    <2>1. StoreOK(commits) /\ None \in DOMAIN commits \cup {None}
        BY DEF Inv
    <2>2. /\ StoreOK(Save(commits, c, body))
          /\ DOMAIN Save(commits, c, body) = DOMAIN commits \cup {c}
          /\ \A x \in DOMAIN commits : Save(commits, c, body)[x] = commits[x]
          /\ c \notin DOMAIN commits => Save(commits, c, body)[c] = body
        BY <1>2, <1>3, <2>1, SaveStoreOK
    <2> QED
        BY <1>5, <2>2
<1>9. TypeOK'
    <2>1. req \in [Procs -> Request] /\ updates \in Nat
        BY DEF Inv, TypeOK
    <2>2. [req[p] EXCEPT !.new = c, !.old = branch, !.at = updates,
                         !.target = c] \in Request
        BY <1>2, <2>1, AttemptRequest
    <2>3. req' \in [Procs -> Request]
        BY <1>6, <2>1, <2>2
    <2> QED
        BY <1>1, <1>6, <1>7, <1>8, <2>3 DEF Inv, TypeOK, StoreOK
<1>10. RefsOK'
    BY <1>2, <1>7, <1>8 DEF Inv, RefsOK
<1>11. ASSUME NEW q \in Procs PROVE ThreadOK(q)'
    <2>1. CASE q = p
        <3>1. /\ pc'[p] = "cas" /\ req'[p].kind = req[p].kind
              /\ req'[p].desc = req[p].desc /\ req'[p].user = req[p].user
              /\ req'[p].base = req[p].base /\ req'[p].new = c
              /\ req'[p].old = branch /\ req'[p].target = c
            BY <1>6 DEF Inv, TypeOK, Request
        <3> QED
            BY <1>2, <1>8, <2>1, <3>1 DEF Inv, ThreadOK
    <2>2. CASE q # p
        <3>1. pc'[q] = pc[q] /\ req'[q] = req[q]
            BY <1>6, <2>2 DEF Inv, TypeOK
        <3> QED
            BY <1>8, <3>1, ThreadOKStable DEF Inv
    <2> QED
        BY <2>1, <2>2
<1> QED
    BY <1>3, <1>4, <1>8, <1>9, <1>10, <1>11 DEF Inv

\* The two callers of Commit, with what they pass.
LEMMA CommitCalls ==
    ASSUME Inv, NEW p \in Procs, EditRepo(p) \/ RevertOnServer(p)
    PROVE  /\ RepoOpen /\ Tick /\ pc[p] = "begin"
           /\ req[p].kind \in {"edit", "revert"}
           /\ \E c \in CommitId, name \in RepoNames :
                /\ Commit(p, c, name) /\ c.ctime = now'
                /\ req[p].kind = "edit" => c.root = branch.root
                /\ req[p].kind = "revert" => c.root = req[p].root
<1>1. now' \in Nat
    BY DEF EditRepo, RevertOnServer, Tick, Inv, TypeOK
<1>2. /\ branch \in CommitId /\ NameOf(branch) \in RepoNames
      /\ req[p] \in Request /\ req[p].user \in Users
    BY DEF EditRepo, RevertOnServer, RepoOpen, Inv, RefsOK, StoreOK, TypeOK,
           ThreadOK, Body, NameOf
<1>3. CASE EditRepo(p)
    <2> DEFINE c == [root |-> branch.root, creator |-> req[p].user,
                     desc |-> [op |-> "edited"], ctime |-> now']
               name == IF req[p].name = None THEN NameOf(branch) ELSE req[p].name
    <2>1. c \in CommitId /\ name \in RepoNames
        BY <1>1, <1>2 DEF CommitId, Desc, Request
    <2>2. Commit(p, c, name)
        BY <1>3 DEF EditRepo
    <2>3. c.root = branch.root /\ c.ctime = now'
        OBVIOUS
    <2> HIDE DEF c, name
    <2> QED
        BY <1>3, <2>1, <2>2, <2>3 DEF EditRepo
<1>4. CASE RevertOnServer(p)
    <2> DEFINE c == [root |-> req[p].root, creator |-> req[p].user,
                     desc |-> req[p].desc, ctime |-> now']
    <2>1. c \in CommitId
        BY <1>1, <1>2 DEF CommitId, Request
    <2>2. Commit(p, c, NameOf(branch))
        BY <1>4 DEF RevertOnServer
    <2>3. c.root = req[p].root /\ c.ctime = now'
        OBVIOUS
    <2> HIDE DEF c
    <2> QED
        BY <1>2, <1>4, <2>1, <2>2, <2>3 DEF RevertOnServer
<1> QED
    BY <1>3, <1>4

\* A request that is tried again keeps its commits.
SameCommits(s, r) ==
    /\ s.kind = r.kind /\ s.user = r.user /\ s.base = r.base /\ s.root = r.root
    /\ s.desc = r.desc /\ s.new = r.new /\ s.old = r.old /\ s.target = r.target
    /\ s.since = r.since /\ s.at = r.at /\ s.tries = r.tries + 1

\* What a retry changes in the local variables of a thread.
LEMMA AgainRequest ==
    ASSUME NEW r \in Request, NEW name \in RepoNames \cup {None}
    PROVE  Again(r, name) \in Request /\ SameCommits(Again(r, name), r)
<1>1. PICK t \in Nat : t = r.tries + 1
    BY DEF Request
<1>2. Again(r, name) = [r EXCEPT !.tries = t, !.name = name]
    BY <1>1 DEF Again
<1>3. [r EXCEPT !.tries = t, !.name = name] \in Request
    BY DEF Request
<1>4. SameCommits([r EXCEPT !.tries = t, !.name = name], r)
    BY <1>1 DEF Request, SameCommits
<1> QED
    BY <1>2, <1>3, <1>4

\* The caller's reaction to a failed compare-and-set: it retries, begins again
\* or gives up, and keeps its commits.
LEMMA CasErrorStep ==
    ASSUME Inv, NEW p \in Procs, pc[p] = "cas", CasReturnsError(p)
    PROVE  /\ pc' \in [Procs -> {"idle", "begin", "cas", "retry", "info", "info2"}]
           /\ req' \in [Procs -> Request]
           /\ \A q \in Procs \ {p} : pc'[q] = pc[q] /\ req'[q] = req[q]
           /\ \/ pc'[p] = "idle" /\ req'[p] = NoReq
              \/ /\ \/ pc'[p] = "retry" /\ req[p].kind \in {"write", "sync"}
                    \/ pc'[p] = "begin" /\ req[p].kind \in {"edit", "revert"}
                 /\ SameCommits(req'[p], req[p])
<1>1. /\ pc \in [Procs -> {"idle", "begin", "cas", "retry", "info", "info2"}]
      /\ req \in [Procs -> Request] /\ req[p] \in Request
    BY DEF Inv, TypeOK
<1>2. NoReq \in Request
    BY DEF NoReq, Request, Desc
<1>3. CASE /\ req[p].kind \in {"write", "sync"}
           /\ pc' = [pc EXCEPT ![p] = "retry"]
           /\ req' = [req EXCEPT ![p] = Again(@, req[p].name)]
    <2>1. req[p].name \in RepoNames \cup {None}
        BY <1>1 DEF Request
    <2>2. Again(req[p], req[p].name) \in Request /\ SameCommits(Again(req[p], req[p].name), req[p])
        BY <1>1, <2>1, AgainRequest
    <2>3. req'[p] = Again(req[p], req[p].name) /\ req' \in [Procs -> Request]
          /\ \A q \in Procs \ {p} : req'[q] = req[q]
        BY <1>1, <1>3, <2>2
    <2>4. SameCommits(req'[p], req[p])
        BY <2>2, <2>3
    <2> QED
        BY <1>1, <1>3, <2>3, <2>4
<1>4. CASE /\ pc' = [pc EXCEPT ![p] = "idle"]
           /\ req' = [req EXCEPT ![p] = NoReq]
    BY <1>1, <1>2, <1>4
<1>5. CASE /\ req[p].kind \in {"edit", "revert"}
           /\ pc' = [pc EXCEPT ![p] = "begin"]
           /\ \E name \in IF req[p].kind = "edit" /\ ~req[p].given THEN RepoNames
                          ELSE {req[p].name} :
                req' = [req EXCEPT ![p] = Again(@, name)]
    <2>1. PICK name \in RepoNames \cup {None} :
            req' = [req EXCEPT ![p] = Again(@, name)]
        BY <1>1, <1>5 DEF Request
    <2>2. Again(req[p], name) \in Request /\ SameCommits(Again(req[p], name), req[p])
        BY <1>1, <2>1, AgainRequest
    <2>3. req'[p] = Again(req[p], name) /\ req' \in [Procs -> Request]
          /\ \A q \in Procs \ {p} : req'[q] = req[q]
        BY <1>1, <2>1, <2>2
    <2>4. SameCommits(req'[p], req[p])
        BY <2>2, <2>3
    <2> QED
        BY <1>1, <1>5, <2>3, <2>4
<1> QED
    BY <1>3, <1>4, <1>5 DEF CasReturnsError

\* After it, the thread is as ThreadOK wants it.
LEMMA CasErrorThread ==
    ASSUME Inv, NEW p \in Procs, pc[p] = "cas", CasReturnsError(p),
           commits' = commits
    PROVE  \A q \in Procs : ThreadOK(q)'
<1>1. ASSUME NEW q \in Procs, q # p PROVE ThreadOK(q)'
    BY <1>1, CasErrorStep, ThreadOKStable DEF Inv
<1>2. CASE pc'[p] = "idle" /\ req'[p] = NoReq
    BY <1>1, <1>2 DEF ThreadOK, NoReq
<1>3. CASE ~(pc'[p] = "idle" /\ req'[p] = NoReq)
    <2>1. /\ \/ pc'[p] = "retry" /\ req[p].kind \in {"write", "sync"}
             \/ pc'[p] = "begin" /\ req[p].kind \in {"edit", "revert"}
          /\ SameCommits(req'[p], req[p])
        BY <1>3, CasErrorStep
    <2>2. ThreadOK(p)
        BY DEF Inv
    <2>3. ThreadOK(p)'
        BY <2>1, <2>2 DEF ThreadOK, SameCommits
    <2> QED
        BY <1>1, <2>3
<1> QED
    BY <1>2, <1>3

\* The compare-and-set succeeds or fails.
LEMMA CasInv ==
    ASSUME Inv, NEW p \in Procs,
           CasOk(p) \/ CasMismatch(p) \/ CasRolledBack(p) \/ CasReplyLost(p)
    PROVE  Inv'
<1>1. pc[p] = "cas"
    BY DEF CasOk, CasMismatch, CasRolledBack, CasReplyLost
<1>2. req[p].target \in DOMAIN commits /\ req[p].target \in CommitId
    BY <1>1 DEF Inv, ThreadOK, StoreOK
<1>3. /\ commits' = commits /\ uploaded' = uploaded /\ repoRow' = repoRow
      /\ repoInfo' = repoInfo /\ now' = now /\ ops' = ops /\ acked' = acked
    BY DEF CasOk, CasMismatch, CasRolledBack, CasReplyLost, store, db, history
<1>4. /\ \/ branch' = branch /\ published' = published /\ updates' = updates
         \/ /\ branch' = req[p].target /\ updates' = updates + 1
            /\ published' = published \cup {req[p].target}
      /\ faults' \in {faults, faults + 1}
    BY DEF CasOk, CasMismatch, CasRolledBack, CasReplyLost, db, history, Fault,
           SetHead
<1>5. StoreOK(commits)' /\ RefsOK'
    BY <1>2, <1>3, <1>4 DEF Inv, StoreOK, RefsOK
<1>6. CASE CasOk(p)
    <2>1. pc' = [pc EXCEPT ![p] = "info"] /\ req' = req
        BY <1>6 DEF CasOk
    <2>2. TypeOK'
        BY <1>2, <1>3, <1>4, <2>1 DEF Inv, TypeOK
    <2>3. ASSUME NEW q \in Procs PROVE ThreadOK(q)'
        BY <1>1, <1>3, <2>1 DEF Inv, TypeOK, ThreadOK
    <2> QED
        BY <1>5, <2>2, <2>3 DEF Inv
<1>7. CASE CasMismatch(p) \/ CasRolledBack(p) \/ CasReplyLost(p)
    <2>1. CasReturnsError(p)
        BY <1>7 DEF CasMismatch, CasRolledBack, CasReplyLost
    <2>2. /\ pc' \in [Procs -> {"idle", "begin", "cas", "retry", "info", "info2"}]
          /\ req' \in [Procs -> Request]
        BY <1>1, <2>1, CasErrorStep
    <2>3. TypeOK'
        BY <1>2, <1>3, <1>4, <2>2 DEF Inv, TypeOK
    <2> QED
        BY <1>1, <1>3, <1>5, <2>1, <2>3, CasErrorThread DEF Inv
<1> QED
    BY <1>6, <1>7

\* The steps that end a request, and those outside any request.
LEMMA OtherInv ==
    ASSUME Inv,
           \/ \E p \in Procs : UpdateRepoInfo(p) \/ Abort(p)
           \/ Crash \/ DelRepoRow \/ DelBranch
    PROVE  Inv'
<1>0. NoReq \in Request /\ NoReq.desc.op # "created"
    BY DEF NoReq, Request, Desc
<1>1. ASSUME NEW p \in Procs, UpdateRepoInfo(p) PROVE Inv'
    <2>1. /\ req[p].target \in DOMAIN commits /\ req[p].new \in DOMAIN commits
          /\ req[p].new \in CommitId
        BY <1>1 DEF UpdateRepoInfo, Inv, ThreadOK, StoreOK
    <2>2. NameOf(req[p].target) \in RepoNames
        BY <2>1 DEF Inv, StoreOK, Body, NameOf
    <2>3. /\ commits' = commits /\ uploaded' = uploaded /\ repoRow' = repoRow
          /\ branch' = branch /\ now' = now /\ ops' = ops /\ faults' = faults
          /\ published' = published /\ updates' = updates
          /\ repoInfo' = NameOf(req[p].target)
        BY <1>1 DEF UpdateRepoInfo, store
    <2>4. \/ pc' = [pc EXCEPT ![p] = "info2"] /\ req' = req /\ acked' = acked
          \/ /\ pc' = [pc EXCEPT ![p] = "idle"] /\ req' = [req EXCEPT ![p] = NoReq]
             /\ acked' = acked \cup {req[p].new}
        BY <1>1 DEF UpdateRepoInfo
    <2>5. TypeOK'
        BY <1>0, <2>1, <2>2, <2>3, <2>4 DEF Inv, TypeOK
    <2>6. StoreOK(commits)' /\ RefsOK'
        BY <2>3 DEF Inv, StoreOK, RefsOK
    <2>7. ASSUME NEW q \in Procs PROVE ThreadOK(q)'
        <3>1. CASE pc' = [pc EXCEPT ![p] = "info2"] /\ req' = req
            BY <1>1, <2>3, <3>1 DEF Inv, TypeOK, ThreadOK, UpdateRepoInfo
        <3>2. CASE pc' = [pc EXCEPT ![p] = "idle"] /\ req' = [req EXCEPT ![p] = NoReq]
            BY <1>0, <2>3, <3>2 DEF Inv, TypeOK, ThreadOK
        <3> QED
            BY <2>4, <3>1, <3>2
    <2> QED
        BY <2>5, <2>6, <2>7 DEF Inv
<1>2. ASSUME NEW p \in Procs, Abort(p) PROVE Inv'
    <2>1. /\ commits' = commits /\ uploaded' = uploaded /\ repoRow' = repoRow
          /\ branch' = branch /\ repoInfo' = repoInfo /\ now' = now /\ ops' = ops
          /\ published' = published /\ acked' = acked /\ updates' = updates
          /\ faults' \in {faults, faults + 1}
          /\ pc' = [pc EXCEPT ![p] = "idle"] /\ req' = [req EXCEPT ![p] = NoReq]
        BY <1>2 DEF Abort, store, db, history, Fault
    <2>2. TypeOK'
        BY <1>0, <2>1 DEF Inv, TypeOK
    <2>3. StoreOK(commits)' /\ RefsOK'
        BY <2>1 DEF Inv, StoreOK, RefsOK
    <2>4. ASSUME NEW q \in Procs PROVE ThreadOK(q)'
        BY <1>0, <2>1 DEF Inv, TypeOK, ThreadOK
    <2> QED
        BY <2>2, <2>3, <2>4 DEF Inv
<1>3. ASSUME Crash PROVE Inv'
    <2>1. /\ commits' = commits /\ uploaded' = uploaded /\ repoRow' = repoRow
          /\ branch' = branch /\ repoInfo' = repoInfo /\ now' = now /\ ops' = ops
          /\ published' = published /\ acked' = acked /\ updates' = updates
          /\ faults' = faults + 1
          /\ pc' = [p \in Procs |-> "idle"] /\ req' = [p \in Procs |-> NoReq]
        BY <1>3 DEF Crash, store, db, history, Fault
    <2>2. TypeOK'
        BY <1>0, <2>1 DEF Inv, TypeOK
    <2>3. StoreOK(commits)' /\ RefsOK'
        BY <2>1 DEF Inv, StoreOK, RefsOK
    <2>4. ASSUME NEW q \in Procs PROVE ThreadOK(q)'
        BY <1>0, <2>1 DEF ThreadOK
    <2> QED
        BY <2>2, <2>3, <2>4 DEF Inv
<1>4. ASSUME DelRepoRow \/ DelBranch PROVE Inv'
    <2>1. /\ commits' = commits /\ uploaded' = uploaded
          /\ branch' \in {branch, None} /\ repoInfo' = repoInfo
          /\ now' = now /\ ops' = ops /\ faults' = faults
          /\ published' = published /\ acked' = acked
          /\ updates' \in {updates, updates + 1} /\ pc' = pc /\ req' = req
        BY <1>4 DEF DelRepoRow, DelBranch, store, history
    <2>a. repoRow' \in BOOLEAN
        BY <1>4 DEF DelRepoRow, DelBranch, Inv, TypeOK
    <2>2. TypeOK'
        BY <2>1, <2>a DEF Inv, TypeOK
    <2>3. StoreOK(commits)' /\ RefsOK'
        BY <2>1 DEF Inv, StoreOK, RefsOK
    <2>4. ASSUME NEW q \in Procs PROVE ThreadOK(q)'
        BY <2>1 DEF Inv, ThreadOK
    <2> QED
        BY <2>2, <2>3, <2>4 DEF Inv
<1> QED
    BY <1>1, <1>2, <1>3, <1>4

\* Inv is inductive: every step of every thread keeps it.
LEMMA NextInv == Inv /\ [Next]_vars => Inv'
<1> SUFFICES ASSUME Inv, [Next]_vars PROVE Inv'
    OBVIOUS
<1>1. ASSUME NEW p \in Procs, NewRequest(p) PROVE Inv'
    BY <1>1, NewRequestInv
<1>2. ASSUME NEW p \in Procs, Run(p) PROVE Inv'
    <2>1. CASE GenNewCommit(p) \/ FastForwardOrMerge(p) \/ Retry(p)
        BY <2>1, AttemptsInv
    <2>2. CASE EditRepo(p) \/ RevertOnServer(p)
        BY <2>2, CommitCalls, CommitInv
    <2>3. CASE CasOk(p) \/ CasMismatch(p) \/ CasRolledBack(p) \/ CasReplyLost(p)
        BY <2>3, CasInv
    <2>4. CASE UpdateRepoInfo(p) \/ Abort(p)
        BY <2>4, OtherInv
    <2> QED
        BY <1>2, <2>1, <2>2, <2>3, <2>4 DEF Run
<1>3. CASE ClientCommit
    BY <1>3, ClientCommitInv
<1>4. CASE Crash \/ DelRepoRow \/ DelBranch
    BY <1>4, OtherInv
<1>5. CASE UNCHANGED vars
    BY <1>5 DEF vars, Inv, TypeOK, StoreOK, RefsOK, ThreadOK
<1> QED
    BY <1>1, <1>2, <1>3, <1>4, <1>5 DEF Next

\* Inv holds in every reachable state.
LEMMA SpecInv == Spec => []Inv
BY InitInv, NextInv, PTL DEF Spec

\* The variables have their types in every reachable state.
THEOREM TypeCorrect == Spec => []TypeOK
<1>1. Inv => TypeOK
    BY DEF Inv
<1> QED
    BY <1>1, SpecInv, PTL

\* At any time, also after a crash, the head and every commit reachable from
\* it are in the store: save_commit() before test_and_update_branch(), and no
\* stored object is ever changed.
THEOREM HistoryIsClosed == Spec => []HistoryClosed
<1>1. Inv => HistoryClosed
    BY DEF Inv, RefsOK, StoreOK, HistoryClosed
<1> QED
    BY <1>1, SpecInv, PTL

----------------------------------------------------------------------------
\* What the steps of a request do, in the terms of the proofs below.

\* Two states of one request that ask for the same.
Kept(s, r) ==
    /\ s.kind = r.kind /\ s.user = r.user /\ s.base = r.base /\ s.root = r.root
    /\ s.desc = r.desc /\ s.given = r.given /\ s.since = r.since

Others(p) == \A q \in Procs \ {p} : pc'[q] = pc[q] /\ req'[q] = req[q]

\* The commit that gen_new_commit() stores first, and the store with it.
Creates(p) == pc[p] = "begin" /\ req[p].kind = "write"
NewCommit(p) == [root |-> req[p].root, creator |-> req[p].user,
                 desc |-> req[p].desc, ctime |-> now']
NewStore(p) ==
    IF Creates(p)
    THEN Save(commits, NewCommit(p), MakeBody(commits, NewCommit(p), req[p].base, None,
                                              NameOf(branch)))
    ELSE commits

Merged(p, n) == MergedCommit(req[p].base, branch, n, req[p].user, now')

\* The attempts of gen_new_commit() and fast_forward_or_merge() in one form.
LEMMA AttemptEffect ==
    ASSUME Inv, NEW p \in Procs,
           GenNewCommit(p) \/ FastForwardOrMerge(p) \/ Retry(p)
    PROVE  /\ RepoOpen /\ Tick /\ pc[p] \in {"begin", "retry"}
           /\ req[p].kind \in {"write", "sync"}
           /\ branch' = branch /\ published' = published /\ acked' = acked
           /\ updates' = updates /\ uploaded' = uploaded /\ faults' = faults
           /\ pc'[p] = "cas" /\ Others(p) /\ Kept(req'[p], req[p])
           /\ req'[p].tries = req[p].tries /\ req'[p].at = updates
           /\ req'[p].name = req[p].name
           /\ req'[p].old = branch
           /\ req'[p].new = IF Creates(p) THEN NewCommit(p) ELSE req[p].new
           /\ IF req[p].base = branch
              THEN req'[p].target = req'[p].new /\ commits' = NewStore(p)
              ELSE /\ req'[p].target = Merged(p, req'[p].new)
                   /\ commits' = Save(NewStore(p), req'[p].target,
                                      MakeBody(NewStore(p), req'[p].target, branch,
                                               req'[p].new, NameOf(branch)))
<1>1. PICK n : /\ n = IF Creates(p) THEN NewCommit(p) ELSE req[p].new
               /\ Attempt(p, NewStore(p), n)
    <2>1. CASE GenNewCommit(p)
        BY <2>1 DEF GenNewCommit, Creates, NewStore, NewCommit
    <2>2. CASE FastForwardOrMerge(p) \/ Retry(p)
        <3>1. ~Creates(p)
            BY <2>2 DEF FastForwardOrMerge, Retry, Creates
        <3> QED
            BY <2>2, <3>1 DEF FastForwardOrMerge, Retry, NewStore
    <2> QED
        BY <2>1, <2>2
<1>2. /\ RepoOpen /\ Tick /\ pc[p] \in {"begin", "retry"}
      /\ req[p].kind \in {"write", "sync"}
    BY DEF GenNewCommit, FastForwardOrMerge, Retry, Inv, ThreadOK
<1>3. req \in [Procs -> Request] /\ pc \in [Procs -> {"idle", "begin", "cas", "retry", "info", "info2"}]
    BY DEF Inv, TypeOK
<1> DEFINE t == IF req[p].base = branch THEN n ELSE Merged(p, n)
<1>4. /\ req' = [req EXCEPT ![p] = [@ EXCEPT !.new = n, !.old = branch, !.at = updates,
                                             !.target = t]]
      /\ pc' = [pc EXCEPT ![p] = "cas"]
      /\ branch' = branch /\ published' = published /\ acked' = acked
      /\ updates' = updates /\ uploaded' = uploaded /\ faults' = faults
      /\ commits' = IF req[p].base = branch THEN NewStore(p)
                    ELSE Save(NewStore(p), Merged(p, n),
                              MakeBody(NewStore(p), Merged(p, n), branch, n, NameOf(branch)))
    BY <1>1 DEF Attempt, Merged, db, history
<1> HIDE DEF t
<1>5. /\ req'[p].new = n /\ req'[p].old = branch /\ req'[p].at = updates
      /\ req'[p].target = t /\ Kept(req'[p], req[p]) /\ req'[p].tries = req[p].tries
      /\ req'[p].name = req[p].name
    BY <1>3, <1>4 DEF Request, Kept
<1>6. pc'[p] = "cas" /\ Others(p)
    BY <1>3, <1>4 DEF Others
<1> QED
    BY <1>1, <1>2, <1>4, <1>5, <1>6 DEF t

\* edit_repo() and revert_on_server() in one form.
LEMMA CommitEffect ==
    ASSUME Inv, NEW p \in Procs, EditRepo(p) \/ RevertOnServer(p)
    PROVE  /\ RepoOpen /\ Tick /\ pc[p] = "begin"
           /\ req[p].kind \in {"edit", "revert"}
           /\ branch' = branch /\ published' = published /\ acked' = acked
           /\ updates' = updates /\ uploaded' = uploaded /\ faults' = faults
           /\ pc'[p] = "cas" /\ Others(p) /\ Kept(req'[p], req[p])
           /\ req'[p].tries = req[p].tries /\ req'[p].at = updates
           /\ req'[p].name = req[p].name
           /\ req'[p].old = branch /\ req'[p].target = req'[p].new
           /\ req'[p].new \in CommitId /\ req'[p].new.ctime = now'
           /\ req'[p].new.root = IF req[p].kind = "edit" THEN branch.root ELSE req[p].root
           /\ \E name \in RepoNames :
                /\ commits' = Save(commits, req'[p].new,
                                   MakeBody(commits, req'[p].new, branch, None, name))
                /\ name = IF req[p].kind = "edit" /\ req[p].name # None
                          THEN req[p].name ELSE NameOf(branch)
<1>1. now' \in Nat
    BY DEF EditRepo, RevertOnServer, Tick, Inv, TypeOK
<1>2. /\ branch \in CommitId /\ NameOf(branch) \in RepoNames
      /\ req[p] \in Request /\ req[p].user \in Users
      /\ req \in [Procs -> Request]
      /\ pc \in [Procs -> {"idle", "begin", "cas", "retry", "info", "info2"}]
    BY DEF EditRepo, RevertOnServer, RepoOpen, Inv, RefsOK, StoreOK, TypeOK,
           ThreadOK, Body, NameOf
<1>3. /\ RepoOpen /\ Tick /\ pc[p] = "begin" /\ req[p].kind \in {"edit", "revert"}
    BY DEF EditRepo, RevertOnServer
<1>4. PICK c \in CommitId, name \in RepoNames :
        /\ Commit(p, c, name) /\ c.ctime = now'
        /\ c.root = IF req[p].kind = "edit" THEN branch.root ELSE req[p].root
        /\ name = IF req[p].kind = "edit" /\ req[p].name # None
                  THEN req[p].name ELSE NameOf(branch)
    <2>1. CASE EditRepo(p)
        <3> DEFINE c == [root |-> branch.root, creator |-> req[p].user,
                         desc |-> [op |-> "edited"], ctime |-> now']
                   name == IF req[p].name = None THEN NameOf(branch) ELSE req[p].name
        <3>1. c \in CommitId /\ name \in RepoNames
            BY <1>1, <1>2 DEF CommitId, Desc, Request
        <3>2. Commit(p, c, name) /\ req[p].kind = "edit"
            BY <2>1 DEF EditRepo
        <3>3. c.root = branch.root /\ c.ctime = now'
            OBVIOUS
        <3>4. name = IF req[p].name # None THEN req[p].name ELSE NameOf(branch)
            OBVIOUS
        <3> HIDE DEF c, name
        <3> QED
            BY <3>1, <3>2, <3>3, <3>4
    <2>2. CASE RevertOnServer(p)
        <3> DEFINE c == [root |-> req[p].root, creator |-> req[p].user,
                         desc |-> req[p].desc, ctime |-> now']
        <3>1. c \in CommitId
            BY <1>1, <1>2 DEF CommitId, Request
        <3>2. Commit(p, c, NameOf(branch)) /\ req[p].kind = "revert"
            BY <2>2 DEF RevertOnServer
        <3>3. c.root = req[p].root /\ c.ctime = now'
            OBVIOUS
        <3> HIDE DEF c
        <3> QED
            BY <1>2, <3>1, <3>2, <3>3
    <2> QED
        BY <2>1, <2>2
<1>5. /\ req' = [req EXCEPT ![p] = [@ EXCEPT !.new = c, !.old = branch, !.at = updates,
                                             !.target = c]]
      /\ pc' = [pc EXCEPT ![p] = "cas"]
      /\ branch' = branch /\ published' = published /\ acked' = acked
      /\ updates' = updates /\ uploaded' = uploaded /\ faults' = faults
      /\ commits' = Save(commits, c, MakeBody(commits, c, branch, None, name))
    BY <1>4 DEF Commit, db, history
<1>6. /\ req'[p].new = c /\ req'[p].old = branch /\ req'[p].at = updates
      /\ req'[p].target = c /\ Kept(req'[p], req[p]) /\ req'[p].tries = req[p].tries
      /\ req'[p].name = req[p].name
    BY <1>2, <1>5 DEF Request, Kept
<1>7. pc'[p] = "cas" /\ Others(p)
    BY <1>2, <1>5 DEF Others
<1> QED
    BY <1>3, <1>4, <1>5, <1>6, <1>7

\* The other steps of a request, and those outside any request.
LEMMA CasEffect ==
    ASSUME Inv, NEW p \in Procs,
           CasOk(p) \/ CasMismatch(p) \/ CasRolledBack(p) \/ CasReplyLost(p)
    PROVE  /\ pc[p] = "cas" /\ Others(p)
           /\ commits' = commits /\ uploaded' = uploaded /\ acked' = acked
           /\ \/ /\ branch' = branch /\ published' = published /\ updates' = updates
                 /\ ~CasOk(p) /\ ~CasReplyLost(p)
              \/ /\ branch = req[p].old /\ branch' = req[p].target
                 /\ published' = published \cup {req[p].target} /\ updates' = updates + 1
           /\ \/ /\ pc'[p] = "info" /\ req'[p] = req[p] /\ branch = req[p].old
                 /\ branch' = req[p].target
              \/ pc'[p] = "idle" /\ req'[p] = NoReq
              \/ /\ \/ pc'[p] = "retry" /\ req[p].kind \in {"write", "sync"}
                    \/ pc'[p] = "begin" /\ req[p].kind \in {"edit", "revert"}
                 /\ SameCommits(req'[p], req[p]) /\ req'[p].given = req[p].given
                 /\ req[p].given \/ req[p].kind # "edit" => req'[p].name = req[p].name
                 /\ branch # req[p].old \/ faults' = faults + 1
           /\ faults' \in {faults, faults + 1}
           /\ CasOk(p) => req' = req
<1>1. /\ pc[p] = "cas" /\ faults' \in {faults, faults + 1}
      /\ commits' = commits /\ uploaded' = uploaded /\ acked' = acked
      /\ branch # req[p].old \/ faults' = faults + 1 \/ CasOk(p)
    BY DEF CasOk, CasMismatch, CasRolledBack, CasReplyLost, store, db, history, Fault
<1>2. \/ /\ branch' = branch /\ published' = published /\ updates' = updates
         /\ ~CasOk(p) /\ ~CasReplyLost(p)
      \/ /\ branch = req[p].old /\ branch' = req[p].target
         /\ published' = published \cup {req[p].target} /\ updates' = updates + 1
    BY DEF CasOk, CasMismatch, CasRolledBack, CasReplyLost, db, history, SetHead
<1>3. req \in [Procs -> Request] /\ pc \in [Procs -> {"idle", "begin", "cas", "retry", "info", "info2"}]
    BY DEF Inv, TypeOK
<1>4. CASE CasOk(p)
    BY <1>1, <1>2, <1>3, <1>4 DEF CasOk, SetHead, Others
<1>5. CASE ~CasOk(p)
    <2>1. CasReturnsError(p)
        BY <1>5 DEF CasMismatch, CasRolledBack, CasReplyLost
    <2>2. /\ Others(p)
          /\ \/ pc'[p] = "idle" /\ req'[p] = NoReq
             \/ /\ \/ pc'[p] = "retry" /\ req[p].kind \in {"write", "sync"}
                   \/ pc'[p] = "begin" /\ req[p].kind \in {"edit", "revert"}
                /\ SameCommits(req'[p], req[p])
        BY <1>1, <2>1, CasErrorStep DEF Others
    <2>3. ASSUME pc'[p] # "idle"
          PROVE  /\ req'[p].given = req[p].given
                 /\ req[p].given \/ req[p].kind # "edit" => req'[p].name = req[p].name
        <3>1. PICK name :
                /\ req' = [req EXCEPT ![p] = Again(req[p], name)]
                /\ req[p].given \/ req[p].kind # "edit" => name = req[p].name
            BY <1>3, <2>1, <2>3 DEF CasReturnsError
        <3>2. req'[p] = Again(req[p], name)
            BY <1>3, <3>1
        <3> QED
            BY <1>3, <3>1, <3>2 DEF Again, Request
    <2> QED
        BY <1>1, <1>2, <1>5, <2>2, <2>3
<1> QED
    BY <1>4, <1>5

----------------------------------------------------------------------------
\* What the requests are based on: every head was published, and every parent was
\* a head when its child was made.
Published ==
    /\ branch # None => branch \in published
    /\ \A c \in DOMAIN commits : commits[c].parent # None => commits[c].parent \in published

\* A request as a thread begins it.
Begun(r) ==
    /\ r.user \in Users /\ r.kind # "none" /\ r.tries = 0 /\ r.since = updates
    /\ r.desc.op # "created"
    /\ r.kind # "edit" => r.base \in published
    /\ r.kind = "write" => r.desc.op # "merged"
    /\ r.kind = "sync" =>
          /\ r.new \in uploaded /\ r.new.root = r.root
          /\ r.base = commits[r.new].parent
    /\ r.kind = "revert" => r.root = r.base.root
    /\ r.kind = "edit" => r.given = (r.name # None)

\* Every request begins in this way (post, put, delete, rename, edit, revert, the
\* upload of a sync client).
LEMMA BeginEffect ==
    ASSUME Inv, Published, NEW p \in Procs, NEW r \in Request,
           Begin(p, r), Begun(r)
    PROVE  /\ pc[p] = "idle" /\ pc'[p] = "begin" /\ req'[p] = r /\ Others(p)
           /\ commits' = commits /\ uploaded' = uploaded /\ branch' = branch
           /\ published' = published /\ acked' = acked /\ updates' = updates
           /\ now' = now /\ faults' = faults
BY DEF Begin, Others, Inv, TypeOK, store, db, history

\* Each of the requests of the web API and of sync clients is begun so (post, put,
\* delete, rename, edit, revert, put_update_branch_cb()).
LEMMA NewRequestBegins ==
    ASSUME Inv, Published, NEW p \in Procs, NewRequest(p)
    PROVE  \E r \in Request : Begin(p, r) /\ Begun(r)
<1>0. 0 \in 0..LastSuffix
    BY LastSuffixAssumption
<1>1. /\ branch # None => branch \in published
      /\ published \subseteq DOMAIN commits
      /\ \A c \in DOMAIN commits : c \in CommitId /\ c.root \in SUBSET Dirent
                                   /\ c.ctime \in Nat /\ c.creator \in Users
      /\ updates \in Nat
    BY DEF Inv, StoreOK, RefsOK, CommitId, Published, TypeOK
<1>2. ASSUME NEW u \in Users, NEW n \in Names, NEW b \in published,
             NEW root \in SUBSET Dirent, NEW op \in {"added", "modified", "deleted", "renamed"},
             BeginWrite(p, u, b, root, op, n)
      PROVE  \E r \in Request : Begin(p, r) /\ Begun(r)
    <2> DEFINE r == [NoReq EXCEPT !.kind = "write", !.user = u, !.base = b,
                                  !.root = root, !.desc = [op |-> op, name |-> n],
                                  !.since = updates]
    <2>1. r \in Request /\ Begun(r)
        BY <1>1 DEF NoReq, Request, Desc, Begun
    <2>2. Begin(p, r)
        BY <1>2 DEF BeginWrite
    <2> HIDE DEF r
    <2> QED
        BY <2>1, <2>2
<1>3. ASSUME NEW u \in Users, NEW n \in Names, NEW id \in FileIds, BeginPost(p, u, n, id)
      PROVE  \E r \in Request : Begin(p, r) /\ Begun(r)
    <2>1. PICK i \in 0..LastSuffix :
            BeginWrite(p, u, branch, PostFile(branch.root, n, i, id), "added", n)
        BY <1>3 DEF BeginPost
    <2>2. branch \in published /\ PostFile(branch.root, n, i, id) \in SUBSET Dirent
        BY <1>1, <1>3, DirOpsType DEF BeginPost
    <2> QED
        BY <1>2, <2>1, <2>2
<1>4. ASSUME NEW u \in Users, NEW n \in Names, NEW id \in FileIds,
             NEW b \in published, BeginPut(p, u, n, id, b)
      PROVE  \E r \in Request : Begin(p, r) /\ Begun(r)
    <2>1. PutFile(b.root, n, id) \in SUBSET Dirent
        BY <1>0, <1>1, DirOpsType
    <2> QED
        BY <1>2, <1>4, <2>1 DEF BeginPut
<1>5. ASSUME NEW u \in Users, NEW n \in Names, BeginDel(p, u, n)
      PROVE  \E r \in Request : Begin(p, r) /\ Begun(r)
    <2>1. branch \in published /\ DelFile(branch.root, n) \in SUBSET Dirent
        BY <1>1, <1>5 DEF BeginDel, DelFile
    <2> QED
        BY <1>2, <1>5, <2>1 DEF BeginDel
<1>6. ASSUME NEW u \in Users, NEW n \in Names, NEW m \in Names, BeginRename(p, u, n, m)
      PROVE  \E r \in Request : Begin(p, r) /\ Begun(r)
    <2>1. branch \in published
        BY <1>1, <1>6 DEF BeginRename
    <2>2. PICK e \in branch.root : TRUE
        BY <1>6 DEF BeginRename, Exists, Named
    <2>3. e.id \in FileIds
        BY <1>1, <2>1, <2>2 DEF Dirent
    <2>4. RenameFile(branch.root, n, m) \in SUBSET Dirent
        BY <1>0, <1>1, <2>1, <2>3, DirOpsType
    <2> QED
        BY <1>2, <1>6, <2>1, <2>4 DEF BeginRename
<1>7. ASSUME NEW u \in Users, NEW name \in RepoNames \cup {None}, BeginEdit(p, u, name)
      PROVE  \E r \in Request : Begin(p, r) /\ Begun(r)
    <2> DEFINE r == [NoReq EXCEPT !.kind = "edit", !.user = u, !.name = name,
                                  !.given = (name # None), !.since = updates]
    <2>1. r \in Request /\ Begun(r)
        BY <1>1 DEF NoReq, Request, Desc, Begun
    <2>2. Begin(p, r)
        BY <1>7 DEF BeginEdit
    <2> HIDE DEF r
    <2> QED
        BY <2>1, <2>2
<1>8. ASSUME NEW u \in Users, NEW c \in published, BeginRevert(p, u, c)
      PROVE  \E r \in Request : Begin(p, r) /\ Begun(r)
    <2> DEFINE r == [NoReq EXCEPT !.kind = "revert", !.user = u, !.base = c,
                              !.root = c.root, !.since = updates,
                              !.desc = [op |-> "reverted", ctime |-> c.ctime]]
    <2>1. c \in CommitId /\ c.root \in SUBSET Dirent /\ c.ctime \in Nat
        BY <1>1
    <2>2. r \in Request /\ Begun(r)
        BY <1>1, <2>1 DEF NoReq, Request, Desc, Begun
    <2>3. Begin(p, r)
        BY <1>8 DEF BeginRevert
    <2> HIDE DEF r
    <2> QED
        BY <2>2, <2>3
<1>9. ASSUME NEW c \in uploaded, BeginSync(p, c)
      PROVE  \E r \in Request : Begin(p, r) /\ Begun(r)
    <2> DEFINE r == [NoReq EXCEPT !.kind = "sync", !.user = c.creator,
                              !.base = commits[c].parent, !.root = c.root,
                              !.desc = c.desc, !.new = c, !.since = updates]
    <2>1. /\ c \in DOMAIN commits /\ c \in CommitId /\ c.desc.op # "created"
          /\ commits[c].parent \in published
        BY DEF Inv, StoreOK, RefsOK, Published
    <2>2. commits[c].parent \in CommitId
        BY <2>1 DEF Inv, StoreOK, RefsOK
    <2>3. r \in Request /\ Begun(r)
        BY <1>1, <2>1, <2>2 DEF NoReq, Request, CommitId, Begun
    <2>4. Begin(p, r)
        BY <1>9 DEF BeginSync
    <2> HIDE DEF r
    <2> QED
        BY <2>3, <2>4
<1> QED
    BY <1>3, <1>4, <1>5, <1>6, <1>7, <1>8, <1>9 DEF NewRequest

\* The upload of a commit by a sync client.
LEMMA PutEffect ==
    ASSUME Inv, Published, ClientCommit
    PROVE  /\ Tick /\ pc' = pc /\ req' = req /\ branch' = branch /\ faults' = faults
           /\ published' = published /\ acked' = acked /\ updates' = updates
           /\ \E c \in CommitId, b \in published :
                /\ c.ctime = now' /\ c.desc.op # "created"
                /\ uploaded' = uploaded \cup {c}
                /\ commits' = Save(commits, c, MakeBody(commits, c, b, None, NameOf(b)))
<1>1. PICK u \in Users, b \in published, n \in Names :
        \/ \E id \in FileIds :
             PutCommit(u, b, PutFile(b.root, n, id),
                       IF Exists(b.root, PlainName(n)) THEN "modified"
                       ELSE "added", n)
        \/ PutCommit(u, b, DelFile(b.root, n), "deleted", n)
    BY DEF ClientCommit
<1>2. b.root \in SUBSET Dirent
    BY DEF Inv, StoreOK, RefsOK, CommitId
<1>3. \A id \in FileIds : PutFile(b.root, n, id) \in SUBSET Dirent
    <2>1. 0 \in 0..LastSuffix
        BY LastSuffixAssumption
    <2> QED
        BY <1>2, <2>1, DirOpsType
<1>4. DelFile(b.root, n) \in SUBSET Dirent
    BY <1>2 DEF DelFile
<1>5. PICK root \in SUBSET Dirent, op \in {"added", "modified", "deleted"} :
        PutCommit(u, b, root, op, n)
    BY <1>1, <1>3, <1>4
<1> DEFINE c == [root |-> root, creator |-> u, desc |-> [op |-> op, name |-> n],
                 ctime |-> now']
<1>6. now' \in Nat
    BY <1>5 DEF PutCommit, Tick, Inv, TypeOK
<1>7. c \in CommitId /\ c.desc.op # "created" /\ c.ctime = now'
    BY <1>6 DEF CommitId, Desc
<1>8. /\ uploaded' = uploaded \cup {c}
      /\ commits' = Save(commits, c, MakeBody(commits, c, b, None, NameOf(b)))
      /\ Tick /\ pc' = pc /\ req' = req /\ branch' = branch /\ faults' = faults
      /\ published' = published /\ acked' = acked /\ updates' = updates
    BY <1>5 DEF PutCommit, db, history
<1> HIDE DEF c
<1> QED
    BY <1>7, <1>8

\* The answer of a request, and its failure.
LEMMA EndEffect ==
    ASSUME Inv, NEW p \in Procs, UpdateRepoInfo(p) \/ Abort(p)
    PROVE  /\ Others(p) /\ commits' = commits /\ uploaded' = uploaded /\ branch' = branch
           /\ published' = published /\ updates' = updates /\ now' = now
           /\ faults' \in {faults, faults + 1}
           /\ \/ pc[p] = "info" /\ pc'[p] = "info2" /\ req'[p] = req[p]
              \/ pc'[p] = "idle" /\ req'[p] = NoReq
           /\ \/ acked' = acked
              \/ pc[p] \in {"info", "info2"} /\ acked' = acked \cup {req[p].new}
BY DEF UpdateRepoInfo, Abort, Others, Inv, TypeOK, store, db, history, Fault

\* A crash, and the deletion of the library.
LEMMA OutsideEffect ==
    ASSUME Inv, Crash \/ DelRepoRow \/ DelBranch
    PROVE  /\ commits' = commits /\ uploaded' = uploaded /\ published' = published
           /\ acked' = acked /\ now' = now /\ faults' \in {faults, faults + 1}
           /\ \/ branch' = branch /\ updates' = updates
              \/ branch' = None /\ updates' = updates + 1 /\ branch # None
           /\ \/ pc' = pc /\ req' = req
              \/ \A p \in Procs : pc'[p] = "idle" /\ req'[p] = NoReq
BY DEF Crash, DelRepoRow, DelBranch, store, db, history, Fault

----------------------------------------------------------------------------
\* The clock and the store, whatever the clock does.

\* save_commit() adds one commit at most, and changes none.
LEMMA SaveAdds ==
    ASSUME NEW cs, NEW c, NEW body
    PROVE  /\ DOMAIN Save(cs, c, body) = DOMAIN cs \cup {c}
           /\ \A x \in DOMAIN cs : Save(cs, c, body)[x] = cs[x]
           /\ c \notin DOMAIN cs => Save(cs, c, body)[c] = body
BY DEF Save

\* A commit that is new in the store is the child of a commit that has been the
\* head: of the head, of the base of the request, or of what a client had.
LEMMA NewChild ==
    ASSUME NEW cs, NEW c, NEW parent, NEW second, NEW name, NEW x \in DOMAIN Save(cs, c,
               MakeBody(cs, c, parent, second, name))
    PROVE  \/ x \in DOMAIN cs /\ Save(cs, c, MakeBody(cs, c, parent, second, name))[x] = cs[x]
           \/ Save(cs, c, MakeBody(cs, c, parent, second, name))[x].parent = parent
BY DEF Save, MakeBody

----------------------------------------------------------------------------
\* What each request would do to the tree of the library.

\* The tree that request r makes of a tree.
Made(r, tree) ==
    IF r.kind = "edit" THEN tree
    ELSE IF r.kind = "revert" THEN r.root
    ELSE MergeFiles(r.base.root, tree, r.root)

JobOK(p) ==
    /\ pc[p] \in {"begin", "cas", "retry"} =>
          /\ req[p].kind # "edit" => req[p].base \in published
          /\ req[p].kind = "revert" => req[p].root = req[p].base.root
          /\ req[p].kind = "sync" \/ (req[p].kind = "write" /\ pc[p] # "begin") =>
                req[p].new.root = req[p].root
    /\ pc[p] = "cas" => req[p].target.root = Made(req[p], req[p].old.root)

JobInv == Inv /\ Published /\ \A p \in Procs : JobOK(p)

\* At first no thread has a request, and one commit is published.
LEMMA JobInit == Init => JobInv
<1> SUFFICES ASSUME Init PROVE JobInv
    OBVIOUS
<1>1. Inv
    BY InitInv
<1>2. Published
    <2>1. /\ branch = InitCommit /\ published = {InitCommit} /\ DOMAIN commits = {InitCommit}
          /\ commits[InitCommit].parent = None
        BY DEF Init
    <2> QED
        BY <2>1 DEF Published
<1>3. \A p \in Procs : JobOK(p)
    BY DEF Init, JobOK
<1> QED
    BY <1>1, <1>2, <1>3 DEF JobInv

\* A thread that does not move keeps its job, whatever the heads since.
LEMMA JobStable ==
    ASSUME NEW q \in Procs, JobOK(q), pc'[q] = pc[q], req'[q] = req[q],
           published \subseteq published'
    PROVE  JobOK(q)'
BY DEF JobOK, Made

\* The attempts of gen_new_commit() and fast_forward_or_merge() build the tree
\* that the request makes of the head they loaded.
LEMMA JobAttempt ==
    ASSUME JobInv, NEW p \in Procs,
           GenNewCommit(p) \/ FastForwardOrMerge(p) \/ Retry(p)
    PROVE  JobInv'
<1>1. Inv /\ Published /\ JobOK(p)
    BY DEF JobInv
<1>2. Inv'
    BY <1>1, AttemptsInv
<1>3. /\ pc[p] \in {"begin", "retry"} /\ pc'[p] = "cas" /\ Others(p)
      /\ req[p].kind \in {"write", "sync"} /\ Kept(req'[p], req[p])
      /\ branch' = branch /\ published' = published /\ req'[p].old = branch
      /\ req'[p].new = IF Creates(p) THEN NewCommit(p) ELSE req[p].new
      /\ IF req[p].base = branch
         THEN req'[p].target = req'[p].new /\ commits' = NewStore(p)
         ELSE /\ req'[p].target = Merged(p, req'[p].new)
              /\ commits' = Save(NewStore(p), req'[p].target,
                                 MakeBody(NewStore(p), req'[p].target, branch,
                                          req'[p].new, NameOf(branch)))
    BY <1>1, AttemptEffect
<1>4. branch \in published /\ req[p].base \in published
    BY <1>1, <1>3, AttemptEffect DEF Published, JobOK, RepoOpen
<1>5. req'[p].new.root = req[p].root
    <2>1. CASE Creates(p)
        BY <1>3, <2>1 DEF NewCommit
    <2>2. CASE ~Creates(p)
        BY <1>1, <1>3, <2>2 DEF Creates, JobOK
    <2> QED
        BY <2>1, <2>2
<1>6. req'[p].target.root = Made(req'[p], branch.root)
    <2>1. Made(req'[p], branch.root) = MergeFiles(req[p].base.root, branch.root, req[p].root)
        BY <1>3 DEF Made, Kept
    <2>2. CASE req[p].base = branch
        BY <1>3, <1>5, <2>1, <2>2, MergeFastForward
    <2>3. CASE req[p].base # branch
        BY <1>3, <1>5, <2>1, <2>3 DEF Merged, MergedCommit
    <2> QED
        BY <2>2, <2>3
<1>7. JobOK(p)'
    BY <1>3, <1>4, <1>5, <1>6 DEF JobOK, Kept
<1>8. \A q \in Procs : JobOK(q)'
    BY <1>3, <1>7, JobStable DEF JobInv, Others
<1>9. Published'
    <2>1. \A c \in DOMAIN NewStore(p) :
            \/ c \in DOMAIN commits /\ NewStore(p)[c] = commits[c]
            \/ NewStore(p)[c].parent = req[p].base
        BY NewChild DEF NewStore
    <2>2. \A c \in DOMAIN commits' :
            \/ c \in DOMAIN NewStore(p) /\ commits'[c] = NewStore(p)[c]
            \/ commits'[c].parent = branch
        BY <1>3, NewChild
    <2> QED
        BY <1>1, <1>3, <1>4, <2>1, <2>2 DEF Published
<1> QED
    BY <1>2, <1>8, <1>9 DEF JobInv

\* edit_repo() commits the tree of the head, revert_on_server() that of an old
\* commit.
LEMMA JobCommit ==
    ASSUME JobInv, NEW p \in Procs, EditRepo(p) \/ RevertOnServer(p)
    PROVE  JobInv'
<1>1. Inv /\ Published /\ JobOK(p)
    BY DEF JobInv
<1>2. Inv'
    BY <1>1, CommitCalls, CommitInv
<1>3. /\ pc[p] = "begin" /\ pc'[p] = "cas" /\ Others(p) /\ RepoOpen
      /\ req[p].kind \in {"edit", "revert"} /\ Kept(req'[p], req[p])
      /\ branch' = branch /\ published' = published /\ req'[p].old = branch
      /\ req'[p].target = req'[p].new
      /\ req'[p].new.root = IF req[p].kind = "edit" THEN branch.root ELSE req[p].root
    BY <1>1, CommitEffect
<1>4. PICK name \in RepoNames :
        commits' = Save(commits, req'[p].new,
                        MakeBody(commits, req'[p].new, branch, None, name))
    BY <1>1, CommitEffect
<1>5. JobOK(p)'
    BY <1>1, <1>3 DEF JobOK, Made, Kept
<1>6. \A q \in Procs : JobOK(q)'
    BY <1>3, <1>5, JobStable DEF JobInv, Others
<1>7. Published'
    <2>1. \A c \in DOMAIN commits' :
            \/ c \in DOMAIN commits /\ commits'[c] = commits[c]
            \/ commits'[c].parent = branch
        BY <1>4, NewChild
    <2> QED
        BY <1>1, <1>3, <2>1 DEF Published, RepoOpen
<1> QED
    BY <1>2, <1>6, <1>7 DEF JobInv

\* The compare-and-set only publishes the target of the request, or nothing; a
\* failed request keeps its base, its tree and its commits.
LEMMA JobCas ==
    ASSUME JobInv, NEW p \in Procs,
           CasOk(p) \/ CasMismatch(p) \/ CasRolledBack(p) \/ CasReplyLost(p)
    PROVE  JobInv'
<1>1. Inv /\ Published /\ JobOK(p)
    BY DEF JobInv
<1>2. Inv'
    BY <1>1, CasInv
<1>3. /\ pc[p] = "cas" /\ Others(p) /\ commits' = commits
      /\ \/ branch' = branch /\ published' = published
         \/ branch' = req[p].target /\ published' = published \cup {req[p].target}
      /\ \/ pc'[p] = "info"
         \/ pc'[p] = "idle"
         \/ /\ \/ pc'[p] = "retry" /\ req[p].kind \in {"write", "sync"}
               \/ pc'[p] = "begin" /\ req[p].kind \in {"edit", "revert"}
            /\ SameCommits(req'[p], req[p])
    BY <1>1, CasEffect
<1>4. Published'
    BY <1>1, <1>3 DEF Published
<1>5. ASSUME NEW q \in Procs, q # p PROVE JobOK(q)'
    BY <1>3, <1>5, JobStable DEF JobInv, Others
<1>6. JobOK(p)'
    <2>1. req[p].kind \in {"write", "sync"} => req[p].new.root = req[p].root
        BY <1>1, <1>3 DEF JobOK
    <2> QED
        BY <1>1, <1>3, <2>1 DEF JobOK, SameCommits
<1> QED
    BY <1>2, <1>4, <1>5, <1>6 DEF JobInv

\* Every step keeps the jobs as they should be.
LEMMA JobNext == JobInv /\ [Next]_vars => JobInv'
<1> SUFFICES ASSUME JobInv, [Next]_vars PROVE JobInv'
    OBVIOUS
<1>0. Inv /\ Published /\ Inv'
    BY NextInv DEF JobInv
<1>1. ASSUME NEW p \in Procs, NewRequest(p) PROVE JobInv'
    <2>1. PICK r \in Request : Begin(p, r) /\ Begun(r)
        BY <1>0, <1>1, NewRequestBegins
    <2>2. /\ pc'[p] = "begin" /\ req'[p] = r /\ Others(p)
          /\ commits' = commits /\ branch' = branch /\ published' = published
        BY <1>0, <2>1, BeginEffect
    <2>3. JobOK(p)'
        BY <2>1, <2>2 DEF JobOK, Begun
    <2>4. \A q \in Procs : JobOK(q)'
        BY <2>2, <2>3, JobStable DEF JobInv, Others
    <2> QED
        BY <1>0, <2>2, <2>4 DEF JobInv, Published
<1>2. ASSUME NEW p \in Procs, UpdateRepoInfo(p) \/ Abort(p) PROVE JobInv'
    <2>1. /\ Others(p) /\ commits' = commits /\ branch' = branch /\ published' = published
          /\ pc'[p] \in {"idle", "info2"}
        BY <1>0, <1>2, EndEffect
    <2>2. \A q \in Procs : JobOK(q)'
        BY <2>1, JobStable DEF JobInv, JobOK, Others
    <2> QED
        BY <1>0, <2>1, <2>2 DEF JobInv, Published
<1>3. ASSUME NEW p \in Procs, Run(p) PROVE JobInv'
    BY <1>2, <1>3, JobAttempt, JobCommit, JobCas DEF Run
<1>4. CASE ClientCommit
    <2>1. PICK c \in CommitId, b \in published :
            commits' = Save(commits, c, MakeBody(commits, c, b, None, NameOf(b)))
        BY <1>0, <1>4, PutEffect
    <2>2. pc' = pc /\ req' = req /\ branch' = branch /\ published' = published
        BY <1>0, <1>4, PutEffect
    <2>3. \A x \in DOMAIN commits' :
            (x \in DOMAIN commits /\ commits'[x] = commits[x]) \/ commits'[x].parent = b
        BY <2>1, NewChild
    <2>4. \A q \in Procs : JobOK(q)'
        BY <2>2, JobStable DEF JobInv
    <2> QED
        BY <1>0, <2>2, <2>3, <2>4 DEF JobInv, Published
<1>5. CASE Crash \/ DelRepoRow \/ DelBranch
    <2>1. /\ commits' = commits /\ published' = published /\ branch' \in {branch, None}
          /\ \/ pc' = pc /\ req' = req
             \/ \A p \in Procs : pc'[p] = "idle"
        BY <1>0, <1>5, OutsideEffect
    <2>2. \A q \in Procs : JobOK(q)'
        BY <2>1, JobStable DEF JobInv, JobOK
    <2> QED
        BY <1>0, <2>1, <2>2 DEF JobInv, Published
<1>6. CASE UNCHANGED vars
    BY <1>0, <1>6, JobStable DEF vars, JobInv, Published
<1> QED
    BY <1>1, <1>3, <1>4, <1>5, <1>6 DEF Next

\* So do all behaviours.
LEMMA SpecJob == Spec => []JobInv
BY JobInit, JobNext, PTL DEF Spec

\* When the update of a request goes in, the head has every file that the old head
\* or the request added or changed, and none that the request removed, conflicts
\* apart (test_and_update_branch() after merge_entries()): for any trees, threads,
\* crashes and database errors, also within one second.
THEOREM NoFileIsLost == Spec => NoFileLost
<1>1. ASSUME JobInv, NEW p \in Procs, CasOk(p), branch # None,
             req[p].kind \in {"write", "sync"}
      PROVE  LET b == req[p].base.root
                 r == req[p].root
             IN  /\ branch.root \ b \subseteq branch'.root
                 /\ \A e \in r \ b : e \in branch'.root \/ ConflictCopy(e) \in branch'.root
                 /\ \A e \in (b \ r) \cap branch'.root : \E x \in r \ b :
                       Conflicting(b, branch.root, x) /\ e = ConflictCopy(x)
    <2>1. branch'.root = MergeFiles(req[p].base.root, branch.root, req[p].root)
        BY <1>1 DEF JobInv, JobOK, Made, CasOk, SetHead
    <2> QED
        BY <2>1, MergeKeepsHead, MergeKeepsRemote, MergeDeletes
<1>2. JobInv /\ [Next]_vars =>
        [\A p \in Procs :
           CasOk(p) /\ branch # None /\ req[p].kind \in {"write", "sync"} =>
             LET b == req[p].base.root
                 r == req[p].root
             IN  /\ branch.root \ b \subseteq branch'.root
                 /\ \A e \in r \ b : \/ e \in branch'.root
                                     \/ ConflictCopy(e) \in branch'.root
                 /\ \A e \in (b \ r) \cap branch'.root : \E x \in r \ b :
                       Conflicting(b, branch.root, x) /\ e = ConflictCopy(x)]_vars
    BY <1>1
<1> QED
    BY <1>2, SpecJob, PTL DEF Spec, NoFileLost

----------------------------------------------------------------------------
\* The refinement: requests take effect atomically.

\* The variables job and seen of AtomicBranch, as AtomicSpec defines them.
Jobs == [q \in Procs |-> JobOf(q)]
Seen == {c.root : c \in published}

\* A thread without a job, and one that works on its request.
LEMMA NoJobOf ==
    ASSUME NEW p \in Procs, pc[p] \notin {"begin", "cas", "retry"}
    PROVE  JobOf(p) = Atomic!NoJob
BY DEF JobOf, Atomic!NoJob

\* In terms of the job, the request makes the same tree.
LEMMA ResultIsMade ==
    ASSUME JobInv, NEW p \in Procs, pc[p] = "cas", branch # None
    PROVE  /\ JobOf(p) # Atomic!NoJob
           /\ Atomic!Result(JobOf(p)) = Made(req[p], branch.root)
<1>1. /\ req[p] \in Request /\ req[p].kind # "none"
      /\ req[p].kind # "edit" => req[p].base # None
    BY NoneAssumption DEF JobInv, Inv, TypeOK, ThreadOK, StoreOK
<1>2. CASE req[p].kind = "edit"
    BY <1>2 DEF JobOf, Atomic!NoJob, Atomic!Result, Made
<1>3. CASE req[p].kind = "revert"
    BY <1>3 DEF JobOf, Atomic!NoJob, Atomic!Result, Made
<1>4. CASE req[p].kind \in {"write", "sync"}
    <2>1. JobOf(p) = [op |-> "write", base |-> req[p].base.root, tree |-> req[p].root]
        BY <1>1, <1>4 DEF JobOf
    <2>2. Atomic!Result(JobOf(p)) = MergeFiles(req[p].base.root, branch.root, req[p].root)
        BY <2>1 DEF Atomic!Result, Atomic!MergeFiles, MergeFiles, Atomic!Conflicting,
                    Conflicting, Atomic!ConflictCopy, ConflictCopy
    <2> QED
        BY <1>4, <2>1, <2>2 DEF Made, Atomic!NoJob
<1> QED
    BY <1>1, <1>2, <1>3, <1>4 DEF Request

\* The atomic variables stay when head, published and jobs do.
LEMMA AtomicStutter ==
    ASSUME branch' = branch, published' = published,
           \A p \in Procs : JobOf(p)' = JobOf(p)
    PROVE  UNCHANGED Atomic!vars
BY DEF Atomic!vars

\* A thread that does not move, or whose request stays the same, keeps its job.
LEMMA SameJob ==
    ASSUME NEW p \in Procs,
           \/ pc'[p] = pc[p] /\ req'[p] = req[p]
           \/ pc'[p] \notin {"begin", "cas", "retry"} /\ pc[p] \notin {"begin", "cas", "retry"}
           \/ /\ pc'[p] \in {"begin", "cas", "retry"} /\ pc[p] \in {"begin", "cas", "retry"}
              /\ req'[p].kind = req[p].kind /\ req'[p].base = req[p].base
              /\ req'[p].root = req[p].root
    PROVE  JobOf(p)' = JobOf(p)
<1>1. CASE pc'[p] = pc[p] /\ req'[p] = req[p]
    BY <1>1 DEF JobOf
<1>2. CASE pc'[p] \notin {"begin", "cas", "retry"} /\ pc[p] \notin {"begin", "cas", "retry"}
    BY <1>2 DEF JobOf
<1>3. CASE /\ pc'[p] \in {"begin", "cas", "retry"} /\ pc[p] \in {"begin", "cas", "retry"}
           /\ req'[p].kind = req[p].kind /\ req'[p].base = req[p].base
           /\ req'[p].root = req[p].root
    BY <1>3 DEF JobOf
<1> QED
    BY <1>1, <1>2, <1>3

\* A new request is submitted.
LEMMA SubmitStep ==
    ASSUME JobInv, NEW p \in Procs, NEW r \in Request, Begin(p, r), Begun(r)
    PROVE  Atomic!Submit(p)
<1>1. /\ pc[p] = "idle" /\ pc'[p] = "begin" /\ req'[p] = r /\ Others(p)
      /\ branch' = branch /\ published' = published
    BY BeginEffect DEF JobInv
<1>2. published \subseteq CommitId
    BY DEF JobInv, Inv, TypeOK
<1>3. JobOf(p) = Atomic!NoJob
    BY <1>1, NoJobOf
<1>4. JobOf(p)' = [op |-> CASE r.kind = "edit" -> "keep" [] r.kind = "revert" -> "revert"
                            [] OTHER -> "write",
                   base |-> IF r.base = None THEN {} ELSE r.base.root,
                   tree |-> r.root]
    BY <1>1 DEF JobOf
<1>5. JobOf(p)' \in Atomic!Job
    <2>1. r.base = None \/ r.base.root \in SUBSET Dirent
        BY DEF Request, CommitId
    <2>2. r.root \in SUBSET Dirent
        BY DEF Request
    <2> QED
        BY <1>4, <2>1, <2>2 DEF Atomic!Job, Dirent, Atomic!Dirent, Path, Atomic!Path
<1>6. r.kind # "edit" => r.base # None /\ r.base.root \in Seen
    BY <1>2, NoneAssumption DEF Begun, Seen
<1>7. JobOf(p)'.op # "keep" => JobOf(p)'.base \in Seen
    BY <1>4, <1>6
<1>8. JobOf(p)'.op = "revert" => JobOf(p)'.tree \in Seen
    BY <1>4, <1>6 DEF Begun
<1>9. \A q \in Procs \ {p} : JobOf(q)' = JobOf(q)
    BY <1>1, SameJob DEF Others
<1>10. Jobs' = [Jobs EXCEPT ![p] = JobOf(p)'] /\ Jobs'[p] = JobOf(p)' /\ Jobs[p] = JobOf(p)
    BY <1>9 DEF Jobs
<1> QED
    BY <1>1, <1>3, <1>5, <1>7, <1>8, <1>10 DEF Atomic!Submit, Jobs, Seen

\* A compare-and-set that moves the head applies the request to the tree it had.
LEMMA ApplyStep ==
    ASSUME JobInv, NEW p \in Procs, CasOk(p) \/ CasReplyLost(p)
    PROVE  Atomic!Apply(p)
<1>1. /\ pc[p] = "cas" /\ Others(p) /\ branch = req[p].old /\ branch' = req[p].target
      /\ published' = published \cup {req[p].target}
    BY CasEffect DEF JobInv, CasOk, CasReplyLost, SetHead
<1>2. branch # None /\ branch' # None
    BY <1>1, NoneAssumption DEF JobInv, Inv, ThreadOK, StoreOK
<1>3. branch'.root = Atomic!Result(JobOf(p)) /\ JobOf(p) # Atomic!NoJob
    BY <1>1, <1>2, ResultIsMade DEF JobInv, JobOK
<1>4. JobOf(p)' \in {Atomic!NoJob, JobOf(p)}
    <2>1. \/ pc'[p] \in {"idle", "info"}
          \/ pc'[p] \in {"begin", "retry"} /\ SameCommits(req'[p], req[p])
        BY CasEffect DEF JobInv
    <2>2. CASE pc'[p] \in {"idle", "info"}
        BY <2>2 DEF JobOf, Atomic!NoJob
    <2>3. CASE pc'[p] \in {"begin", "retry"} /\ SameCommits(req'[p], req[p])
        BY <1>1, <2>3, SameJob DEF SameCommits
    <2> QED
        BY <2>1, <2>2, <2>3
<1>5. \A q \in Procs \ {p} : JobOf(q)' = JobOf(q)
    BY <1>1, SameJob DEF Others
<1>6. Jobs' = [Jobs EXCEPT ![p] = JobOf(p)'] /\ Jobs'[p] = JobOf(p)' /\ Jobs[p] = JobOf(p)
    BY <1>5 DEF Jobs
<1>7. Seen' = Seen \cup {branch'.root}
    BY <1>1 DEF Seen
<1> QED
    BY <1>2, <1>3, <1>4, <1>6, <1>7 DEF Atomic!Apply, Jobs, Seen

\* A request that ends otherwise is given up, or was over.
LEMMA GiveUpStep ==
    ASSUME NEW p \in Procs, pc'[p] = "idle", Others(p), branch' = branch,
           published' = published
    PROVE  Atomic!GiveUp({p})
<1>1. \A q \in Procs \ {p} : JobOf(q)' = JobOf(q)
    BY SameJob DEF Others
<1>2. JobOf(p)' = Atomic!NoJob
    BY DEF JobOf, Atomic!NoJob
<1> QED
    BY <1>1, <1>2 DEF Atomic!GiveUp

\* Every step of the protocol is a step of AtomicBranch, or shows nothing there.
LEMMA AtomicStep == JobInv /\ [Next]_vars => [Atomic!Next]_(Atomic!vars)
<1> SUFFICES ASSUME JobInv, [Next]_vars PROVE [Atomic!Next]_(Atomic!vars)
    OBVIOUS
<1>0. Inv /\ Published
    BY DEF JobInv
<1>1. ASSUME NEW p \in Procs, NewRequest(p) PROVE Atomic!Next
    BY <1>0, <1>1, NewRequestBegins, SubmitStep DEF Atomic!Next
<1>2. ASSUME NEW p \in Procs, CasOk(p) \/ CasReplyLost(p) PROVE Atomic!Next
    BY <1>2, ApplyStep DEF Atomic!Next
<1>3. ASSUME NEW p \in Procs, CasMismatch(p) \/ CasRolledBack(p)
      PROVE  [Atomic!Next]_(Atomic!vars)
    <2>1. /\ pc[p] = "cas" /\ Others(p) /\ branch' = branch /\ published' = published
        BY <1>0, <1>3, CasEffect DEF CasMismatch, CasRolledBack, db, history
    <2>2. \/ pc'[p] = "idle"
          \/ pc'[p] \in {"begin", "retry"} /\ SameCommits(req'[p], req[p])
        BY <1>0, <1>3, CasErrorStep DEF CasMismatch, CasRolledBack
    <2>3. CASE pc'[p] = "idle"
        BY <2>1, <2>3, GiveUpStep DEF Atomic!Next
    <2>4. CASE pc'[p] \in {"begin", "retry"} /\ SameCommits(req'[p], req[p])
        BY <2>1, <2>4, SameJob, AtomicStutter DEF Others, SameCommits
    <2> QED
        BY <2>2, <2>3, <2>4
<1>4. ASSUME NEW p \in Procs,
             \/ GenNewCommit(p) \/ FastForwardOrMerge(p) \/ Retry(p)
             \/ EditRepo(p) \/ RevertOnServer(p)
      PROVE  UNCHANGED Atomic!vars
    <2>1. /\ pc[p] \in {"begin", "retry"} /\ pc'[p] = "cas" /\ Others(p)
          /\ Kept(req'[p], req[p]) /\ branch' = branch /\ published' = published
        BY <1>0, <1>4, AttemptEffect, CommitEffect
    <2> QED
        BY <2>1, SameJob, AtomicStutter DEF Others, Kept
<1>5. ASSUME NEW p \in Procs, UpdateRepoInfo(p) \/ Abort(p)
      PROVE  [Atomic!Next]_(Atomic!vars)
    <2>1. /\ Others(p) /\ branch' = branch /\ published' = published
          /\ (pc[p] = "info" /\ pc'[p] = "info2") \/ pc'[p] = "idle"
        BY <1>0, <1>5, EndEffect
    <2>2. CASE pc[p] = "info" /\ pc'[p] = "info2"
        BY <2>1, <2>2, SameJob, AtomicStutter DEF Others
    <2>3. CASE pc'[p] = "idle"
        BY <2>1, <2>3, GiveUpStep DEF Atomic!Next
    <2> QED
        BY <2>1, <2>2, <2>3
<1>6. ASSUME NEW p \in Procs, Run(p) PROVE [Atomic!Next]_(Atomic!vars)
    BY <1>2, <1>3, <1>4, <1>5, <1>6 DEF Run
<1>7. CASE ClientCommit
    BY <1>0, <1>7, PutEffect, SameJob, AtomicStutter
<1>8. CASE Crash
    <2>1. /\ branch' = branch /\ published' = published
          /\ \A p \in Procs : pc'[p] = "idle"
        BY <1>8 DEF Crash, db, history
    <2>2. \A p \in Procs : JobOf(p)' = Atomic!NoJob
        BY <2>1 DEF JobOf, Atomic!NoJob
    <2>3. Atomic!GiveUp(Procs)
        BY <2>1, <2>2 DEF Atomic!GiveUp
    <2> QED
        BY <2>3 DEF Atomic!Next
<1>9. CASE DelRepoRow
    BY <1>9, SameJob, AtomicStutter DEF DelRepoRow, history
<1>10. CASE DelBranch
    <2>1. /\ branch # None /\ branch' = None /\ published' = published
          /\ pc' = pc /\ req' = req
        BY <1>10 DEF DelBranch
    <2>2. \A p \in Procs : JobOf(p)' = JobOf(p)
        BY <2>1, SameJob
    <2>3. Atomic!Delete
        BY <2>1, <2>2 DEF Atomic!Delete
    <2> QED
        BY <2>3 DEF Atomic!Next
<1>11. CASE UNCHANGED vars
    BY <1>11, SameJob, AtomicStutter DEF vars
<1> QED
    BY <1>1, <1>6, <1>7, <1>8, <1>9, <1>10, <1>11 DEF Next

\* The branch protocol implements AtomicBranch: each request takes effect in one
\* step on the tree the library has at that moment, or once more when the answer of
\* the database was lost, or not at all (gen_new_commit, fast_forward_or_merge,
\* edit_repo, revert_on_server, test_and_update_branch).
THEOREM RefinesAtomicBranch == Spec => AtomicSpec
<1>1. Init => Atomic!Init
    <2> SUFFICES ASSUME Init PROVE Atomic!Init
        OBVIOUS
    <2>1. branch = InitCommit /\ published = {InitCommit} /\ InitCommit.root = InitTree
        BY DEF Init, InitCommit
    <2>2. branch # None
        BY <2>1, InitInv, NoneAssumption DEF Inv, RefsOK, StoreOK, Init
    <2>3. \A p \in Procs : JobOf(p) = Atomic!NoJob
        BY NoJobOf DEF Init
    <2> QED
        BY <2>1, <2>2, <2>3 DEF Atomic!Init
<1> QED
    BY <1>1, AtomicStep, SpecJob, PTL DEF Spec, AtomicSpec, Atomic!Spec

----------------------------------------------------------------------------
\* Retries.

\* at counts the updates of the Branch row when the thread loaded the head: while
\* it is the count, the head is the one it loaded.
ProgressOK(p) ==
    /\ req[p].since <= updates
    /\ pc[p] = "cas" =>
          /\ req[p].at <= updates
          /\ req[p].at = updates => branch = req[p].old
    /\ faults = 0 =>
          /\ req[p].tries <= updates - req[p].since
          /\ pc[p] = "cas" => req[p].tries <= req[p].at - req[p].since

ProgressInv == JobInv /\ \A p \in Procs : ProgressOK(p)

\* At first no request has been tried.
LEMMA ProgressInit == Init => ProgressInv
<1> SUFFICES ASSUME Init PROVE ProgressInv
    OBVIOUS
<1>1. JobInv
    BY JobInit
<1>2. ASSUME NEW p \in Procs PROVE ProgressOK(p)
    <2>1. req[p] = NoReq /\ pc[p] = "idle" /\ updates = 0
        BY DEF Init
    <2> QED
        BY <2>1 DEF ProgressOK, NoReq
<1> QED
    BY <1>1, <1>2 DEF ProgressInv

\* A thread that does not move, while others move the head or not.
LEMMA ProgressStable ==
    ASSUME Inv, NEW q \in Procs, ProgressOK(q), pc'[q] = pc[q], req'[q] = req[q],
           (branch' = branch /\ updates' = updates) \/ updates' = updates + 1,
           faults' \in {faults, faults + 1}
    PROVE  ProgressOK(q)'
<1>1. /\ updates \in Nat /\ faults \in Nat /\ req[q].at \in Nat /\ req[q].since \in Nat
      /\ req[q].tries \in Nat
    BY DEF Inv, TypeOK, Request
<1> QED
    BY <1>1 DEF ProgressOK

\* A try fails only when the head has moved since the thread loaded it, or with a
\* fault (test_and_update_branch()).
LEMMA ProgressNext == ProgressInv /\ [Next]_vars => ProgressInv'
<1> SUFFICES ASSUME ProgressInv, [Next]_vars PROVE ProgressInv'
    OBVIOUS
<1>0. JobInv /\ JobInv' /\ Inv /\ Published
    BY JobNext DEF ProgressInv, JobInv
<1>1. /\ updates \in Nat /\ faults \in Nat
      /\ \A p \in Procs : /\ req[p].at \in Nat /\ req[p].since \in Nat
                          /\ req[p].tries \in Nat
    BY <1>0 DEF Inv, TypeOK, Request
<1>2. ASSUME NEW p \in Procs, NewRequest(p) PROVE ProgressInv'
    <2>1. PICK r \in Request : Begin(p, r) /\ Begun(r)
        BY <1>0, <1>2, NewRequestBegins
    <2>2. /\ pc'[p] = "begin" /\ req'[p] = r /\ Others(p) /\ branch' = branch
          /\ updates' = updates /\ faults' = faults
        BY <1>0, <2>1, BeginEffect
    <2>3. ProgressOK(p)'
        BY <1>1, <2>1, <2>2 DEF ProgressOK, Begun
    <2> QED
        BY <1>0, <2>2, <2>3, ProgressStable DEF ProgressInv, Others
<1>3. ASSUME NEW p \in Procs,
             \/ GenNewCommit(p) \/ FastForwardOrMerge(p) \/ Retry(p)
             \/ EditRepo(p) \/ RevertOnServer(p)
      PROVE  ProgressInv'
    <2>1. /\ pc'[p] = "cas" /\ Others(p) /\ branch' = branch /\ updates' = updates
          /\ faults' = faults /\ req'[p].old = branch /\ req'[p].at = updates
          /\ req'[p].since = req[p].since /\ req'[p].tries = req[p].tries
        BY <1>0, <1>3, AttemptEffect, CommitEffect DEF Kept
    <2>2. ProgressOK(p)'
        BY <1>1, <2>1 DEF ProgressInv, ProgressOK
    <2> QED
        BY <1>0, <2>1, <2>2, ProgressStable DEF ProgressInv, Others
<1>4. ASSUME NEW p \in Procs,
             CasOk(p) \/ CasMismatch(p) \/ CasRolledBack(p) \/ CasReplyLost(p)
      PROVE  ProgressInv'
    <2>1. /\ pc[p] = "cas" /\ Others(p) /\ faults' \in {faults, faults + 1}
          /\ (branch' = branch /\ updates' = updates) \/ updates' = updates + 1
          /\ \/ pc'[p] = "info" /\ req'[p] = req[p]
             \/ pc'[p] = "idle" /\ req'[p] = NoReq
             \/ /\ pc'[p] \in {"begin", "retry"} /\ SameCommits(req'[p], req[p])
                /\ branch # req[p].old \/ faults' = faults + 1
        BY <1>0, <1>4, CasEffect
    <2>2. CASE pc'[p] = "info" /\ req'[p] = req[p]
        <3>1. ProgressOK(p)'
            BY <1>1, <2>1, <2>2 DEF ProgressInv, ProgressOK
        <3> QED
            BY <1>0, <2>1, <3>1, ProgressStable DEF ProgressInv, Others
    <2>3. CASE pc'[p] = "idle" /\ req'[p] = NoReq
        <3>1. updates' \in Nat
            BY <1>1, <2>1
        <3>2. req'[p].since = 0 /\ req'[p].tries = 0
            BY <2>3 DEF NoReq
        <3>a. pc'[p] # "cas"
            BY <2>3
        <3>b. req'[p].since <= updates' /\ req'[p].tries <= updates' - req'[p].since
            <4>1. \A n \in Nat : 0 <= n /\ 0 <= n - 0
                OBVIOUS
            <4>2. 0 <= updates' /\ 0 <= updates' - 0
                BY <3>1, <4>1
            <4> QED
                BY <3>2, <4>2
        <3>3. ProgressOK(p)'
            BY <3>a, <3>b DEF ProgressOK
        <3> QED
            BY <1>0, <2>1, <3>3, ProgressStable DEF ProgressInv, Others
    <2>4. CASE /\ pc'[p] \in {"begin", "retry"} /\ SameCommits(req'[p], req[p])
               /\ branch # req[p].old \/ faults' = faults + 1
        <3>1. ProgressOK(p)
            BY DEF ProgressInv
        <3>2. ProgressOK(p)'
            BY <1>1, <2>1, <2>4, <3>1 DEF ProgressOK, SameCommits
        <3> QED
            BY <1>0, <2>1, <3>2, ProgressStable DEF ProgressInv, Others
    <2> QED
        BY <2>1, <2>2, <2>3, <2>4
<1>5. ASSUME NEW p \in Procs, UpdateRepoInfo(p) \/ Abort(p) PROVE ProgressInv'
    <2>1. /\ Others(p) /\ branch' = branch /\ updates' = updates
          /\ faults' \in {faults, faults + 1}
          /\ \/ pc[p] = "info" /\ pc'[p] = "info2" /\ req'[p] = req[p]
             \/ pc'[p] = "idle" /\ req'[p] = NoReq
        BY <1>0, <1>5, EndEffect
    <2>2. ProgressOK(p)'
        BY <1>1, <2>1 DEF ProgressInv, ProgressOK, NoReq
    <2> QED
        BY <1>0, <2>1, <2>2, ProgressStable DEF ProgressInv, Others
<1>6. ASSUME NEW p \in Procs, Run(p) PROVE ProgressInv'
    BY <1>3, <1>4, <1>5, <1>6 DEF Run
<1>7. CASE ClientCommit
    BY <1>0, <1>7, PutEffect, ProgressStable DEF ProgressInv
<1>8. CASE Crash \/ DelRepoRow \/ DelBranch
    <2>1. /\ (branch' = branch /\ updates' = updates) \/ updates' = updates + 1
          /\ faults' \in {faults, faults + 1}
          /\ \/ pc' = pc /\ req' = req
             \/ \A p \in Procs : pc'[p] = "idle" /\ req'[p] = NoReq
        BY <1>0, <1>8, OutsideEffect
    <2>2. CASE pc' = pc /\ req' = req
        BY <1>0, <2>1, <2>2, ProgressStable DEF ProgressInv
    <2>3. CASE \A p \in Procs : pc'[p] = "idle" /\ req'[p] = NoReq
        BY <1>0, <1>1, <2>1, <2>3 DEF ProgressInv, ProgressOK, NoReq
    <2> QED
        BY <2>1, <2>2, <2>3
<1>9. CASE UNCHANGED vars
    BY <1>0, <1>1, <1>9, ProgressStable DEF vars, ProgressInv
<1> QED
    BY <1>2, <1>6, <1>7, <1>8, <1>9 DEF Next

\* Unless the database fails, each failed attempt of a request is due to another
\* change of the Branch row since the request began, so "Concurrent update" is only
\* answered after MaxRetry + 1 such changes (gen_new_commit, fast_forward_or_merge).
THEOREM RetriesMeanProgress == Spec => []RetryMeansProgress
<1>1. ProgressInv => RetryMeansProgress
    <2> SUFFICES ASSUME ProgressInv, faults = 0, NEW p \in Procs
                 PROVE  /\ req[p].tries <= updates - req[p].since
                        /\ pc[p] = "cas" /\ branch # req[p].old =>
                               req[p].tries < updates - req[p].since
        BY DEF RetryMeansProgress
    <2>1. /\ updates \in Nat /\ req[p].at \in Nat /\ req[p].since \in Nat
          /\ req[p].tries \in Nat
        BY DEF ProgressInv, JobInv, Inv, TypeOK, Request
    <2> QED
        BY <2>1 DEF ProgressInv, ProgressOK
<1> QED
    BY <1>1, ProgressInit, ProgressNext, PTL DEF Spec

----------------------------------------------------------------------------
\* The line of heads, where each commit has a second of its own.  Within one
\* second two different commits may get one id, the second of them is never stored,
\* and what follows is false: so the theorems of this part assume ~SameSecond.

\* History in a commit store: a commit is in its own history, has that of its
\* parent, and is younger than it.
Line(cs) ==
    \A c \in DOMAIN cs :
        /\ c \in cs[c].anc
        /\ cs[c].parent # None =>
              cs[cs[c].parent].anc \subseteq cs[c].anc /\ cs[c].parent.ctime < c.ctime

\* The store and the head: no commit is from the future, clients keep the name of
\* the commit they had, heads get younger.
LineState ==
    /\ Line(commits)
    /\ \A c \in DOMAIN commits : c.ctime <= now
    /\ \A c \in uploaded : commits[c].rname = commits[commits[c].parent].rname
    /\ branch # None =>
          /\ acked \subseteq commits[branch].anc
          /\ \A c \in published : c = branch \/ c.ctime < branch.ctime

\* Does the commit that thread p wants as head have a name that it may have?
RightName(p) ==
    \/ commits[req[p].target].rname = commits[req[p].old].rname
    \/ /\ req[p].kind = "edit"
       /\ IF req[p].given THEN req[p].name = commits[req[p].target].rname
          ELSE req[p].tries > 0

\* A thread: its commit is a child of its base; its target descends from the head
\* that it loaded and from its commit; what it moved the head to stays in history.
LineOK(p) ==
    /\ pc[p] # "idle" /\ req[p].kind = "write" => req[p].desc.op # "merged"
    /\ pc[p] # "idle" /\ req[p].kind = "edit" =>
          IF req[p].given THEN req[p].name # None
          ELSE req[p].name = None \/ req[p].tries > 0
    /\ pc[p] # "idle" /\ req[p].kind = "sync" =>
          /\ commits[req[p].new].parent = req[p].base
          /\ commits[req[p].new].rname = commits[req[p].base].rname
    /\ pc[p] \in {"cas", "retry"} /\ req[p].kind = "write" =>
          /\ commits[req[p].new].parent = req[p].base
          /\ \/ commits[req[p].new].rname = commits[req[p].base].rname
             \/ branch # None => req[p].base.ctime < branch.ctime
    /\ pc[p] = "cas" =>
          /\ req[p].old.ctime < req[p].target.ctime
          /\ commits[req[p].old].anc \subseteq commits[req[p].target].anc
          /\ req[p].new \in commits[req[p].target].anc
          /\ RightName(p)
    /\ pc[p] \in {"cas", "info", "info2"} /\ req[p].kind = "edit" /\ req[p].given =>
          commits[req[p].target].rname = req[p].name
    /\ pc[p] \in {"info", "info2"} /\ branch # None =>
          req[p].new \in commits[branch].anc

LineInv == JobInv /\ LineState /\ \A p \in Procs : LineOK(p)

\* The library as create_repo_common() leaves it has one commit and no requests.
LEMMA LineInit == Init => LineInv
<1> SUFFICES ASSUME Init PROVE LineInv
    OBVIOUS
<1>1. JobInv
    BY JobInit
<1>2. /\ DOMAIN commits = {InitCommit} /\ InitCommit \in commits[InitCommit].anc
      /\ commits[InitCommit].parent = None /\ InitCommit.ctime = 0
      /\ branch = InitCommit /\ published = {InitCommit} /\ acked = {} /\ uploaded = {}
      /\ now = 0
    BY DEF Init, InitCommit
<1>3. LineState
    BY <1>2 DEF LineState, Line
<1>4. ASSUME NEW p \in Procs PROVE LineOK(p)
    BY DEF Init, LineOK
<1> QED
    BY <1>1, <1>3, <1>4 DEF LineInv

\* A commit with a new id joins the line below its parent (seaf_commit_new(),
\* save_commit()).
LEMMA ChildAdded ==
    ASSUME NEW cs, StoreOK(cs), Line(cs), NEW c \in CommitId, c \notin DOMAIN cs,
           NEW body \in Body, body.parent \in DOMAIN cs,
           body.second \in DOMAIN cs \cup {None}, body.parent.ctime < c.ctime,
           c \in body.anc, cs[body.parent].anc \subseteq body.anc
    PROVE  Line(Save(cs, c, body))
<1>1. PICK new : new = Save(cs, c, body)
    OBVIOUS
<1>2. /\ DOMAIN new = DOMAIN cs \cup {c}
      /\ \A x \in DOMAIN cs : new[x] = cs[x]
      /\ new[c] = body
    <2>1. /\ DOMAIN Save(cs, c, body) = DOMAIN cs \cup {c}
          /\ \A x \in DOMAIN cs : Save(cs, c, body)[x] = cs[x]
          /\ Save(cs, c, body)[c] = body
        BY SaveStoreOK
    <2> QED
        BY <1>1, <2>1
<1>3. ASSUME NEW x \in DOMAIN new
      PROVE  /\ x \in new[x].anc
             /\ new[x].parent # None =>
                  new[new[x].parent].anc \subseteq new[x].anc /\ new[x].parent.ctime < x.ctime
    <2>1. CASE x = c
        BY <1>2, <2>1
    <2>2. CASE x \in DOMAIN cs
        BY <1>2, <2>2 DEF Line, StoreOK
    <2> QED
        BY <1>2, <2>1, <2>2
<1> QED
    BY <1>1, <1>3 DEF Line

\* A thread that does not move keeps what it has when the store grows and the head
\* moves down the line, or goes.
LEMMA LineStable ==
    ASSUME Inv, NEW q \in Procs, LineOK(q), pc'[q] = pc[q], req'[q] = req[q],
           \A x \in DOMAIN commits : commits'[x] = commits[x],
           \/ branch' = branch
           \/ branch' = None
           \/ /\ branch \in DOMAIN commits /\ branch' \in DOMAIN commits
              /\ commits[branch].anc \subseteq commits[branch'].anc
              /\ branch.ctime < branch'.ctime
    PROVE  LineOK(q)'
<1>1. /\ ThreadOK(q) /\ req[q] \in Request
      /\ branch # None => branch \in DOMAIN commits /\ branch \in CommitId
      /\ DOMAIN commits \subseteq CommitId
    BY DEF Inv, RefsOK, StoreOK, TypeOK
<1>2. RightName(q) /\ pc[q] = "cas" => RightName(q)'
    BY <1>1 DEF ThreadOK, RightName
<1>3. pc[q] \in {"info", "info2"} /\ branch' # None => req[q].new \in commits'[branch'].anc
    BY <1>1, NoneAssumption DEF LineOK
<1>4. /\ pc[q] # "idle" /\ req[q].kind = "sync" =>
          /\ commits'[req[q].new].parent = req[q].base
          /\ commits'[req[q].new].rname = commits'[req[q].base].rname
      /\ pc[q] = "cas" =>
          /\ req[q].old.ctime < req[q].target.ctime
          /\ commits'[req[q].old].anc \subseteq commits'[req[q].target].anc
          /\ req[q].new \in commits'[req[q].target].anc
    BY <1>1 DEF LineOK, ThreadOK
<1>5. pc[q] \in {"cas", "info", "info2"} /\ req[q].kind = "edit" /\ req[q].given =>
          commits'[req[q].target].rname = req[q].name
    BY <1>1 DEF LineOK, ThreadOK
<1>6. ASSUME pc[q] \in {"cas", "retry"}, req[q].kind = "write"
      PROVE  /\ commits'[req[q].new].parent = req[q].base
             /\ \/ commits'[req[q].new].rname = commits'[req[q].base].rname
                \/ branch' # None => req[q].base.ctime < branch'.ctime
    <2>1. req[q].new \in DOMAIN commits /\ req[q].base \in DOMAIN commits
        BY <1>1, <1>6 DEF ThreadOK
    <2>2. req[q].base.ctime \in Nat /\ \A c \in DOMAIN commits : c.ctime \in Nat
        BY <1>1, <2>1 DEF CommitId
    <2>3. /\ commits[req[q].new].parent = req[q].base
          /\ \/ commits[req[q].new].rname = commits[req[q].base].rname
             \/ branch # None => req[q].base.ctime < branch.ctime
        BY <1>6 DEF LineOK
    <2>4. branch \in DOMAIN commits => branch # None
        BY <1>1, NoneAssumption
    <2> QED
        BY <1>1, <2>1, <2>2, <2>3, <2>4
<1> QED
    BY <1>1, <1>2, <1>3, <1>4, <1>5, <1>6 DEF LineOK

\* The commit of a file operation is new in the store and a child of its base; that
\* of a sync client, or of a retry, is the one that is there (gen_new_commit()).
LEMMA NewStoreLine ==
    ASSUME ~SameSecond, LineInv, NEW p \in Procs,
           GenNewCommit(p) \/ FastForwardOrMerge(p) \/ Retry(p)
    PROVE  /\ StoreOK(NewStore(p)) /\ Line(NewStore(p))
           /\ req'[p].new \in DOMAIN NewStore(p)
           /\ DOMAIN NewStore(p) = DOMAIN commits \cup {req'[p].new}
           /\ \A x \in DOMAIN commits : NewStore(p)[x] = commits[x]
           /\ NewStore(p)[req'[p].new].parent = req[p].base
           /\ \/ NewStore(p)[req'[p].new].rname = NewStore(p)[req[p].base].rname
              \/ req[p].base.ctime < branch.ctime
           /\ \/ req'[p].new \in DOMAIN commits
              \/ req'[p].new.ctime = now' /\ req'[p].new.desc.op # "merged"
<1>1. Inv /\ Published /\ JobOK(p) /\ LineState /\ LineOK(p) /\ ThreadOK(p)
    BY DEF LineInv, JobInv, Inv
<1>2. /\ RepoOpen /\ now' = now + 1 /\ now \in Nat /\ pc[p] \in {"begin", "retry"}
      /\ req[p].kind \in {"write", "sync"} /\ branch \in DOMAIN commits /\ branch # None
      /\ req'[p].new = IF Creates(p) THEN NewCommit(p) ELSE req[p].new
    BY <1>1, AttemptEffect DEF Tick, RepoOpen, Inv, TypeOK, RefsOK
<1>3. /\ req[p].base \in published /\ req[p].base \in DOMAIN commits
      /\ req[p].user \in Users /\ req[p] \in Request /\ NameOf(branch) \in RepoNames
    BY <1>1, <1>2 DEF JobOK, ThreadOK, Inv, TypeOK, StoreOK, Body, NameOf
<1>4. \A x \in DOMAIN commits : x.ctime \in Nat /\ x.ctime <= now
    BY <1>1 DEF LineState, Inv, StoreOK, CommitId
<1>5. CASE Creates(p)
    <2>1. NewCommit(p) \in CommitId /\ NewCommit(p).ctime = now'
        BY <1>2, <1>3 DEF NewCommit, CommitId, Request
    <2>2. NewCommit(p) \notin DOMAIN commits /\ req[p].base.ctime < NewCommit(p).ctime
        BY <1>2, <1>3, <1>4, <2>1
    <2>3. NewCommit(p).desc.op # "merged"
        BY <1>1, <1>5 DEF NewCommit, LineOK, Creates
    <2> DEFINE body == MakeBody(commits, NewCommit(p), req[p].base, None, NameOf(branch))
    <2>4. NewStore(p) = Save(commits, NewCommit(p), body)
        BY <1>5 DEF NewStore
    <2>a. /\ body \in Body /\ body.parent = req[p].base /\ body.second = None
          /\ body.rname = NameOf(branch)
          /\ NewCommit(p) \in body.anc /\ commits[req[p].base].anc \subseteq body.anc
        BY <1>1, <1>3, <2>1, MakeBodyType DEF Inv
    <2> HIDE DEF body
    <2>b. StoreOK(commits) /\ Line(commits)
        BY <1>1 DEF Inv, LineState
    <2>5. /\ StoreOK(NewStore(p)) /\ Line(NewStore(p))
          /\ DOMAIN NewStore(p) = DOMAIN commits \cup {NewCommit(p)}
          /\ \A x \in DOMAIN commits : NewStore(p)[x] = commits[x]
          /\ NewStore(p)[NewCommit(p)] = body
        BY <1>3, <2>1, <2>2, <2>4, <2>a, <2>b, SaveStoreOK, ChildAdded
    <2>6. req[p].base = branch \/ req[p].base.ctime < branch.ctime
        BY <1>1, <1>2, <1>3 DEF LineState
    <2> QED
        BY <1>2, <1>3, <1>5, <2>1, <2>3, <2>5, <2>6, <2>a DEF NameOf
<1>6. CASE ~Creates(p)
    <2>1. NewStore(p) = commits /\ req'[p].new = req[p].new
        BY <1>2, <1>6 DEF NewStore
    <2>2. req[p].kind = "sync" \/ pc[p] = "retry"
        BY <1>2, <1>6 DEF Creates
    <2>3. req[p].new \in DOMAIN commits
        BY <1>1, <1>2, <2>2 DEF ThreadOK
    <2>4. /\ commits[req[p].new].parent = req[p].base
          /\ \/ commits[req[p].new].rname = commits[req[p].base].rname
             \/ req[p].base.ctime < branch.ctime
        BY <1>1, <1>2, <2>2 DEF LineOK
    <2>5. StoreOK(commits) /\ Line(commits)
        BY <1>1 DEF Inv, LineState
    <2>6. DOMAIN commits = DOMAIN commits \cup {req[p].new}
        BY <2>3
    <2> QED
        <3>1. StoreOK(NewStore(p)) /\ Line(NewStore(p))
            BY <2>1, <2>5
        <3>2. /\ req'[p].new \in DOMAIN NewStore(p)
              /\ DOMAIN NewStore(p) = DOMAIN commits \cup {req'[p].new}
              /\ req'[p].new \in DOMAIN commits
            BY <2>1, <2>3, <2>6
        <3>3. \A x \in DOMAIN commits : NewStore(p)[x] = commits[x]
            BY <2>1
        <3>4. /\ NewStore(p)[req'[p].new].parent = req[p].base
              /\ \/ NewStore(p)[req'[p].new].rname = NewStore(p)[req[p].base].rname
                 \/ req[p].base.ctime < branch.ctime
            BY <2>1, <2>4
        <3> QED
            BY <3>1, <3>2, <3>3, <3>4
<1> QED
    BY <1>5, <1>6

\* An attempt leaves a target that descends from the head it loaded and from the
\* commit of the request, and has the name of that head (gen_new_commit(),
\* fast_forward_or_merge()).
LEMMA LineAttempt ==
    ASSUME ~SameSecond, LineInv, NEW p \in Procs,
           GenNewCommit(p) \/ FastForwardOrMerge(p) \/ Retry(p)
    PROVE  LineInv'
<1> DEFINE n == req'[p].new
           t == req'[p].target
           cs == NewStore(p)
<1>1. Inv /\ Published /\ JobOK(p) /\ LineState /\ LineOK(p) /\ JobInv' /\ Inv'
    BY JobAttempt DEF LineInv, JobInv
<1>2. /\ now' = now + 1 /\ now \in Nat /\ pc[p] \in {"begin", "retry"}
      /\ req[p].kind \in {"write", "sync"} /\ branch \in DOMAIN commits /\ branch # None
      /\ branch' = branch /\ published' = published /\ acked' = acked
      /\ uploaded' = uploaded /\ pc'[p] = "cas" /\ Others(p) /\ Kept(req'[p], req[p])
      /\ req'[p].old = branch
    BY <1>1, AttemptEffect DEF Tick, RepoOpen, Inv, TypeOK, RefsOK
<1>3. /\ StoreOK(cs) /\ Line(cs) /\ n \in DOMAIN cs
      /\ DOMAIN cs = DOMAIN commits \cup {n}
      /\ \A x \in DOMAIN commits : cs[x] = commits[x]
      /\ cs[n].parent = req[p].base
      /\ cs[n].rname = cs[req[p].base].rname \/ req[p].base.ctime < branch.ctime
      /\ n \in DOMAIN commits \/ (n.ctime = now' /\ n.desc.op # "merged")
    BY NewStoreLine
<1>4. /\ \A x \in DOMAIN commits : x.ctime \in Nat /\ x.ctime <= now
      /\ NameOf(branch) \in RepoNames /\ t \in CommitId
      /\ req[p].base \in DOMAIN commits
    <2>1. t \in DOMAIN commits'
        BY <1>1, <1>2 DEF Inv, ThreadOK
    <2> QED
        BY <1>1, <1>2, <2>1 DEF LineState, Inv, StoreOK, CommitId, Body, NameOf, ThreadOK
<1>5. IF req[p].base = branch
      THEN t = n /\ commits' = cs
      ELSE t = Merged(p, n) /\ commits' = Save(cs, t, MakeBody(cs, t, branch, n, NameOf(branch)))
    BY <1>1, AttemptEffect
<1> HIDE DEF n, t, cs
<1>6. /\ Line(commits') /\ DOMAIN commits' = DOMAIN cs \cup {t}
      /\ \A x \in DOMAIN cs : commits'[x] = cs[x]
      /\ t \in DOMAIN cs \/ t.ctime = now'
      /\ branch.ctime < t.ctime
      /\ commits'[branch].anc \subseteq commits'[t].anc
      /\ n \in commits'[t].anc
      /\ commits'[t].rname = commits'[branch].rname
    <2>1. CASE req[p].base = branch
        <3>1. branch.ctime < t.ctime /\ cs[branch].anc \subseteq cs[t].anc /\ t \in cs[t].anc
            BY <1>2, <1>3, <1>5, <2>1 DEF Line
        <3>2. ~(req[p].base.ctime < branch.ctime)
            BY <1>2, <1>4, <2>1
        <3> QED
            BY <1>2, <1>3, <1>5, <2>1, <3>1, <3>2
    <2>2. CASE req[p].base # branch
        <3>1. t.ctime = now' /\ t.desc.op = "merged"
            BY <1>5, <2>2 DEF Merged, MergedCommit, MergeDesc
        <3>2. t \notin DOMAIN cs /\ branch.ctime < t.ctime
            BY <1>2, <1>3, <1>4, <3>1
        <3> DEFINE body == MakeBody(cs, t, branch, n, NameOf(branch))
        <3>3. commits' = Save(cs, t, body)
            BY <1>5, <2>2
        <3>4. branch \in DOMAIN cs /\ n \in DOMAIN cs \cup {None} /\ StoreOK(cs) /\ Line(cs)
            BY <1>2, <1>3
        <3>a. /\ body \in Body /\ body.parent = branch /\ body.second = n
              /\ body.rname = NameOf(branch)
              /\ body.anc = {t} \cup cs[branch].anc \cup Ancestors(cs, n)
            BY <1>4, <3>4, MakeBodyType
        <3> HIDE DEF body
        <3>b. t \in body.anc /\ cs[branch].anc \subseteq body.anc
            BY <3>a
        <3>5. /\ Line(commits') /\ DOMAIN commits' = DOMAIN cs \cup {t}
              /\ \A x \in DOMAIN cs : commits'[x] = cs[x]
              /\ commits'[t] = body
            BY <1>4, <3>2, <3>3, <3>4, <3>a, <3>b, SaveStoreOK, ChildAdded
        <3>6. n # None /\ n \in cs[n].anc
            BY <1>3, NoneAssumption DEF StoreOK, Line
        <3>7. n \in Ancestors(cs, n)
            BY <3>6 DEF Ancestors
        <3> QED
            BY <1>2, <1>3, <3>1, <3>2, <3>4, <3>5, <3>7, <3>a DEF NameOf
    <2> QED
        BY <2>1, <2>2
<1>7. \A x \in DOMAIN commits : commits'[x] = commits[x] /\ x \in DOMAIN commits'
    BY <1>3, <1>6
<1>8. LineState'
    <2>1. \A x \in DOMAIN commits' : x.ctime <= now'
        <3>1. n \in DOMAIN commits \/ n.ctime = now'
            BY <1>3
        <3>2. \A x \in DOMAIN cs : x.ctime <= now'
            BY <1>2, <1>3, <1>4, <3>1
        <3> QED
            BY <1>2, <1>6, <3>2
    <2>2. \A c \in uploaded' : commits'[c].rname = commits'[commits'[c].parent].rname
        <3>1. \A c \in uploaded : c \in DOMAIN commits /\ commits[c].parent \in DOMAIN commits
            BY <1>1 DEF Inv, RefsOK, StoreOK
        <3> QED
            BY <1>1, <1>2, <1>7, <3>1 DEF LineState
    <2>3. acked' \subseteq commits'[branch'].anc
        BY <1>1, <1>2, <1>7 DEF LineState
    <2>4. \A c \in published' : c = branch' \/ c.ctime < branch'.ctime
        BY <1>1, <1>2 DEF LineState
    <2> QED
        BY <1>6, <2>1, <2>2, <2>3, <2>4 DEF LineState
<1>9. LineOK(p)'
    <2>1. commits'[n].parent = req[p].base
        BY <1>3, <1>6
    <2>2. \/ commits'[n].rname = commits'[req[p].base].rname
          \/ req[p].base.ctime < branch.ctime
        BY <1>3, <1>4, <1>6, <1>7
    <2>3. req[p].kind = "sync" =>
            commits'[n].rname = commits'[req[p].base].rname
        <3>1. ASSUME req[p].kind = "sync" PROVE n = req[p].new /\ n \in DOMAIN commits
            <4>1. ~Creates(p)
                BY <3>1 DEF Creates
            <4>2. n = req[p].new
                BY <1>1, <4>1, AttemptEffect DEF n
            <4> QED
                BY <1>1, <1>2, <3>1, <4>2 DEF Inv, ThreadOK
        <3> QED
            BY <1>1, <1>2, <1>4, <1>7, <3>1 DEF LineOK
    <2>4. RightName(p)'
        BY <1>2, <1>6 DEF RightName, t
    <2>5. /\ req'[p].desc = req[p].desc /\ req'[p].kind = req[p].kind
          /\ req'[p].base = req[p].base
        BY <1>2 DEF Kept
    <2> QED
        BY <1>1, <1>2, <1>6, <2>1, <2>2, <2>3, <2>4, <2>5 DEF LineOK, n, t
<1>10. ASSUME NEW q \in Procs, q # p PROVE LineOK(q)'
    <2>1. pc'[q] = pc[q] /\ req'[q] = req[q] /\ LineOK(q)
        BY <1>2, <1>10 DEF Others, LineInv
    <2> QED
        BY <1>1, <1>2, <1>7, <2>1, LineStable
<1> QED
    BY <1>1, <1>8, <1>9, <1>10 DEF LineInv

\* A commit on top of the head descends from it, and has its name unless the
\* request gives another (edit_repo(), revert_on_server()).
LEMMA LineCommit ==
    ASSUME ~SameSecond, LineInv, NEW p \in Procs, EditRepo(p) \/ RevertOnServer(p)
    PROVE  LineInv'
<1> DEFINE c == req'[p].new
<1>1. Inv /\ LineState /\ LineOK(p) /\ JobInv' /\ Inv'
    BY JobCommit DEF LineInv, JobInv
<1>2. /\ now' = now + 1 /\ now \in Nat /\ pc[p] = "begin"
      /\ req[p].kind \in {"edit", "revert"} /\ branch \in DOMAIN commits /\ branch # None
      /\ branch' = branch /\ published' = published /\ acked' = acked
      /\ uploaded' = uploaded /\ pc'[p] = "cas" /\ Others(p) /\ Kept(req'[p], req[p])
      /\ req'[p].tries = req[p].tries /\ req'[p].name = req[p].name
      /\ req'[p].old = branch /\ req'[p].target = c /\ c \in CommitId /\ c.ctime = now'
    BY <1>1, CommitEffect DEF Tick, RepoOpen, Inv, TypeOK, RefsOK
<1>3. PICK name \in RepoNames :
        /\ commits' = Save(commits, c, MakeBody(commits, c, branch, None, name))
        /\ name = IF req[p].kind = "edit" /\ req[p].name # None
                  THEN req[p].name ELSE NameOf(branch)
    BY <1>1, CommitEffect
<1> HIDE DEF c
<1>4. /\ \A x \in DOMAIN commits : x.ctime \in Nat /\ x.ctime <= now
      /\ StoreOK(commits) /\ Line(commits)
    BY <1>1 DEF LineState, Inv, StoreOK, CommitId
<1>5. c \notin DOMAIN commits /\ branch.ctime < c.ctime
    BY <1>2, <1>4
<1>6. /\ Line(commits') /\ DOMAIN commits' = DOMAIN commits \cup {c}
      /\ \A x \in DOMAIN commits : commits'[x] = commits[x]
      /\ commits'[branch].anc \subseteq commits'[c].anc /\ c \in commits'[c].anc
      /\ commits'[c].rname = name
    <2> DEFINE body == MakeBody(commits, c, branch, None, name)
    <2>1. commits' = Save(commits, c, body)
        BY <1>3
    <2>a. /\ StoreOK(commits) /\ Line(commits) /\ branch \in DOMAIN commits
          /\ c \in CommitId /\ None \in DOMAIN commits \cup {None}
        BY <1>2, <1>4
    <2>2. /\ body \in Body /\ body.parent = branch /\ body.second = None
          /\ body.rname = name
          /\ body.anc = {c} \cup commits[branch].anc \cup Ancestors(commits, None)
        BY <2>a, MakeBodyType
    <2> HIDE DEF body
    <2>b. /\ c \in body.anc /\ commits[branch].anc \subseteq body.anc
          /\ body.parent \in DOMAIN commits /\ body.second \in DOMAIN commits \cup {None}
          /\ body.parent.ctime < c.ctime /\ commits[body.parent].anc \subseteq body.anc
        BY <1>5, <2>a, <2>2
    <2>c. /\ Line(Save(commits, c, body))
          /\ DOMAIN Save(commits, c, body) = DOMAIN commits \cup {c}
          /\ \A x \in DOMAIN commits : Save(commits, c, body)[x] = commits[x]
          /\ Save(commits, c, body)[c] = body
        BY <1>5, <2>a, <2>2, <2>b, SaveStoreOK, ChildAdded
    <2>3. /\ Line(commits') /\ DOMAIN commits' = DOMAIN commits \cup {c}
          /\ \A x \in DOMAIN commits : commits'[x] = commits[x]
          /\ commits'[c] = body
        BY <2>1, <2>c
    <2> QED
        BY <2>a, <2>2, <2>b, <2>3
<1>7. LineState'
    <2>1. \A x \in DOMAIN commits' : x.ctime <= now'
        BY <1>2, <1>4, <1>6
    <2>2. \A x \in uploaded' : commits'[x].rname = commits'[commits'[x].parent].rname
        <3>1. \A x \in uploaded : x \in DOMAIN commits /\ commits[x].parent \in DOMAIN commits
            BY <1>1 DEF Inv, RefsOK, StoreOK
        <3> QED
            BY <1>1, <1>2, <1>6, <3>1 DEF LineState
    <2>3. acked' \subseteq commits'[branch'].anc
        BY <1>1, <1>2, <1>6 DEF LineState
    <2>4. \A x \in published' : x = branch' \/ x.ctime < branch'.ctime
        BY <1>1, <1>2 DEF LineState
    <2> QED
        BY <1>6, <2>1, <2>2, <2>3, <2>4 DEF LineState
<1>8. LineOK(p)'
    <2>1. commits'[branch].rname = NameOf(branch)
        BY <1>2, <1>6 DEF NameOf
    <2>2. req'[p].kind = req[p].kind /\ req'[p].given = req[p].given
        BY <1>2 DEF Kept
    <2>3. RightName(p)'
        <3>1. CASE req[p].kind = "edit" /\ req[p].name # None
            <4>1. name = req[p].name /\ (req[p].given \/ req[p].tries > 0)
                BY <1>1, <1>2, <1>3, <3>1 DEF LineOK
            <4>2. CASE req[p].given
                BY <1>2, <1>6, <2>2, <3>1, <4>1, <4>2 DEF RightName
            <4>3. CASE ~req[p].given
                BY <1>2, <2>2, <3>1, <4>1, <4>3 DEF RightName
            <4> QED
                BY <4>2, <4>3
        <3>2. CASE ~(req[p].kind = "edit" /\ req[p].name # None)
            BY <1>2, <1>3, <1>6, <2>1, <3>2 DEF RightName
        <3> QED
            BY <3>1, <3>2
    <2>4. req[p].kind = "edit" /\ req[p].given => commits'[c].rname = req[p].name
        BY <1>1, <1>2, <1>3, <1>6 DEF LineOK
    <2>5. pc[p] # "idle"
        BY <1>2
    <2> QED
        BY <1>1, <1>2, <1>5, <1>6, <2>2, <2>3, <2>4, <2>5 DEF LineOK, c
<1>9. ASSUME NEW q \in Procs, q # p PROVE LineOK(q)'
    <2>1. pc'[q] = pc[q] /\ req'[q] = req[q] /\ LineOK(q)
        BY <1>2, <1>9 DEF Others, LineInv
    <2> QED
        BY <1>1, <1>2, <1>6, <2>1, LineStable
<1> QED
    BY <1>1, <1>7, <1>8, <1>9 DEF LineInv

\* The compare-and-set moves the head down the line, also when its answer is lost
\* (test_and_update_branch()).
LEMMA LineCas ==
    ASSUME LineInv, NEW p \in Procs,
           CasOk(p) \/ CasMismatch(p) \/ CasRolledBack(p) \/ CasReplyLost(p)
    PROVE  LineInv'
<1>1. Inv /\ LineState /\ LineOK(p) /\ JobInv' /\ ThreadOK(p) /\ req[p] \in Request
    BY JobCas DEF LineInv, JobInv, Inv, TypeOK
<1>2. /\ pc[p] = "cas" /\ Others(p) /\ now' = now
      /\ commits' = commits /\ uploaded' = uploaded /\ acked' = acked
    BY <1>1, CasEffect DEF CasOk, CasMismatch, CasRolledBack, CasReplyLost
<1>3. /\ req[p].old \in DOMAIN commits /\ req[p].target \in DOMAIN commits
      /\ req[p].old \in CommitId /\ req[p].target \in CommitId
      /\ req[p].old.ctime < req[p].target.ctime
      /\ commits[req[p].old].anc \subseteq commits[req[p].target].anc
      /\ req[p].new \in commits[req[p].target].anc
      /\ req[p].target # None
    BY <1>1, <1>2, NoneAssumption DEF LineOK, ThreadOK, Inv, StoreOK
<1>4. \/ branch' = branch /\ published' = published
      \/ /\ branch = req[p].old /\ branch' = req[p].target
         /\ published' = published \cup {req[p].target}
    BY <1>1, CasEffect
<1>5. LineState'
    <2>1. CASE branch' = branch /\ published' = published
        BY <1>1, <1>2, <2>1 DEF LineState
    <2>2. CASE /\ branch = req[p].old /\ branch' = req[p].target
               /\ published' = published \cup {req[p].target}
        <3>1. branch # None
            BY <1>3, <2>2, NoneAssumption
        <3>2. acked' \subseteq commits'[branch'].anc
            BY <1>1, <1>2, <1>3, <2>2, <3>1 DEF LineState
        <3>3. \A c \in published' : c = branch' \/ c.ctime < branch'.ctime
            <4>1. \A c \in published : c.ctime \in Nat
                BY <1>1 DEF Inv, TypeOK, CommitId
            <4>2. branch.ctime \in Nat /\ branch'.ctime \in Nat /\ branch.ctime < branch'.ctime
                BY <1>3, <2>2 DEF CommitId
            <4> QED
                BY <1>1, <2>2, <3>1, <4>1, <4>2 DEF LineState
        <3> QED
            BY <1>1, <1>2, <3>2, <3>3 DEF LineState
    <2> QED
        BY <1>4, <2>1, <2>2
<1>6. \/ branch' = branch
      \/ /\ branch \in DOMAIN commits /\ branch' \in DOMAIN commits
         /\ commits[branch].anc \subseteq commits[branch'].anc
         /\ branch.ctime < branch'.ctime
    BY <1>3, <1>4
<1>7. LineOK(p)'
    <2>1. \/ /\ pc'[p] = "info" /\ req'[p] = req[p] /\ branch' = req[p].target
          \/ pc'[p] = "idle" /\ req'[p] = NoReq
          \/ /\ \/ pc'[p] = "retry" /\ req[p].kind \in {"write", "sync"}
                \/ pc'[p] = "begin" /\ req[p].kind \in {"edit", "revert"}
             /\ SameCommits(req'[p], req[p]) /\ req'[p].given = req[p].given
             /\ req[p].given \/ req[p].kind # "edit" => req'[p].name = req[p].name
        BY <1>1, CasEffect
    <2>2. CASE pc'[p] = "info" /\ req'[p] = req[p] /\ branch' = req[p].target
        BY <1>1, <1>2, <1>3, <2>2 DEF LineOK
    <2>3. CASE pc'[p] = "idle" /\ req'[p] = NoReq
        BY <2>3 DEF LineOK
    <2>4. CASE pc'[p] = "retry" /\ req[p].kind \in {"write", "sync"}
               /\ SameCommits(req'[p], req[p])
        <3>1. req[p].kind = "write" =>
                \/ commits[req[p].new].rname = commits[req[p].base].rname
                \/ branch' # None => req[p].base.ctime < branch'.ctime
            <4>1. ASSUME req[p].kind = "write"
                  PROVE  /\ \/ commits[req[p].new].rname = commits[req[p].base].rname
                            \/ branch # None => req[p].base.ctime < branch.ctime
                         /\ req[p].base.ctime \in Nat
                BY <1>1, <1>2, <4>1 DEF LineOK, ThreadOK, Inv, StoreOK, CommitId
            <4>2. \/ branch' = branch
                  \/ /\ branch # None /\ branch.ctime < branch'.ctime
                     /\ branch.ctime \in Nat /\ branch'.ctime \in Nat
                BY <1>3, <1>4, NoneAssumption DEF CommitId
            <4> QED
                BY <4>1, <4>2
        <3> QED
            BY <1>1, <1>2, <2>4, <3>1 DEF LineOK, SameCommits
    <2>5. CASE /\ pc'[p] = "begin" /\ req[p].kind \in {"edit", "revert"}
               /\ SameCommits(req'[p], req[p]) /\ req'[p].given = req[p].given
               /\ req[p].given \/ req[p].kind # "edit" => req'[p].name = req[p].name
        <3>1. req'[p].tries > 0
            BY <1>1, <2>5 DEF SameCommits, Request
        <3> QED
            BY <1>1, <1>2, <2>5, <3>1 DEF LineOK, SameCommits
    <2> QED
        BY <2>1, <2>2, <2>3, <2>4, <2>5
<1>8. ASSUME NEW q \in Procs, q # p PROVE LineOK(q)'
    <2>1. pc'[q] = pc[q] /\ req'[q] = req[q] /\ LineOK(q)
        BY <1>2, <1>8 DEF Others, LineInv
    <2> QED
        BY <1>1, <1>2, <1>6, <2>1, LineStable
<1> QED
    BY <1>1, <1>5, <1>7, <1>8 DEF LineInv

\* The line is kept by every step, if each commit has a second of its own.
LEMMA LineNext == ASSUME ~SameSecond PROVE LineInv /\ [Next]_vars => LineInv'
<1> SUFFICES ASSUME LineInv, [Next]_vars PROVE LineInv'
    OBVIOUS
<1>0. Inv /\ Published /\ LineState /\ JobInv' /\ (branch # None => branch \in DOMAIN commits)
    BY JobNext DEF LineInv, JobInv, Inv, RefsOK
<1>1. ASSUME NEW p \in Procs, NewRequest(p) PROVE LineInv'
    <2>1. PICK r \in Request : Begin(p, r) /\ Begun(r)
        BY <1>0, <1>1, NewRequestBegins
    <2>2. /\ pc'[p] = "begin" /\ req'[p] = r /\ Others(p) /\ commits' = commits
          /\ branch' = branch /\ published' = published /\ acked' = acked
          /\ uploaded' = uploaded /\ now' = now
        BY <1>0, <2>1, BeginEffect
    <2>3. LineOK(p)'
        BY <1>0, <2>1, <2>2 DEF LineOK, Begun, LineState
    <2>4. ASSUME NEW q \in Procs, q # p PROVE LineOK(q)'
        BY <1>0, <2>2, <2>4, LineStable DEF Others, LineInv
    <2> QED
        BY <1>0, <2>2, <2>3, <2>4 DEF LineInv, LineState
<1>2. ASSUME NEW p \in Procs, UpdateRepoInfo(p) \/ Abort(p) PROVE LineInv'
    <2>1. /\ Others(p) /\ commits' = commits /\ branch' = branch /\ uploaded' = uploaded
          /\ published' = published /\ now' = now
          /\ \/ pc[p] = "info" /\ pc'[p] = "info2" /\ req'[p] = req[p]
             \/ pc'[p] = "idle" /\ req'[p] = NoReq
          /\ \/ acked' = acked
             \/ pc[p] \in {"info", "info2"} /\ acked' = acked \cup {req[p].new}
        BY <1>0, <1>2, EndEffect
    <2>2. LineState'
        BY <1>0, <2>1 DEF LineState, LineInv, LineOK
    <2>3. LineOK(p)'
        BY <2>1 DEF LineInv, LineOK
    <2>4. ASSUME NEW q \in Procs, q # p PROVE LineOK(q)'
        BY <1>0, <2>1, <2>4, LineStable DEF Others, LineInv
    <2> QED
        BY <1>0, <2>2, <2>3, <2>4 DEF LineInv
<1>3. ASSUME NEW p \in Procs, Run(p) PROVE LineInv'
    BY <1>2, <1>3, LineAttempt, LineCommit, LineCas DEF Run
<1>4. CASE ClientCommit
    <2>1. PICK c \in CommitId, b \in published :
            /\ c.ctime = now' /\ uploaded' = uploaded \cup {c}
            /\ commits' = Save(commits, c, MakeBody(commits, c, b, None, NameOf(b)))
        BY <1>0, <1>4, PutEffect
    <2>2. /\ Tick /\ pc' = pc /\ req' = req /\ branch' = branch
          /\ published' = published /\ acked' = acked
        BY <1>0, <1>4, PutEffect
    <2>3. now' = now + 1 /\ now \in Nat
        BY <1>0, <2>2 DEF Tick, Inv, TypeOK
    <2>4. /\ \A x \in DOMAIN commits : x.ctime \in Nat /\ x.ctime <= now
          /\ StoreOK(commits) /\ Line(commits) /\ b \in DOMAIN commits
          /\ NameOf(b) \in RepoNames /\ None \in DOMAIN commits \cup {None}
        BY <1>0 DEF LineState, Inv, RefsOK, StoreOK, CommitId, Body, NameOf
    <2>5. c \notin DOMAIN commits /\ b.ctime < c.ctime
        BY <2>1, <2>3, <2>4
    <2> DEFINE body == MakeBody(commits, c, b, None, NameOf(b))
    <2>6. commits' = Save(commits, c, body)
        BY <2>1
    <2>7. /\ body \in Body /\ body.parent = b /\ body.second = None
          /\ body.rname = NameOf(b)
          /\ body.anc = {c} \cup commits[b].anc \cup Ancestors(commits, None)
        <3>1. /\ StoreOK(commits) /\ b \in DOMAIN commits /\ NameOf(b) \in RepoNames
              /\ None \in DOMAIN commits \cup {None}
            BY <2>4
        <3> QED
            BY <3>1, MakeBodyType
    <2> HIDE DEF body
    <2>8. /\ c \in body.anc /\ commits[b].anc \subseteq body.anc
          /\ body.parent \in DOMAIN commits /\ body.second \in DOMAIN commits \cup {None}
          /\ body.parent.ctime < c.ctime /\ commits[body.parent].anc \subseteq body.anc
        BY <2>4, <2>5, <2>7
    <2>9. /\ Line(Save(commits, c, body))
          /\ DOMAIN Save(commits, c, body) = DOMAIN commits \cup {c}
          /\ \A x \in DOMAIN commits : Save(commits, c, body)[x] = commits[x]
          /\ Save(commits, c, body)[c] = body
        BY <2>4, <2>5, <2>7, <2>8, SaveStoreOK, ChildAdded
    <2>10. /\ Line(commits') /\ DOMAIN commits' = DOMAIN commits \cup {c}
           /\ \A x \in DOMAIN commits : commits'[x] = commits[x]
           /\ commits'[c] = body
        BY <2>6, <2>9
    <2>11. LineState'
        <3>1. \A x \in DOMAIN commits' : x.ctime <= now'
            BY <2>1, <2>3, <2>4, <2>10
        <3>2. ASSUME NEW x \in uploaded'
              PROVE  commits'[x].rname = commits'[commits'[x].parent].rname
            <4>1. CASE x = c
                BY <2>4, <2>7, <2>10, <4>1 DEF NameOf
            <4>2. CASE x \in uploaded
                <5>1. x \in DOMAIN commits /\ commits[x].parent \in DOMAIN commits
                    BY <1>0, <4>2 DEF Inv, RefsOK, StoreOK
                <5> QED
                    BY <1>0, <2>10, <4>2, <5>1 DEF LineState
            <4> QED
                BY <2>1, <3>2, <4>1, <4>2
        <3>3. branch' # None =>
                /\ acked' \subseteq commits'[branch'].anc
                /\ \A x \in published' : x = branch' \/ x.ctime < branch'.ctime
            BY <1>0, <2>2, <2>10 DEF LineState
        <3> QED
            BY <2>10, <3>1, <3>2, <3>3 DEF LineState
    <2>12. ASSUME NEW q \in Procs PROVE LineOK(q)'
        BY <1>0, <2>2, <2>10, LineStable DEF LineInv
    <2> QED
        BY <1>0, <2>11, <2>12 DEF LineInv
<1>5. CASE Crash \/ DelRepoRow \/ DelBranch
    <2>1. /\ commits' = commits /\ uploaded' = uploaded /\ published' = published
          /\ acked' = acked /\ now' = now /\ branch' \in {branch, None}
          /\ \/ pc' = pc /\ req' = req
             \/ \A p \in Procs : pc'[p] = "idle" /\ req'[p] = NoReq
        BY <1>0, <1>5, OutsideEffect
    <2>2. LineState'
        BY <1>0, <2>1 DEF LineState
    <2>3. ASSUME NEW q \in Procs PROVE LineOK(q)'
        <3>1. CASE pc' = pc /\ req' = req
            BY <1>0, <2>1, <3>1, LineStable DEF LineInv
        <3>2. CASE pc'[q] = "idle" /\ req'[q] = NoReq
            BY <3>2 DEF LineOK
        <3> QED
            BY <2>1, <3>1, <3>2
    <2> QED
        BY <1>0, <2>2, <2>3 DEF LineInv
<1>6. CASE UNCHANGED vars
    <2>1. ASSUME NEW q \in Procs PROVE LineOK(q)'
        BY <1>0, <1>6, LineStable DEF LineInv, vars
    <2> QED
        BY <1>0, <1>6, <2>1 DEF vars, LineInv, LineState
<1> QED
    BY <1>1, <1>3, <1>4, <1>5, <1>6 DEF Next

\* Each commit has a second of its own, so the line is kept for ever.
LEMMA SpecLine == ASSUME ~SameSecond PROVE Spec => []LineInv
BY LineInit, LineNext, PTL DEF Spec

\* What was answered with success stays in the history of the head, if no two
\* commits are made in one second: no compare-and-set of another request, no retry,
\* crash or lost answer of the database drops it (gen_new_commit(),
\* fast_forward_or_merge(), test_and_update_branch()).
THEOREM NoUpdateIsLost == ASSUME ~SameSecond PROVE Spec => []NoLostUpdate
<1>1. LineInv => NoLostUpdate
    BY DEF LineInv, LineState, NoLostUpdate
<1> QED
    BY <1>1, SpecLine, PTL

\* A rename that is answered with success is in the commit that became the head, if
\* no two commits are made in one second (seaf_repo_manager_edit_repo()).
THEOREM RenamesAreApplied == ASSUME ~SameSecond PROVE Spec => []RenameApplied
<1>1. LineInv => RenameApplied
    BY DEF LineInv, LineOK, RenameApplied
<1> QED
    BY <1>1, SpecLine, PTL

\* Uploads, merges, roll-backs and edits of the description keep the name of the
\* library, a description's retry apart, if no two commits are made in one second
\* (the commits' repo_name: gen_new_commit(), revert_on_server(), edit_repo()).
THEOREM NamesAreKept == ASSUME ~SameSecond PROVE Spec => NameKept
<1>1. ASSUME LineInv, [Next]_vars, branch # None, branch' # None, branch' # branch
      PROVE  \/ commits'[branch'].rname = commits[branch].rname
             \/ \E p \in Procs :
                  /\ req[p].kind = "edit"
                  /\ IF req[p].given THEN req[p].name = commits'[branch'].rname
                     ELSE req[p].tries > 0
    <2>1. Inv /\ Published
        BY <1>1 DEF LineInv, JobInv
    <2>2. PICK p \in Procs : CasOk(p) \/ CasReplyLost(p)
        <3>1. ASSUME NEW p \in Procs, NewRequest(p) PROVE FALSE
            BY <1>1, <2>1, <3>1, NewRequestBegins, BeginEffect
        <3>2. ASSUME NEW p \in Procs, Run(p) PROVE CasOk(p) \/ CasReplyLost(p)
            BY <1>1, <2>1, <3>2, AttemptEffect, CommitEffect, CasEffect, EndEffect
               DEF Run, CasMismatch, CasRolledBack, db
        <3>3. ~ClientCommit /\ ~(Crash \/ DelRepoRow \/ DelBranch) /\ ~UNCHANGED vars
            BY <1>1, <2>1, PutEffect, OutsideEffect DEF vars
        <3> QED
            BY <1>1, <3>1, <3>2, <3>3 DEF Next
    <2>3. /\ pc[p] = "cas" /\ commits' = commits
          /\ branch = req[p].old /\ branch' = req[p].target
        BY <2>1, <2>2, CasEffect DEF CasOk, CasReplyLost, SetHead
    <2>4. RightName(p)
        BY <1>1, <2>3 DEF LineInv, LineOK
    <2> QED
        BY <2>3, <2>4 DEF RightName
<1>2. LineInv /\ [Next]_vars =>
        [branch # None /\ branch' # None /\ branch' # branch =>
           \/ commits'[branch'].rname = commits[branch].rname
           \/ \E p \in Procs :
                /\ req[p].kind = "edit"
                /\ IF req[p].given THEN req[p].name = commits'[branch'].rname
                   ELSE req[p].tries > 0]_vars
    BY <1>1
<1> QED
    BY <1>2, SpecLine, PTL DEF Spec, NameKept
=============================================================================
