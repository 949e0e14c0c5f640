---------------------------- MODULE BranchUpdate ----------------------------
(***************************************************************************)
(* How the head of a library moves.  Every change of a library - a file     *)
(* operation of the web API (gen_new_commit), the upload of a sync client   *)
(* (fast_forward_or_merge), a rename of the library (edit_repo), a          *)
(* roll-back (revert_on_server) - reads the head, makes one or two commit   *)
(* objects, and moves the branch by compare-and-set                         *)
(* (test_and_update_branch).  A loser of the race loads the repo again,     *)
(* merges and retries.  The requests run in threads of one server process.  *)
(*                                                                          *)
(* The id of a commit is the hash of its root, creator, description and     *)
(* ctime (seconds); its parents and the library name are in the object but  *)
(* not in the hash.  So an id is a record of the hashed fields, and commits *)
(* maps the ids of stored objects to the fields that are not hashed.        *)
(***************************************************************************)
EXTENDS DirOps, Integers

CONSTANTS
    Procs,        \* threads that serve requests
    RepoNames,    \* names a library may have
    Users,
    None,         \* no commit, no name (NULL)
    InitTree,     \* files of the first commit
    InitName,     \* name of the library in the first commit
    Kinds,        \* the requests that a model allows
    SameSecond,   \* may two commits be made within one second?
    MaxRetry,     \* MAX_RETRY_COUNT, 3 in the code
    MaxOps,       \* bound: number of requests
    MaxTime,      \* bound: seconds that pass
    MaxFaults     \* bound: database errors, I/O errors, crashes

ASSUME ConstantsAssumption ==
    /\ None \notin RepoNames /\ None \notin Users /\ Users # {}
    /\ InitTree \in SUBSET Dirent /\ InitName \in RepoNames
    /\ SameSecond \in BOOLEAN
    /\ MaxRetry \in Nat /\ MaxOps \in Nat /\ MaxTime \in Nat /\ MaxFaults \in Nat

VARIABLES
    repoRow,    \* the library has a row in table Repo
    branch,     \* table Branch: the id of the head commit, or None
    commits,    \* the commit store
    uploaded,   \* commits that sync clients stored (put_commit_cb)
    repoInfo,   \* table RepoInfo: the name shown in listings
    now,        \* the clock, in seconds
    pc, req,    \* where each thread is, and its local variables
    ops, faults,\* requests and faults so far
    \* The rest is history, only read by the properties:
    published,  \* commits that have been the head
    acked,      \* commits whose request was answered with success
    updates     \* number of changes of the Branch row

store   == <<commits, uploaded>>
db      == <<repoRow, branch, repoInfo>>
history == <<published, acked, updates>>
vars    == <<repoRow, branch, commits, uploaded, repoInfo, now, pc, req, ops,
             faults, published, acked, updates>>

----------------------------------------------------------------------------
\* Commit objects

\* The description: the code's texts, with what they mention.  A merge
\* without conflict is always "Auto merge by system"; the text of a merge
\* with conflicts lists differences of the merged roots.
Desc ==
    [op : {"created", "edited", "merged"}]
    \cup [op : {"added", "modified", "deleted", "renamed"}, name : Names]
    \cup [op : {"reverted"}, ctime : Nat]
    \cup [op : {"merged"}, head : SUBSET Dirent, remote : SUBSET Dirent]

\* compute_commit_id()
CommitId == [root : SUBSET Dirent, creator : Users, desc : Desc, ctime : Nat]

ASSUME NoneAssumption == None \notin CommitId

\* What is stored under an id besides the hashed fields.  anc is history: the
\* commit and everything reachable from it through parents.
Body == [parent : CommitId \cup {None}, second : CommitId \cup {None},
         rname : RepoNames, anc : SUBSET CommitId]

Ancestors(cs, c) == IF c = None THEN {} ELSE cs[c].anc

MakeBody(cs, c, parent, second, rname) ==
    [parent |-> parent, second |-> second, rname |-> rname,
     anc |-> {c} \cup Ancestors(cs, parent) \cup Ancestors(cs, second)]

\* A store that loses objects, against HistoryClosed
SaveNothing(cs, c, body) == cs

\* save_commit(): an object that exists is not written again.
Save(cs, c, body) ==
    IF c \in DOMAIN cs THEN cs
    ELSE [x \in DOMAIN cs \cup {c} |-> IF x = c THEN body ELSE cs[x]]

NameOf(c) == commits[c].rname

\* time(NULL) in seaf_commit_new()
Tick ==
    /\ now' \in {now, now + 1} /\ now' <= MaxTime
    /\ SameSecond \/ now' = now + 1

\* get_repo_from_db() joins Repo and Branch: get_repo() finds the library.
RepoOpen == repoRow /\ branch # None

----------------------------------------------------------------------------
\* Requests

NoReq ==
    [kind |-> "none", user |-> None, base |-> None, root |-> {},
     desc |-> [op |-> "edited"], name |-> None, given |-> FALSE, new |-> None,
     old |-> None, target |-> None, tries |-> 0, since |-> 0, at |-> 0]

Request == [kind : {"none", "write", "sync", "edit", "revert"},
            user : Users \cup {None}, base : CommitId \cup {None},
            root : SUBSET Dirent, desc : Desc,
            name : RepoNames \cup {None}, given : BOOLEAN,
            new : CommitId \cup {None}, old : CommitId \cup {None},
            target : CommitId \cup {None}, tries : Nat, since : Nat, at : Nat]

Begin(p, r) ==
    /\ pc[p] = "idle" /\ ops < MaxOps
    /\ ops' = ops + 1
    /\ pc' = [pc EXCEPT ![p] = "begin"]
    /\ req' = [req EXCEPT ![p] = r]
    /\ UNCHANGED <<store, db, now, faults, history>>

\* A file operation: reads the head (put_file: the commit its client names,
\* if it does), builds a new root; gen_new_commit() then looks up the repo
\* again.
BeginWrite(p, u, b, root, op, n) ==
    /\ RepoOpen
    /\ Begin(p, [NoReq EXCEPT !.kind = "write", !.user = u, !.base = b,
                              !.root = root, !.desc = [op |-> op, name |-> n],
                              !.since = updates])

\* seaf_repo_manager_post_file()
BeginPost(p, u, n, id) ==
    /\ "post" \in Kinds
    /\ branch # None
    /\ \E i \in 0..LastSuffix :
         /\ FirstFree(branch.root, n, i)
         /\ BeginWrite(p, u, branch, PostFile(branch.root, n, i, id), "added", n)

\* seaf_repo_manager_put_file(): no commit if the content is the same
BeginPut(p, u, n, id, b) ==
    /\ "put" \in Kinds
    /\ Exists(b.root, PlainName(n))
    /\ [name |-> PlainName(n), id |-> id] \notin b.root
    /\ BeginWrite(p, u, b, PutFile(b.root, n, id), "modified", n)

\* seaf_repo_manager_del_file(): no commit if nothing was deleted
BeginDel(p, u, n) ==
    /\ "del" \in Kinds
    /\ branch # None
    /\ Exists(branch.root, PlainName(n))
    /\ BeginWrite(p, u, branch, DelFile(branch.root, n), "deleted", n)

\* seaf_repo_manager_rename_file()
BeginRename(p, u, n, m) ==
    /\ "rename" \in Kinds
    /\ branch # None
    /\ Exists(branch.root, PlainName(n)) /\ ~Exists(branch.root, PlainName(m))
    /\ BeginWrite(p, u, branch, RenameFile(branch.root, n, m), "renamed", n)

\* put_commit_cb(): a sync client stores the commit it made on top of a
\* commit it had downloaded.  The server checks neither.
PutCommit(u, b, root, op, n) ==
    /\ "sync" \in Kinds
    /\ RepoOpen /\ ops < MaxOps
    /\ ops' = ops + 1
    /\ Tick
    /\ LET c == [root |-> root, creator |-> u, desc |-> [op |-> op, name |-> n],
                 ctime |-> now']
       IN  /\ commits' = Save(commits, c,
                              MakeBody(commits, c, b, None, NameOf(b)))
           /\ uploaded' = uploaded \cup {c}
    /\ UNCHANGED <<db, pc, req, faults, history>>

\* put_update_branch_cb(): the client asks for its commit to become the head,
\* perhaps not for the first time.  The base is the parent of the commit.
BeginSync(p, c) ==
    /\ RepoOpen
    /\ Begin(p, [NoReq EXCEPT !.kind = "sync", !.user = c.creator,
                              !.base = commits[c].parent, !.root = c.root,
                              !.desc = c.desc, !.new = c, !.since = updates])

\* seaf_repo_manager_edit_repo(); name is None when only the description of
\* the library is given.
BeginEdit(p, u, name) ==
    /\ (IF name = None THEN "describe" ELSE "edit") \in Kinds
    /\ Begin(p, [NoReq EXCEPT !.kind = "edit", !.user = u, !.name = name,
                              !.given = (name # None), !.since = updates])

\* seaf_repo_manager_revert_on_server()
BeginRevert(p, u, c) ==
    /\ "revert" \in Kinds
    /\ Begin(p, [NoReq EXCEPT !.kind = "revert", !.user = u, !.base = c,
                              !.root = c.root, !.since = updates,
                              !.desc = [op |-> "reverted", ctime |-> c.ctime]])

----------------------------------------------------------------------------
\* The attempt to move the head

MergeDesc(b, h, n) ==
    IF \E e \in n.root \ b.root : Conflicting(b.root, h.root, e)
    THEN [op |-> "merged", head |-> h.root, remote |-> n.root]
    ELSE [op |-> "merged"]

\* A merge that takes the base for the head, against AtomicSpec
MergedCommitOnBase(b, h, n, u, t) ==
    [root |-> MergeFiles(b.root, b.root, n.root), creator |-> u,
     desc |-> MergeDesc(b, h, n), ctime |-> t]

MergedCommit(b, h, n, u, t) ==
    [root |-> MergeFiles(b.root, h.root, n.root), creator |-> u,
     desc |-> MergeDesc(b, h, n), ctime |-> t]

\* From the label retry of gen_new_commit() and fast_forward_or_merge(): a
\* fast forward if the base is still the head, else a merge commit whose
\* parents are the head and the new commit n.  cs is the commit store with n.
Attempt(p, cs, n) ==
    LET b == req[p].base
        m == MergedCommit(b, branch, n, req[p].user, now')
    IN  /\ commits' = IF b = branch THEN cs
                      ELSE Save(cs, m, MakeBody(cs, m, branch, n, NameOf(branch)))
        /\ req' = [req EXCEPT ![p] =
                      [@ EXCEPT !.new = n, !.old = branch, !.at = updates,
                                !.target = IF b = branch THEN n ELSE m]]
        /\ pc' = [pc EXCEPT ![p] = "cas"]
        /\ UNCHANGED <<db, uploaded, ops, faults, history>>

\* gen_new_commit() up to the compare-and-set.  The commit gets the name the
\* library has now, and the base as parent.
GenNewCommit(p) ==
    /\ pc[p] = "begin" /\ req[p].kind = "write"
    /\ RepoOpen
    /\ Tick
    /\ LET n == [root |-> req[p].root, creator |-> req[p].user,
                 desc |-> req[p].desc, ctime |-> now']
       IN  Attempt(p, Save(commits, n, MakeBody(commits, n, req[p].base, None,
                                                NameOf(branch))), n)

\* fast_forward_or_merge() up to the compare-and-set
FastForwardOrMerge(p) ==
    /\ pc[p] = "begin" /\ req[p].kind = "sync"
    /\ RepoOpen
    /\ Tick
    /\ Attempt(p, commits, req[p].new)

\* A retry with the head of the first attempt, against RetryMeansProgress
RetryStale(p) ==
    /\ pc[p] = "retry"
    /\ RepoOpen
    /\ pc' = [pc EXCEPT ![p] = "cas"]
    /\ UNCHANGED <<store, db, now, req, ops, faults, history>>

\* the retry of either: the repo is loaded again, the new commit is kept
Retry(p) ==
    /\ pc[p] = "retry"
    /\ RepoOpen
    /\ Tick
    /\ Attempt(p, commits, req[p].new)

\* edit_repo() and revert_on_server() up to the compare-and-set: a commit c on
\* top of the head that was just loaded
Commit(p, c, name) ==
    /\ commits' = Save(commits, c, MakeBody(commits, c, branch, None, name))
    /\ req' = [req EXCEPT ![p] =
                  [@ EXCEPT !.new = c, !.old = branch, !.at = updates,
                            !.target = c]]
    /\ pc' = [pc EXCEPT ![p] = "cas"]
    /\ UNCHANGED <<db, uploaded, ops, faults, history>>

\* A rename that the name in the loaded repo overwrites, against RenameApplied
EditRepoOverwritten(p) ==
    /\ pc[p] = "begin" /\ req[p].kind = "edit"
    /\ RepoOpen
    /\ Tick
    /\ Commit(p, [root |-> branch.root, creator |-> req[p].user,
                  desc |-> [op |-> "edited"], ctime |-> now'], NameOf(branch))

\* seaf_repo_manager_edit_repo() from the label retry
EditRepo(p) ==
    /\ pc[p] = "begin" /\ req[p].kind = "edit"
    /\ RepoOpen
    /\ Tick
    /\ Commit(p, [root |-> branch.root, creator |-> req[p].user,
                  desc |-> [op |-> "edited"], ctime |-> now'],
              IF req[p].name = None THEN NameOf(branch) ELSE req[p].name)

\* A roll-back that takes the old name along, against NameKept
RevertOnServerOldName(p) ==
    /\ pc[p] = "begin" /\ req[p].kind = "revert"
    /\ RepoOpen
    /\ Tick
    /\ Commit(p, [root |-> req[p].root, creator |-> req[p].user,
                  desc |-> req[p].desc, ctime |-> now'],
              NameOf(req[p].base))

\* seaf_repo_manager_revert_on_server() from the label retry
RevertOnServer(p) ==
    /\ pc[p] = "begin" /\ req[p].kind = "revert"
    /\ RepoOpen
    /\ Tick
    /\ Commit(p, [root |-> req[p].root, creator |-> req[p].user,
                  desc |-> req[p].desc, ctime |-> now'],
              NameOf(branch))

----------------------------------------------------------------------------
\* The compare-and-set

SetHead(c) ==
    /\ branch' = c
    /\ updates' = updates + 1
    /\ published' = published \cup {c}

\* Without the comparison, against NoLostUpdate
CasOkUnchecked(p) ==
    /\ pc[p] = "cas"
    /\ SetHead(req[p].target)
    /\ pc' = [pc EXCEPT ![p] = "info"]
    /\ UNCHANGED <<store, repoRow, repoInfo, now, req, ops, faults, acked>>

\* test_and_update_branch() succeeds
CasOk(p) ==
    /\ pc[p] = "cas"
    /\ branch = req[p].old
    /\ SetHead(req[p].target)
    /\ pc' = [pc EXCEPT ![p] = "info"]
    /\ UNCHANGED <<store, repoRow, repoInfo, now, req, ops, faults, acked>>

Again(r, name) == [r EXCEPT !.tries = @ + 1, !.name = name]

\* What the caller does when test_and_update_branch() returns -1.  edit_repo()
\* and revert_on_server() start again.  edit_repo() keeps a name it borrowed
\* from the repo structure that it has just freed: that memory may hold any
\* name by now.
CasReturnsError(p) ==
    LET r == req[p] IN
    \/ /\ r.kind \in {"write", "sync"} /\ r.tries < MaxRetry
       /\ pc' = [pc EXCEPT ![p] = "retry"]
       /\ req' = [req EXCEPT ![p] = Again(@, r.name)]
    \/ /\ r.kind \in {"write", "sync"} /\ r.tries >= MaxRetry
       /\ pc' = [pc EXCEPT ![p] = "idle"]
       /\ req' = [req EXCEPT ![p] = NoReq]
    \/ /\ r.kind \in {"edit", "revert"}
       /\ pc' = [pc EXCEPT ![p] = "begin"]
       /\ \E name \in IF r.kind = "edit" /\ ~r.given THEN RepoNames ELSE {r.name} :
            req' = [req EXCEPT ![p] = Again(@, name)]

\* the head is another one, or there is none any more
CasMismatch(p) ==
    /\ pc[p] = "cas"
    /\ branch # req[p].old
    /\ CasReturnsError(p)
    /\ UNCHANGED <<store, db, now, ops, faults, history>>

Fault ==
    /\ faults < MaxFaults
    /\ faults' = faults + 1

\* a database error rolls the transaction back ...
CasRolledBack(p) ==
    /\ pc[p] = "cas"
    /\ Fault
    /\ CasReturnsError(p)
    /\ UNCHANGED <<store, db, now, ops, history>>

\* ... or the connection breaks after the commit took effect: the caller gets
\* -1 all the same.
CasReplyLost(p) ==
    /\ pc[p] = "cas"
    /\ branch = req[p].old
    /\ Fault
    /\ SetHead(req[p].target)
    /\ CasReturnsError(p)
    /\ UNCHANGED <<store, repoRow, repoInfo, now, ops, acked>>

\* on_branch_updated(): outside the transaction, copies the library name of
\* the new head to RepoInfo.  edit_repo() then does it once more.  Then the
\* request is answered.
UpdateRepoInfo(p) ==
    /\ pc[p] \in {"info", "info2"}
    /\ repoInfo' = NameOf(req[p].target)
    /\ IF req[p].kind = "edit" /\ pc[p] = "info"
       THEN /\ pc' = [pc EXCEPT ![p] = "info2"]
            /\ UNCHANGED <<req, acked>>
       ELSE /\ pc' = [pc EXCEPT ![p] = "idle"]
            /\ req' = [req EXCEPT ![p] = NoReq]
            /\ acked' = acked \cup {req[p].new}
    /\ UNCHANGED <<store, repoRow, branch, now, ops, faults, published, updates>>

\* A request that waits for a library that is gone, against Answered
AbortOnFault(p) ==
    /\ pc[p] \in {"begin", "retry"}
    /\ RepoOpen /\ Fault
    /\ pc' = [pc EXCEPT ![p] = "idle"]
    /\ req' = [req EXCEPT ![p] = NoReq]
    /\ UNCHANGED <<store, db, now, ops, history>>

\* get_repo() finds no library, or an object cannot be read or written
Abort(p) ==
    /\ pc[p] \in {"begin", "retry"}
    /\ IF RepoOpen THEN Fault ELSE UNCHANGED faults
    /\ pc' = [pc EXCEPT ![p] = "idle"]
    /\ req' = [req EXCEPT ![p] = NoReq]
    /\ UNCHANGED <<store, db, now, ops, history>>

\* The server process stops: the database and the objects stay.
Crash ==
    /\ Fault
    /\ pc' = [p \in Procs |-> "idle"]
    /\ req' = [p \in Procs |-> NoReq]
    /\ UNCHANGED <<store, db, now, ops, history>>

\* seaf_repo_manager_del_repo() removes the row of Repo, then that of Branch.
DelRepoRow ==
    /\ "delete" \in Kinds
    /\ repoRow
    /\ repoRow' = FALSE
    /\ UNCHANGED <<store, branch, repoInfo, now, pc, req, ops, faults, history>>

DelBranch ==
    /\ ~repoRow /\ branch # None
    /\ branch' = None
    /\ updates' = updates + 1
    /\ UNCHANGED <<store, repoRow, repoInfo, now, pc, req, ops, faults,
                   published, acked>>

----------------------------------------------------------------------------
\* The first commit: of an empty library (create_repo_common()), or of one made
\* from a directory of another (do_create_virtual_repo()), then InitTree is the
\* tree of the directory.
InitCommit == [root |-> InitTree, creator |-> CHOOSE u \in Users : TRUE,
               desc |-> [op |-> "created"], ctime |-> 0]

Init ==
    /\ repoRow = TRUE /\ branch = InitCommit
    /\ commits = [c \in {InitCommit} |->
                    [parent |-> None, second |-> None, rname |-> InitName,
                     anc |-> {InitCommit}]]
    /\ uploaded = {} /\ repoInfo = InitName /\ now = 0
    /\ pc = [p \in Procs |-> "idle"] /\ req = [p \in Procs |-> NoReq]
    /\ ops = 0 /\ faults = 0
    /\ published = {InitCommit} /\ acked = {} /\ updates = 0

NewRequest(p) ==
    \/ \E u \in Users :
        \/ \E n \in Names, id \in FileIds :
            \/ BeginPost(p, u, n, id)
            \/ \E b \in published : BeginPut(p, u, n, id, b)
        \/ \E n \in Names : BeginDel(p, u, n)
        \/ \E n, m \in Names : BeginRename(p, u, n, m)
        \/ \E name \in RepoNames \cup {None} : BeginEdit(p, u, name)
        \/ \E c \in published : BeginRevert(p, u, c)
    \/ \E c \in uploaded : BeginSync(p, c)

\* what a sync client may have done in its working tree
ClientCommit ==
    \E u \in Users, b \in published, n \in Names :
        \/ \E id \in FileIds :
            /\ [name |-> PlainName(n), id |-> id] \notin b.root
            /\ PutCommit(u, b, PutFile(b.root, n, id),
                         IF Exists(b.root, PlainName(n)) THEN "modified"
                         ELSE "added", n)
        \/ /\ Exists(b.root, PlainName(n))
           /\ PutCommit(u, b, DelFile(b.root, n), "deleted", n)

\* the steps of a request once it runs
Run(p) ==
    \/ GenNewCommit(p) \/ FastForwardOrMerge(p) \/ Retry(p)
    \/ EditRepo(p) \/ RevertOnServer(p)
    \/ CasOk(p) \/ CasMismatch(p) \/ CasRolledBack(p) \/ CasReplyLost(p)
    \/ UpdateRepoInfo(p) \/ Abort(p)

Next ==
    \/ \E p \in Procs : NewRequest(p) \/ Run(p)
    \/ ClientCommit \/ Crash \/ DelRepoRow \/ DelBranch

Spec == Init /\ [][Next]_vars

\* A thread that serves a request is never stopped for ever: no step of it
\* waits for anything but the database.
FairSpec == Spec /\ \A p \in Procs : WF_vars(Run(p))

----------------------------------------------------------------------------
\* Properties

\* The types of the variables.
TypeOK ==
    /\ repoRow \in BOOLEAN
    /\ branch \in CommitId \cup {None}
    /\ DOMAIN commits \subseteq CommitId
    /\ \A c \in DOMAIN commits : commits[c] \in Body
    /\ uploaded \subseteq CommitId /\ published \subseteq CommitId
    /\ acked \subseteq CommitId
    /\ repoInfo \in RepoNames
    /\ now \in Nat /\ ops \in Nat /\ faults \in Nat /\ updates \in Nat
    /\ pc \in [Procs -> {"idle", "begin", "cas", "retry", "info", "info2"}]
    /\ req \in [Procs -> Request]

\* A reader that follows the head finds every commit it needs: the head and
\* all commits reachable from it are in the store, at any time, crashes
\* included.  (The code stores objects before it moves the branch.)
HistoryClosed ==
    /\ branch # None => branch \in DOMAIN commits
    /\ \A c \in DOMAIN commits : \A d \in {commits[c].parent, commits[c].second} :
         d # None => d \in DOMAIN commits

\* No lost update: whatever was answered with success stays in the history of
\* the head while there is a head.  (test_and_update_branch() and the parents
\* that gen_new_commit() and fast_forward_or_merge() choose.)
NoLostUpdate == branch # None => acked \subseteq commits[branch].anc

\* When the update of thread p goes in, no file is lost on either side.  A
\* dirent the head has and the base of the request has not is still there;
\* what the request adds or changes is there, if need be under the name of a
\* conflict; and what the request removed is gone, unless the head changed it or
\* a conflict makes the very dirent again.
NoFileLost ==
    [][\A p \in Procs :
         CasOk(p) /\ branch # None /\ req[p].kind \in {"write", "sync"} =>
           LET b == req[p].base.root
               r == req[p].root
           IN  /\ branch.root \ b \subseteq branch'.root
               /\ \A e \in r \ b : \/ e \in branch'.root
                                   \/ ConflictCopy(e) \in branch'.root
               /\ \A e \in (b \ r) \cap branch'.root : \E x \in r \ b :
                     Conflicting(b, branch.root, x) /\ e = ConflictCopy(x)]_vars

\* The name of a library only changes to one that a request to rename it gave:
\* uploads, merges, roll-backs and edits of the description keep the name. The
\* one exception is an edit of the description that is tried again: it writes a
\* name that it has freed (edit_repo).
NameKept ==
    [][branch # None /\ branch' # None /\ branch' # branch =>
         \/ commits'[branch'].rname = commits[branch].rname
         \/ \E p \in Procs :
              /\ req[p].kind = "edit"
              /\ IF req[p].given THEN req[p].name = commits'[branch'].rname
                 ELSE req[p].tries > 0]_vars

\* A rename that is about to be answered with success is in the commit that
\* became the head.
RenameApplied ==
    \A p \in Procs :
        pc[p] \in {"info", "info2"} /\ req[p].kind = "edit" /\ req[p].given =>
            commits[req[p].target].rname = req[p].name

\* Retries are never wasted: unless the database fails, each failed attempt of
\* a request is due to another change of the Branch row since it began.  So
\* "Concurrent update" is only answered after MaxRetry + 1 such changes, and
\* some request always gets through.
RetryMeansProgress ==
    faults = 0 =>
        \A p \in Procs :
            /\ req[p].tries <= updates - req[p].since
            /\ pc[p] = "cas" /\ branch # req[p].old =>
                   req[p].tries < updates - req[p].since

\* Every request is answered in the end: the retry loops end, also when the
\* library is deleted under them.
Answered == \A p \in Procs : pc[p] # "idle" ~> pc[p] = "idle"
----------------------------------------------------------------------------
\* The atomic specification that this one implements.

JobOf(p) ==
    LET r == req[p] IN
    IF pc[p] \notin {"begin", "cas", "retry"} THEN [op |-> "none", base |-> {}, tree |-> {}]
    ELSE [op   |-> CASE r.kind = "edit"   -> "keep"
                     [] r.kind = "revert" -> "revert"
                     [] OTHER             -> "write",
          base |-> IF r.base = None THEN {} ELSE r.base.root,
          tree |-> r.root]

Atomic == INSTANCE AtomicBranch WITH
    live <- branch # None,
    tree <- IF branch = None THEN {} ELSE branch.root,
    seen <- {c.root : c \in published},
    job  <- [p \in Procs |-> JobOf(p)]

\* The library behaves as if each request took effect in one step on the tree
\* it has at that moment: a merge against a head that has moved on, a second
\* application of a request, a tree that nobody proposed do not occur.
AtomicSpec == Atomic!Spec
=============================================================================
