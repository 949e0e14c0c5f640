----------------------------- MODULE SyncAccess -----------------------------
(***************************************************************************)
(* How the server decides on a request of a sync client of a library: it      *)
(* looks the token up in a cache and in RepoUserToken, and the permission of  *)
(* the token's user in a second cache and in the tables of the module         *)
(* Sharing (server/http-server.c). Requests run on several threads; a user    *)
(* unlinks devices meanwhile (server/repo-mgr.c), permissions and the status  *)
(* of the library change, and a timer empties the caches.                     *)
(*                                                                            *)
(* Time is counted in units much longer than a request: now moves while no    *)
(* request is under way (bound: its duration), and the timer of the    *)
(* caches runs at least every Interval units.                                 *)
(***************************************************************************)
EXTENDS Integers, FiniteSets

CONSTANTS
    Users, Tokens, Peers,   \* accounts, tokens, and ids of client devices
    Procs,                  \* threads that answer requests
    TokenExpire, PermExpire,\* TOKEN_EXPIRE_TIME and PERM_EXPIRE_TIME,
    Interval,               \* CLEANING_INTERVAL_SEC, in units of time
    None,
    MaxTime, MaxOps         \* bounds: the time, and the changes of users and administrators

AccessAssumption ==
    /\ None \notin Users
    /\ TokenExpire \in Nat \ {0} /\ PermExpire \in Nat \ {0} /\ Interval \in Nat \ {0}

VARIABLES
    now,
    cleaned,        \* when remove_expire_cache_cb ran last
    row,            \* RepoUserToken: the email of a token
    peer,           \* RepoTokenPeerInfo: the peer_id of a token
    perm,           \* the permission of a user in the tables
    status,         \* RepoInfo.status
    tokenCache,     \* token_cache
    permCache,      \* perm_cache
    req,            \* the requests under way
    task,           \* the deletion of tokens under way
    issued,         \* history: the tokens given out,
    gone,           \*   the tokens whose deletion ended without a request on the way,
    lastRow,        \*   the last time at which a token had a row,
    lastPerm,       \*   and at which a user had a permission
    ops

tables == <<row, peer, perm, status>>
history == <<issued, gone, lastRow, lastPerm>>
vars == <<now, cleaned, tables, tokenCache, permCache, req, task, history, ops>>

Perms == {"r", "rw"}
Idle == [pc |-> "idle"]

Init ==
    /\ now = 0 /\ cleaned = 0
    /\ issued \in {{}, Tokens}
    /\ row \in [Tokens -> IF issued = {} THEN {None} ELSE Users]
    /\ peer = [t \in Tokens |-> None]
    /\ perm \in [Users -> Perms]
    /\ status = "normal"
    /\ tokenCache = [t \in Tokens |-> None]
    /\ permCache = [u \in Users |-> None]
    /\ req = [p \in Procs |-> Idle]
    /\ task = [pc |-> "idle"]
    /\ gone = {}
    /\ lastRow = [t \in Tokens |-> 0]
    /\ lastPerm = [u \in Users |-> [q \in Perms |-> 0]]
    /\ ops = 0

Working(p) == req[p].pc # "idle"

\* A user who may write may read.
Gives(have, q) == have = q \/ have = "rw"
Forbidden(have, op) == have = "r" /\ op = "upload"

----------------------------------------------------------------------------
\* Requests

Answer(p, ok) ==
    req' = [req EXCEPT ![p] = IF ok THEN [@ EXCEPT !.pc = "accepted"] ELSE Idle]

To(p, pc) == req' = [req EXCEPT ![p].pc = pc]

\* op is "none" in the requests that need only a token
AfterToken(op) == IF op = "none" THEN "accepted" ELSE "perm"

\* The permission check asks for its answer without the cache: fresh.
Start(p, t, op, fresh, id) ==
    /\ ~Working(p)
    /\ t \in issued
    /\ op = "none" => ~fresh
    /\ fresh = (id # None)
    /\ LET e == tokenCache[t]
           hit == ~fresh /\ e # None
       IN req' = [req EXCEPT ![p] =
              [pc |-> IF hit THEN AfterToken(op) ELSE "query",
               token |-> t, op |-> op, fresh |-> fresh, peer |-> id,
               user |-> IF hit THEN e.email ELSE None,
               perm |-> None, freed |-> FALSE, dead |-> t \in gone]]
    /\ UNCHANGED <<now, cleaned, tables, tokenCache, permCache, task, history, ops>>

QueryToken(p) ==
    /\ req[p].pc = "query"
    /\ req' = [req EXCEPT ![p].pc = "insert", ![p].user = row[req[p].token]]
    /\ UNCHANGED <<now, cleaned, tables, tokenCache, permCache, task, history, ops>>

KeepToken(p) ==
    /\ req[p].pc = "insert"
    /\ LET u == req[p].user
       IN /\ tokenCache' = [tokenCache EXCEPT ![req[p].token] =
                 IF u = None THEN None ELSE [email |-> u, expire |-> now + TokenExpire]]
          /\ IF u = None THEN Answer(p, FALSE) ELSE To(p, AfterToken(req[p].op))
    /\ UNCHANGED <<now, cleaned, tables, permCache, task, history, ops>>

\* The entry found in the cache is read after the unlock. Without an entry the status
\* of the library is asked for first.
LookupPerm(p) ==
    /\ req[p].pc = "perm"
    /\ LET e == permCache[req[p].user]
       IN IF ~req[p].fresh /\ e # None
          THEN req' = [req EXCEPT ![p].pc = "entry", ![p].perm = e.perm]
          ELSE IF req[p].op = "upload" /\ status # "normal" THEN Answer(p, FALSE)
          ELSE To(p, "read")
    /\ UNCHANGED <<now, cleaned, tables, tokenCache, permCache, task, history, ops>>

\* An entry that another thread has replaced meanwhile is freed memory: anything is read.
UseEntry(p) ==
    /\ req[p].pc = "entry"
    /\ IF req[p].freed
       THEN \E ok \in BOOLEAN : Answer(p, ok)
       ELSE IF Forbidden(req[p].perm, req[p].op) THEN Answer(p, FALSE)
       ELSE IF req[p].fresh THEN To(p, "peer")
       ELSE Answer(p, TRUE)
    /\ UNCHANGED <<now, cleaned, tables, tokenCache, permCache, task, history, ops>>

ReadPerm(p) ==
    /\ req[p].pc = "read"
    /\ req' = [req EXCEPT ![p].pc = "store", ![p].perm = perm[req[p].user]]
    /\ UNCHANGED <<now, cleaned, tables, tokenCache, permCache, task, history, ops>>

\* the requests that hold the entry of user u, which is freed
FreeEntry(u) ==
    [p \in Procs |->
        IF req[p].pc = "entry" /\ req[p].user = u
        THEN [req[p] EXCEPT !.freed = TRUE] ELSE req[p]]

StorePerm(p) ==
    /\ req[p].pc = "store"
    /\ LET r == req[p]
       IN /\ permCache' = [permCache EXCEPT ![r.user] =
                 IF r.perm = None THEN None
                 ELSE [perm |-> r.perm, expire |-> now + PermExpire]]
          /\ req' = [FreeEntry(r.user) EXCEPT
                 ![p] = IF r.perm = None THEN Idle ELSE [@ EXCEPT !.pc = "entry"]]
    /\ UNCHANGED <<now, cleaned, tables, tokenCache, task, history, ops>>

\* The permission check notes the device of the token: INSERT the first time,
\* and UPDATE, which leaves peer_id, later.
NotePeer(p) ==
    /\ req[p].pc = "peer"
    /\ peer' = [peer EXCEPT ![req[p].token] = IF @ = None THEN req[p].peer ELSE @]
    /\ Answer(p, TRUE)
    /\ UNCHANGED <<now, cleaned, row, perm, status, tokenCache, permCache, task, history, ops>>

Reply(p) ==
    /\ req[p].pc = "accepted"
    /\ req' = [req EXCEPT ![p] = Idle]
    /\ UNCHANGED <<now, cleaned, tables, tokenCache, permCache, task, history, ops>>

----------------------------------------------------------------------------
\* Users and administrators

Counted == ops < MaxOps /\ ops' = ops + 1

GenerateToken(u, t) ==
    /\ Counted
    /\ t \notin issued
    /\ issued' = issued \cup {t}
    /\ row' = [row EXCEPT ![t] = u]
    /\ lastRow' = [lastRow EXCEPT ![t] = now]
    /\ UNCHANGED <<now, cleaned, peer, perm, status, tokenCache, permCache, req, task,
                   gone, lastPerm>>

NoTask == task.pc = "idle"
Begin(tokens, invalidates) ==
    /\ NoTask
    /\ Counted
    /\ task' = [pc |-> "rows", tokens |-> tokens, invalidates |-> invalidates]
    /\ UNCHANGED <<now, cleaned, tables, tokenCache, permCache, req, history>>

\* the tokens of a user that have noted their device, of one device or of all
TokensOfPeer(u, id) == {t \in Tokens : row[t] = u /\ peer[t] = id}
TokensOfEmail(u) == {t \in Tokens : row[t] = u /\ peer[t] # None}

DeleteToken(u, t) == row[t] = u /\ Begin({t}, TRUE)

DeleteByPeer(u, id) ==
    TokensOfPeer(u, id) # {} /\ Begin(TokensOfPeer(u, id), TRUE)

DeleteByEmail(u) == TokensOfEmail(u) # {} /\ Begin(TokensOfEmail(u), TRUE)

\* The tool fsck removes the tokens of a library from the tables: another process.
FsckDeletesTokens ==
    LET ts == {t \in Tokens : row[t] # None} IN ts # {} /\ Begin(ts, FALSE)

DeleteRows ==
    /\ task.pc = "rows"
    /\ row' = [t \in Tokens |-> IF t \in task.tokens THEN None ELSE row[t]]
    /\ task' = [task EXCEPT !.pc = "peers"]
    /\ UNCHANGED <<now, cleaned, peer, perm, status, tokenCache, permCache, req, history, ops>>

DeletePeers ==
    /\ task.pc = "peers"
    /\ peer' = [t \in Tokens |-> IF t \in task.tokens THEN None ELSE peer[t]]
    /\ task' = IF task.invalidates THEN [task EXCEPT !.pc = "invalidate"]
               ELSE [pc |-> "idle"]
    /\ UNCHANGED <<now, cleaned, row, perm, status, tokenCache, permCache, req, history, ops>>

\* A statement fails: the caller gets an error and the cache keeps the tokens.
DeletionFails ==
    /\ task.pc \in {"rows", "peers"}
    /\ task' = [pc |-> "idle"]
    /\ UNCHANGED <<now, cleaned, tables, tokenCache, permCache, req, history, ops>>

\* a request has read the row of t and will insert it into the cache
Racing(t) ==
    \E p \in Procs : req[p].pc = "insert" /\ req[p].token = t /\ req[p].user # None

\* The rows go and the cache keeps its entries, against AccessEnds
InvalidateNone ==
    /\ task.pc = "invalidate"
    /\ gone' = gone \cup {t \in task.tokens : ~Racing(t)}
    /\ task' = [pc |-> "idle"]
    /\ UNCHANGED <<now, cleaned, tables, tokenCache, permCache, req, issued, lastRow, lastPerm, ops>>

InvalidateTokens ==
    /\ task.pc = "invalidate"
    /\ tokenCache' = [t \in Tokens |-> IF t \in task.tokens THEN None ELSE tokenCache[t]]
    /\ gone' = gone \cup {t \in task.tokens : ~Racing(t)}
    /\ task' = [pc |-> "idle"]
    /\ UNCHANGED <<now, cleaned, tables, permCache, req, issued, lastRow, lastPerm, ops>>

\* The deletion of a library takes the rows of its tokens, and nothing else here.
DeleteRepo ==
    /\ Counted
    /\ \E t \in Tokens : row[t] # None
    /\ row' = [t \in Tokens |-> None]
    /\ UNCHANGED <<now, cleaned, peer, perm, status, tokenCache, permCache, req, task, history>>

\* The module Sharing has the requests that change a permission.
SetPerm(u, q) ==
    /\ Counted
    /\ perm' = [perm EXCEPT ![u] = q]
    /\ lastPerm' = [lastPerm EXCEPT ![u] =
           [r \in Perms |-> IF q # None /\ Gives(q, r) THEN now ELSE @[r]]]
    /\ UNCHANGED <<now, cleaned, row, peer, status, tokenCache, permCache, req, task,
                   issued, gone, lastRow>>

SetRepoStatus(s) ==
    /\ Counted
    /\ status' = s
    /\ UNCHANGED <<now, cleaned, row, peer, perm, tokenCache, permCache, req, task, history>>

----------------------------------------------------------------------------
\* Time

Expired(e) == e # None /\ e.expire <= now
LeftToken(e) == IF Expired(e) THEN None ELSE e

LeftPerm(e) == IF Expired(e) THEN None ELSE e

CleanCaches ==
    /\ cleaned # now
    /\ cleaned' = now
    /\ tokenCache' = [t \in Tokens |-> LeftToken(tokenCache[t])]
    /\ permCache' = [u \in Users |-> LeftPerm(permCache[u])]
    /\ req' = [p \in Procs |->
           IF req[p].pc = "entry" /\ Expired(permCache[req[p].user])
           THEN [req[p] EXCEPT !.freed = TRUE] ELSE req[p]]
    /\ UNCHANGED <<now, tables, task, history, ops>>

Tick ==
    /\ now < MaxTime
    /\ now < cleaned + Interval
    /\ NoTask /\ \A p \in Procs : ~Working(p)
    /\ now' = now + 1
    /\ lastRow' = [t \in Tokens |-> IF row[t] # None THEN now' ELSE lastRow[t]]
    /\ lastPerm' = [u \in Users |-> [q \in Perms |->
           IF perm[u] # None /\ Gives(perm[u], q) THEN now' ELSE lastPerm[u][q]]]
    /\ UNCHANGED <<cleaned, tables, tokenCache, permCache, req, task, issued, gone, ops>>

Step(p) ==
    \/ QueryToken(p) \/ KeepToken(p) \/ LookupPerm(p) \/ UseEntry(p)
    \/ ReadPerm(p) \/ StorePerm(p) \/ NotePeer(p) \/ Reply(p)

Next ==
    \/ \E p \in Procs, t \in Tokens, op \in {"none", "download", "upload"},
          fresh \in BOOLEAN, id \in Peers \cup {None} : Start(p, t, op, fresh, id)
    \/ \E p \in Procs : Step(p)
    \/ \E u \in Users, t \in Tokens : GenerateToken(u, t) \/ DeleteToken(u, t)
    \/ \E u \in Users, id \in Peers : DeleteByPeer(u, id)
    \/ \E u \in Users : DeleteByEmail(u)
    \/ FsckDeletesTokens
    \/ DeleteRows \/ DeletePeers \/ DeletionFails \/ InvalidateTokens
    \/ DeleteRepo
    \/ \E u \in Users, q \in Perms \cup {None} : SetPerm(u, q)
    \/ \E s \in {"normal", "read-only"} : SetRepoStatus(s)
    \/ CleanCaches
    \/ Tick

Spec == Init /\ [][Next]_vars

----------------------------------------------------------------------------
\* A token that was unlinked opens nothing from the moment its deletion ended, unless a
\* request had read its row when the cache was emptied of it; the cached answer of such a
\* request, of a deletion that failed halfway, and of a library deleted or repaired ends
\* with the first cleaning after TOKEN_EXPIRE_TIME (validate_token, repo-mgr.c:1521).
RevocationEnds ==
    \A p \in Procs : req[p].pc = "accepted" =>
        /\ ~req[p].dead
        /\ now < lastRow[req[p].token] + TokenExpire + Interval

\* A request is accepted for a permission that the tables gave the user at most
\* PERM_EXPIRE_TIME and one cleaning ago, and the check that a client makes before it
\* syncs, for the one they give now, unless the entry was freed under the request
\* (check_permission).
PermissionWasGiven ==
    \A p \in Procs : req[p].pc = "accepted" /\ req[p].op # "none" /\ ~req[p].freed =>
        LET last == lastPerm[req[p].user][IF req[p].op = "upload" THEN "rw" ELSE "r"]
        IN IF req[p].fresh THEN now = last ELSE now < last + PermExpire + Interval

\* Whatever the caches hold, access ends in bounded time: validate_token and
\* check_permission together.
AccessEnds == RevocationEnds /\ PermissionWasGiven
=============================================================================
