-------------------------- MODULE SyncAccessProofs --------------------------
(***************************************************************************)
(* Proofs about SyncAccess, for any users, tokens, threads and expiry times:  *)
(* an answer the caches give is not older than their expiry and one cleaning. *)
(***************************************************************************)
EXTENDS SyncAccess, TLAPS

Ops == {"none", "download", "upload"}

\* A request that has passed the check of its token
Checked == {"perm", "entry", "read", "store", "peer", "accepted"}

Request ==
    [pc : {"query", "insert"} \cup Checked, token : Tokens, op : Ops, fresh : BOOLEAN,
     peer : Peers \cup {None}, user : Users \cup {None}, perm : Perms \cup {None},
     freed : BOOLEAN, dead : BOOLEAN]

Deletion ==
    [pc : {"rows", "peers", "invalidate"}, tokens : SUBSET Tokens, invalidates : BOOLEAN]

Types ==
    /\ now \in Nat /\ cleaned \in Nat
    /\ cleaned <= now /\ now <= cleaned + Interval
    /\ row \in [Tokens -> Users \cup {None}]
    /\ perm \in [Users -> Perms \cup {None}]
    /\ tokenCache \in [Tokens -> {None} \cup [email : Users, expire : Nat]]
    /\ permCache \in [Users -> {None} \cup [perm : Perms, expire : Nat]]
    /\ req \in [Procs -> Request \cup {Idle}]
    /\ issued \in SUBSET Tokens /\ gone \in SUBSET Tokens
    /\ lastRow \in [Tokens -> Nat]
    /\ lastPerm \in [Users -> [Perms -> Nat]]
    /\ task \in {[pc |-> "idle"]} \cup Deletion

\* The histories are those of the tables.
HistoryOK ==
    /\ \A t \in Tokens : lastRow[t] <= now /\ (row[t] # None => lastRow[t] = now /\ t \in issued)
    /\ \A u \in Users, q \in Perms :
        /\ lastPerm[u][q] <= now
        /\ perm[u] # None /\ Gives(perm[u], q) => lastPerm[u][q] = now

\* A token whose rows a deletion has taken does not come back.
DeletionOK ==
    /\ \A t \in gone : row[t] = None /\ t \in issued
    /\ task.pc \in {"rows", "peers", "invalidate"} => task.tokens \subseteq issued
    /\ task.pc \in {"peers", "invalidate"} => \A t \in task.tokens : row[t] = None

\* An entry was right when it was made, is not of a token that is gone, and has not
\* been found expired.
TokenCacheOK ==
    \A t \in Tokens : tokenCache[t] # None =>
        /\ t \notin gone
        /\ cleaned < tokenCache[t].expire
        /\ tokenCache[t].expire <= lastRow[t] + TokenExpire

PermCacheOK ==
    \A u \in Users : permCache[u] # None =>
        /\ cleaned < permCache[u].expire
        /\ \A q \in Perms : Gives(permCache[u].perm, q) =>
              permCache[u].expire <= lastPerm[u][q] + PermExpire

Needed(op) == IF op = "upload" THEN "rw" ELSE "r"

\* The tables give user r.user permission q now, or gave it not long ago.
WasGiven(r, q) ==
    IF r.fresh THEN now = lastPerm[r.user][q]
    ELSE now < lastPerm[r.user][q] + PermExpire + Interval

\* What is known of a request on its way: time does not move meanwhile.
RequestOK(p) ==
    LET r == req[p] IN
    /\ r.op = "none" => ~r.fresh
    /\ r.dead => r.pc \in {"query", "insert"} /\ r.token \in gone
    /\ r.pc = "insert" /\ r.user # None => r.token \notin gone /\ lastRow[r.token] = now
    /\ r.pc \in Checked => now < lastRow[r.token] + TokenExpire + Interval
    /\ r.pc \in Checked /\ r.op # "none" => r.user \in Users
    /\ r.pc \in Checked \ {"accepted"} => r.op # "none"
    /\ r.pc = "store" /\ r.perm # None =>
          \A q \in Perms : Gives(r.perm, q) => lastPerm[r.user][q] = now
    /\ r.pc = "entry" /\ ~r.freed =>
          r.perm \in Perms /\ \A q \in Perms : Gives(r.perm, q) => WasGiven(r, q)
    /\ r.pc \in {"peer", "accepted"} /\ r.op # "none" /\ ~r.freed =>
          WasGiven(r, Needed(r.op))

Requests == \A p \in Procs : Working(p) => RequestOK(p)

AccessInv ==
    /\ Types /\ HistoryOK /\ DeletionOK /\ TokenCacheOK /\ PermCacheOK
    /\ Requests

-----------------------------------------------------------------------------
(* Requests that do not move                                               *)

\* A request under way is a record of the right form.
LEMMA RequestType ==
  ASSUME Types, NEW p \in Procs, Working(p) PROVE req[p] \in Request
  BY DEF Types, Working, Idle

\* A step while time stands still: the tables may change, and the histories know
\* more.
Forward ==
    /\ now' = now
    /\ \A t \in Tokens : lastRow[t] <= lastRow'[t] /\ lastRow'[t] <= now
    /\ \A u \in Users, q \in Perms : lastPerm[u][q] <= lastPerm'[u][q] /\ lastPerm'[u][q] <= now
    /\ gone \subseteq gone'

\* A request that does not move, or finds its entry freed
Stays(p) == req'[p] = req[p] \/ req'[p] = [req[p] EXCEPT !.freed = TRUE]

\* A later time is as good for what has to be now or not long ago.
LEMMA LaterIsBetter ==
  ASSUME NEW a \in Nat, NEW b \in Nat, NEW n \in Nat, NEW c \in Nat, NEW d \in Nat, a <= b, b <= n
  PROVE  (a = n => b = n) /\ (n < a + c + d => n < b + c + d)
  OBVIOUS

\* What is known of a request holds on while others move.
LEMMA RequestStays ==
  ASSUME AccessAssumption, Types, Types', NEW p \in Procs, Working(p), RequestOK(p), Forward, Stays(p),
         req[p].pc = "insert" /\ req[p].user # None => req[p].token \notin gone'
  PROVE  RequestOK(p)'
<1> DEFINE r == req[p]
<1>1. r \in Request
  BY RequestType
<1>2. /\ req'[p].pc = r.pc /\ req'[p].op = r.op /\ req'[p].fresh = r.fresh /\ req'[p].dead = r.dead
      /\ req'[p].token = r.token /\ req'[p].user = r.user /\ req'[p].perm = r.perm
      /\ ~req'[p].freed => ~r.freed
  BY <1>1 DEF Stays, Request
<1>3. /\ r.token \in Tokens /\ now \in Nat /\ lastRow \in [Tokens -> Nat]
      /\ lastRow' \in [Tokens -> Nat] /\ TokenExpire \in Nat /\ Interval \in Nat /\ PermExpire \in Nat
      /\ lastPerm \in [Users -> [Perms -> Nat]] /\ lastPerm' \in [Users -> [Perms -> Nat]]
  BY <1>1 DEF Request, Types, AccessAssumption
<1>4. /\ lastRow[r.token] = now => lastRow'[r.token] = now
      /\ now < lastRow[r.token] + TokenExpire + Interval
            => now < lastRow'[r.token] + TokenExpire + Interval
  <2>1. /\ lastRow[r.token] <= lastRow'[r.token] /\ lastRow'[r.token] <= now
        /\ lastRow[r.token] \in Nat /\ lastRow'[r.token] \in Nat
    BY <1>3 DEF Forward
  <2>2. now \in Nat /\ TokenExpire \in Nat /\ Interval \in Nat
    BY <1>3
  <2> QED
    BY <2>1, <2>2, LaterIsBetter
<1>5. ASSUME NEW q \in Perms, r.user \in Users
      PROVE  /\ lastPerm[r.user][q] = now => lastPerm'[r.user][q] = now
             /\ WasGiven(r, q) => WasGiven(req[p], q)'
  <2>1. /\ lastPerm[r.user][q] <= lastPerm'[r.user][q] /\ lastPerm'[r.user][q] <= now
        /\ lastPerm[r.user][q] \in Nat /\ lastPerm'[r.user][q] \in Nat
    BY <1>3, <1>5 DEF Forward
  <2>2. now \in Nat /\ PermExpire \in Nat /\ Interval \in Nat
    BY <1>3
  <2>3. /\ lastPerm[r.user][q] = now => lastPerm'[r.user][q] = now
        /\ now < lastPerm[r.user][q] + PermExpire + Interval
              => now < lastPerm'[r.user][q] + PermExpire + Interval
    BY <2>1, <2>2, LaterIsBetter
  <2>4. now' = now
    BY DEF Forward
  <2> QED
    BY <1>2, <2>3, <2>4 DEF WasGiven
<1>6. Needed(r.op) \in Perms
  BY DEF Needed, Perms
<1>7. /\ r.op = "none" => ~r.fresh
      /\ r.dead => r.pc \in {"query", "insert"} /\ r.token \in gone
      /\ r.pc = "insert" /\ r.user # None => r.token \notin gone /\ lastRow[r.token] = now
      /\ r.pc \in Checked => now < lastRow[r.token] + TokenExpire + Interval
      /\ r.pc \in Checked /\ r.op # "none" => r.user \in Users
      /\ r.pc \in Checked \ {"accepted"} => r.op # "none"
  BY DEF RequestOK
<1>8. /\ req'[p].op = "none" => ~req'[p].fresh
      /\ req'[p].dead => req'[p].pc \in {"query", "insert"} /\ req'[p].token \in gone'
      /\ req'[p].pc = "insert" /\ req'[p].user # None =>
            req'[p].token \notin gone' /\ lastRow'[req'[p].token] = now'
      /\ req'[p].pc \in Checked => now' < lastRow'[req'[p].token] + TokenExpire + Interval
      /\ req'[p].pc \in Checked /\ req'[p].op # "none" => req'[p].user \in Users
      /\ req'[p].pc \in Checked \ {"accepted"} => req'[p].op # "none"
  BY <1>2, <1>4, <1>7 DEF Forward
<1>9. req'[p].pc = "store" /\ req'[p].perm # None =>
        \A q \in Perms : Gives(req'[p].perm, q) => lastPerm'[req'[p].user][q] = now'
  BY <1>2, <1>5, <1>7 DEF RequestOK, Checked, Forward
<1>10. req'[p].pc = "entry" /\ ~req'[p].freed =>
         req'[p].perm \in Perms /\ \A q \in Perms : Gives(req'[p].perm, q) => WasGiven(req[p], q)'
  BY <1>2, <1>5, <1>7 DEF RequestOK, Checked
<1>11. req'[p].pc \in {"peer", "accepted"} /\ req'[p].op # "none" /\ ~req'[p].freed =>
         WasGiven(req[p], Needed(req[p].op))'
  <2> SUFFICES ASSUME r.pc \in {"peer", "accepted"}, r.op # "none", ~r.freed,
                      NEW q \in Perms, q = Needed(r.op)
      PROVE  WasGiven(req[p], q)'
    BY <1>2, <1>6
  <2>1. r.user \in Users /\ WasGiven(r, q)
    BY <1>7 DEF RequestOK, Checked
  <2> QED
    BY <1>5, <2>1
<1> QED
  BY <1>8, <1>9, <1>10, <1>11 DEF RequestOK

\* One request moves.
LEMMA RequestsStep ==
  ASSUME AccessAssumption, Types, Types', Requests, Forward, gone' = gone, NEW p \in Procs,
         \A o \in Procs \ {p} : Stays(o),
         Working(p)' => RequestOK(p)'
  PROVE  Requests'
<1> SUFFICES ASSUME NEW o \in Procs, o # p, Working(o)' PROVE RequestOK(o)'
  BY DEF Requests
<1>1. Stays(o) /\ Working(o)
  BY DEF Stays, Working, Types, Idle, Request
<1>2. RequestOK(o)
  BY <1>1 DEF Requests
<1>3. req[o].pc = "insert" /\ req[o].user # None => req[o].token \notin gone'
  BY <1>2 DEF RequestOK
<1> QED
  BY <1>1, <1>2, <1>3, RequestStays

-----------------------------------------------------------------------------
(* The steps of a request                                                  *)

\* A cached token had a row until not long ago.
LEMMA TokenHit ==
  ASSUME AccessAssumption, Types, TokenCacheOK, NEW t \in Tokens, tokenCache[t] # None
  PROVE  /\ t \notin gone /\ tokenCache[t].email \in Users
         /\ now < lastRow[t] + TokenExpire + Interval
<1>1. tokenCache[t] \in [email : Users, expire : Nat] /\ lastRow[t] \in Nat
  BY DEF Types
<1>2. /\ t \notin gone /\ cleaned < tokenCache[t].expire
      /\ tokenCache[t].expire <= lastRow[t] + TokenExpire
  BY DEF TokenCacheOK
<1>3. now \in Nat /\ cleaned \in Nat /\ now <= cleaned + Interval /\ Interval \in Nat /\ TokenExpire \in Nat
  BY DEF Types, AccessAssumption
<1> QED
  BY <1>1, <1>2, <1>3

\* A cached permission was given until not long ago.
LEMMA PermHit ==
  ASSUME AccessAssumption, Types, PermCacheOK, NEW u \in Users, permCache[u] # None
  PROVE  /\ permCache[u].perm \in Perms
         /\ \A q \in Perms : Gives(permCache[u].perm, q) =>
               now < lastPerm[u][q] + PermExpire + Interval
<1>1. permCache[u] \in [perm : Perms, expire : Nat]
  BY DEF Types
<1>2. ASSUME NEW q \in Perms, Gives(permCache[u].perm, q)
      PROVE  now < lastPerm[u][q] + PermExpire + Interval
  <2>1. cleaned < permCache[u].expire /\ permCache[u].expire <= lastPerm[u][q] + PermExpire
    BY <1>2 DEF PermCacheOK
  <2>2. now \in Nat /\ cleaned \in Nat /\ now <= cleaned + Interval /\ Interval \in Nat /\ PermExpire \in Nat
    BY DEF Types, AccessAssumption
  <2>3. permCache[u].expire \in Nat /\ lastPerm[u][q] \in Nat
    BY <1>1 DEF Types
  <2> QED
    BY <2>1, <2>2, <2>3
<1> QED
  BY <1>1, <1>2

\* A step of a request leaves the tables of the histories alone.
LEMMA TablesStay ==
  ASSUME Types, HistoryOK, DeletionOK, UNCHANGED <<now, row, perm, issued, gone, lastRow, lastPerm, task>>
  PROVE  HistoryOK' /\ DeletionOK' /\ Forward
<1>1. /\ \A t \in Tokens : lastRow[t] \in Nat
      /\ \A u \in Users, q \in Perms : lastPerm[u][q] \in Nat
  BY DEF Types
<1> QED
  BY <1>1 DEF HistoryOK, DeletionOK, Forward

\* A request that changes nothing else
LEMMA OnlyRequest ==
  ASSUME AccessAssumption, AccessInv, NEW p \in Procs, NEW r \in Request \cup {Idle},
         req' = [req EXCEPT ![p] = r],
         UNCHANGED <<now, cleaned, row, perm, tokenCache, permCache, issued, gone, lastRow, lastPerm, task>>,
         Working(p)' => RequestOK(p)'
  PROVE  AccessInv'
<1>1. Types'
  BY DEF AccessInv, Types
<1>2. HistoryOK' /\ DeletionOK' /\ Forward
  BY TablesStay DEF AccessInv
<1>3. TokenCacheOK' /\ PermCacheOK'
  BY DEF AccessInv, TokenCacheOK, PermCacheOK
<1>4. \A o \in Procs \ {p} : Stays(o)
  BY DEF Stays, AccessInv, Types
<1>5. Requests'
  BY <1>1, <1>2, <1>4, RequestsStep DEF AccessInv
<1> QED
  BY <1>1, <1>2, <1>3, <1>5 DEF AccessInv

\* A request that finds its token in the cache need not ask the tables.
LEMMA StartKeeps ==
  ASSUME AccessAssumption, AccessInv, NEW p \in Procs, NEW t \in Tokens, NEW op \in Ops,
         NEW fresh \in BOOLEAN, NEW id \in Peers \cup {None}, Start(p, t, op, fresh, id)
  PROVE  AccessInv'
<1> DEFINE e == tokenCache[t]
           hit == ~fresh /\ e # None
           r == [pc |-> IF hit THEN AfterToken(op) ELSE "query",
                 token |-> t, op |-> op, fresh |-> fresh, peer |-> id,
                 user |-> IF hit THEN e.email ELSE None,
                 perm |-> None, freed |-> FALSE, dead |-> t \in gone]
<1>1. /\ req' = [req EXCEPT ![p] = r] /\ (op = "none" => ~fresh)
      /\ UNCHANGED <<now, cleaned, row, perm, tokenCache, permCache, issued, gone, lastRow, lastPerm, task>>
  BY DEF Start, tables, history
<1>2. hit => /\ t \notin gone /\ e.email \in Users
             /\ now < lastRow[t] + TokenExpire + Interval
  BY TokenHit DEF AccessInv
<1>3. AfterToken(op) \in {"accepted", "perm"} /\ (AfterToken(op) = "accepted" <=> op = "none")
  BY DEF AfterToken
<1>4. r \in Request
  <2>1. r.pc \in {"query", "insert"} \cup Checked
    BY <1>3 DEF Checked
  <2>2. r.user \in Users \cup {None}
    BY <1>2
  <2>3. r.dead \in BOOLEAN
    OBVIOUS
  <2> QED
    BY <2>1, <2>2, <2>3 DEF Request
<1>5. req'[p] = r
  BY <1>1 DEF AccessInv, Types
<1>6. RequestOK(p)'
  <2>1. /\ r.token = t /\ r.op = op /\ r.fresh = fresh /\ (r.dead <=> t \in gone)
        /\ IF hit THEN r.pc = AfterToken(op) /\ r.user = e.email ELSE r.pc = "query"
    OBVIOUS
  <2> HIDE DEF r
  <2> QED
    BY <1>1, <1>2, <1>3, <1>5, <2>1 DEF RequestOK, Checked
<1> QED
  BY <1>1, <1>4, <1>6, OnlyRequest

\* The row is read now, and a token that is gone has none.
LEMMA QueryKeeps ==
  ASSUME AccessAssumption, AccessInv, NEW p \in Procs, QueryToken(p) PROVE AccessInv'
<1> DEFINE r == [req[p] EXCEPT !.pc = "insert", !.user = row[req[p].token]]
<1>1. req[p] \in Request /\ req[p].pc = "query" /\ RequestOK(p)
  BY RequestType DEF QueryToken, Working, AccessInv, Requests
<1>2. /\ req' = [req EXCEPT ![p] = r]
      /\ UNCHANGED <<now, cleaned, row, perm, tokenCache, permCache, issued, gone, lastRow, lastPerm, task>>
  BY DEF QueryToken, tables, history, AccessInv, Types
<1>3. row[req[p].token] \in Users \cup {None}
  BY <1>1 DEF AccessInv, Types, Request
<1>4. r \in Request
  BY <1>1, <1>3 DEF Request
<1>5. req'[p] = r
  BY <1>2 DEF AccessInv, Types
<1>6. /\ r.pc = "insert" /\ r.user = row[req[p].token] /\ r.token = req[p].token
      /\ r.op = req[p].op /\ r.fresh = req[p].fresh /\ r.dead = req[p].dead
  BY <1>1 DEF Request
<1>7. row[req[p].token] # None => req[p].token \notin gone /\ lastRow[req[p].token] = now
  BY <1>1 DEF AccessInv, HistoryOK, DeletionOK, Request
<1>8. RequestOK(p)'
  BY <1>1, <1>2, <1>5, <1>6, <1>7 DEF RequestOK, Checked
<1> QED
  BY <1>2, <1>4, <1>8, OnlyRequest

\* The answer of the table is kept for TOKEN_EXPIRE_TIME.
LEMMA KeepTokenKeeps ==
  ASSUME AccessAssumption, AccessInv, NEW p \in Procs, KeepToken(p) PROVE AccessInv'
<1> DEFINE u == req[p].user
           t == req[p].token
           at == AfterToken(req[p].op)
<1>1. /\ req[p] \in Request /\ req[p].pc = "insert" /\ RequestOK(p)
      /\ t \in Tokens /\ u \in Users \cup {None} /\ req[p].op \in Ops
  BY RequestType DEF KeepToken, Working, AccessInv, Requests, Request
<1>2. /\ UNCHANGED <<now, cleaned, row, perm, permCache, issued, gone, lastRow, lastPerm, task>>
      /\ tokenCache' = [tokenCache EXCEPT ![t] =
             IF u = None THEN None ELSE [email |-> u, expire |-> now + TokenExpire]]
  BY DEF KeepToken, tables, history
<1>3. at \in {"accepted", "perm"} /\ (at = "accepted" <=> req[p].op = "none")
  BY DEF AfterToken
<1>4. u # None => t \notin gone /\ lastRow[t] = now
  BY <1>1 DEF RequestOK
<1>5. now \in Nat /\ TokenExpire \in Nat \ {0} /\ Interval \in Nat \ {0} /\ cleaned \in Nat /\ cleaned <= now
  BY DEF AccessInv, Types, AccessAssumption
<1>6. now + TokenExpire \in Nat /\ cleaned < now + TokenExpire /\ now < now + TokenExpire + Interval
  BY <1>5
<1>7. CASE u = None
  <2>1. req' = [req EXCEPT ![p] = Idle]
    BY <1>7 DEF KeepToken, Answer
  <2>2. Types'
    BY <1>2, <1>7, <2>1 DEF AccessInv, Types
  <2>3. HistoryOK' /\ DeletionOK' /\ Forward
    BY <1>2, TablesStay DEF AccessInv
  <2>4. PermCacheOK' /\ TokenCacheOK'
    BY <1>2, <1>7 DEF AccessInv, PermCacheOK, TokenCacheOK, Types
  <2>5. \A o \in Procs \ {p} : Stays(o)
    BY <2>1 DEF Stays, AccessInv, Types
  <2>6. ~Working(p)'
    BY <2>1 DEF Working, Idle, AccessInv, Types
  <2>7. Requests'
    BY <1>2, <2>2, <2>3, <2>5, <2>6, RequestsStep DEF AccessInv
  <2> QED
    BY <2>2, <2>3, <2>4, <2>7 DEF AccessInv
<1>8. CASE u # None
  <2> DEFINE r == [req[p] EXCEPT !.pc = at]
             e == [email |-> u, expire |-> now + TokenExpire]
  <2>1. req' = [req EXCEPT ![p] = r] /\ r \in Request
    <3>1. req' = [req EXCEPT ![p] = r]
      BY <1>8 DEF KeepToken, To, AccessInv, Types
    <3>2. r \in Request
      BY <1>1, <1>3 DEF Request, Checked
    <3> QED
      BY <3>1, <3>2
  <2>2. e \in [email : Users, expire : Nat] /\ tokenCache' = [tokenCache EXCEPT ![t] = e]
    BY <1>1, <1>2, <1>6, <1>8
  <2>3. Types'
    BY <1>2, <2>1, <2>2 DEF AccessInv, Types
  <2>4. HistoryOK' /\ DeletionOK' /\ Forward
    BY <1>2, TablesStay DEF AccessInv
  <2>5. PermCacheOK'
    BY <1>2 DEF AccessInv, PermCacheOK
  <2>6. TokenCacheOK'
    <3>1. ASSUME NEW k \in Tokens, tokenCache'[k] # None
          PROVE  /\ k \notin gone
                 /\ cleaned < tokenCache'[k].expire
                 /\ tokenCache'[k].expire <= lastRow[k] + TokenExpire
      <4>1. CASE k = t
        <5>1. tokenCache'[k].expire = now + TokenExpire
          BY <1>1, <2>2, <4>1 DEF AccessInv, Types
        <5> QED
          BY <1>4, <1>5, <1>6, <1>8, <4>1, <5>1
      <4>2. CASE k # t
        BY <2>2, <3>1, <4>2 DEF AccessInv, TokenCacheOK, Types
      <4> QED
        BY <4>1, <4>2
    <3> QED
      BY <1>2, <3>1 DEF TokenCacheOK
  <2>7. \A o \in Procs \ {p} : Stays(o)
    BY <2>1 DEF Stays, AccessInv, Types
  <2>8. req'[p] = r
    BY <2>1 DEF AccessInv, Types
  <2>9. /\ r.pc = at /\ r.user = u /\ r.token = t
        /\ r.op = req[p].op /\ r.fresh = req[p].fresh /\ r.dead = req[p].dead
    BY <1>1 DEF Request
  <2>10. now < lastRow[t] + TokenExpire + Interval
    BY <1>4, <1>6, <1>8
  <2>11. ~r.dead /\ (r.op = "none" => ~r.fresh) /\ r.user \in Users
    BY <1>1, <1>4, <1>8, <2>9 DEF RequestOK
  <2>12. RequestOK(p)'
    <3> HIDE DEF r
    <3> QED
      BY <1>2, <1>3, <2>8, <2>9, <2>10, <2>11 DEF RequestOK, Checked
  <2>13. Requests'
    BY <1>2, <2>3, <2>4, <2>7, <2>12, RequestsStep DEF AccessInv
  <2> QED
    BY <2>3, <2>4, <2>5, <2>6, <2>13 DEF AccessInv
<1> QED
  BY <1>7, <1>8

\* A step of a request that changes no table, no cache and no history
Quiet == UNCHANGED <<now, cleaned, row, perm, tokenCache, permCache, issued, gone, lastRow,
                     lastPerm, task>>

\* A request that is refused, or has had its reply
LEMMA EndKeeps ==
  ASSUME AccessAssumption, AccessInv, NEW p \in Procs, req' = [req EXCEPT ![p] = Idle], Quiet
  PROVE  AccessInv'
<1>1. ~Working(p)'
  BY DEF Working, Idle, AccessInv, Types
<1> QED
  BY <1>1, OnlyRequest DEF Quiet

\* A request that goes on with the same answer of the token
LEMMA GoOnKeeps ==
  ASSUME AccessAssumption, AccessInv, NEW p \in Procs, req[p].pc \in Checked,
         NEW pc \in Checked \ {"store"}, req[p].op # "none" \/ pc = "accepted",
         NEW have \in Perms \cup {None},
         req' = [req EXCEPT ![p] = [req[p] EXCEPT !.pc = pc, !.perm = have]], Quiet,
         pc = "entry" /\ ~req[p].freed =>
            have \in Perms /\ \A q \in Perms : Gives(have, q) => WasGiven(req[p], q),
         pc \in {"peer", "accepted"} /\ req[p].op # "none" /\ ~req[p].freed =>
            WasGiven(req[p], Needed(req[p].op))
  PROVE  AccessInv'
<1> DEFINE r == [req[p] EXCEPT !.pc = pc, !.perm = have]
<1>1. req[p] \in Request /\ RequestOK(p)
  BY RequestType DEF Working, AccessInv, Requests, Checked
<1>2. r \in Request
  BY <1>1 DEF Request
<1>3. req'[p] = r
  BY DEF AccessInv, Types
<1>4. /\ r.pc = pc /\ r.user = req[p].user /\ r.token = req[p].token /\ r.perm = have
      /\ r.op = req[p].op /\ r.fresh = req[p].fresh /\ r.dead = req[p].dead
      /\ r.freed = req[p].freed
  BY <1>1 DEF Request
<1>5. /\ req[p].op = "none" => ~req[p].fresh
      /\ ~req[p].dead
      /\ now < lastRow[req[p].token] + TokenExpire + Interval
      /\ req[p].op # "none" => req[p].user \in Users
  BY <1>1 DEF RequestOK, Checked
<1>6. \A q \in Perms : WasGiven(req[p], q) => WasGiven(req[p], q)'
  BY <1>3, <1>4 DEF WasGiven, Quiet
<1>7. Needed(req[p].op) \in Perms /\ Needed(req'[p].op) = Needed(req[p].op)
  BY <1>3, <1>4 DEF Needed, Perms
<1>8. pc \in {"peer", "accepted"} /\ req[p].op # "none" /\ ~req[p].freed =>
         WasGiven(req[p], Needed(req[p].op))'
  BY <1>6, <1>7 DEF WasGiven
<1>9. RequestOK(p)'
  <2> HIDE DEF r
  <2> QED
    BY <1>3, <1>4, <1>5, <1>6, <1>8 DEF RequestOK, Checked, Quiet
<1> QED
  BY <1>2, <1>9, OnlyRequest DEF Quiet

\* The permission check asks the tables, others the cache first.
LEMMA LookupKeeps ==
  ASSUME AccessAssumption, AccessInv, NEW p \in Procs, LookupPerm(p) PROVE AccessInv'
<1> DEFINE u == req[p].user
           e == permCache[u]
<1>1. /\ req[p] \in Request /\ req[p].pc = "perm" /\ RequestOK(p) /\ u \in Users
      /\ req[p].op # "none"
  <2>1. req[p] \in Request /\ req[p].pc = "perm" /\ RequestOK(p)
    BY RequestType DEF LookupPerm, Working, AccessInv, Requests
  <2> QED
    BY <2>1 DEF RequestOK, Checked
<1>2. Quiet
  BY DEF LookupPerm, Quiet, tables, history
<1>3. CASE ~req[p].fresh /\ e # None
  <2>1. /\ e.perm \in Perms
        /\ \A q \in Perms : Gives(e.perm, q) => now < lastPerm[u][q] + PermExpire + Interval
    BY <1>1, <1>3, PermHit DEF AccessInv
  <2>2. \A q \in Perms : Gives(e.perm, q) => WasGiven(req[p], q)
    BY <1>3, <2>1 DEF WasGiven
  <2>3. req' = [req EXCEPT ![p] = [req[p] EXCEPT !.pc = "entry", !.perm = e.perm]]
    BY <1>3 DEF LookupPerm, AccessInv, Types
  <2> QED
    BY <1>1, <1>2, <2>1, <2>2, <2>3, GoOnKeeps DEF Checked
<1>4. CASE req' = [req EXCEPT ![p] = Idle]
  BY <1>2, <1>4, EndKeeps
<1>5. CASE req' = [req EXCEPT ![p].pc = "read"]
  <2>1. req' = [req EXCEPT ![p] = [req[p] EXCEPT !.pc = "read", !.perm = req[p].perm]]
    <3>1. [req[p] EXCEPT !.pc = "read"] = [req[p] EXCEPT !.pc = "read", !.perm = req[p].perm]
      BY <1>1 DEF Request
    <3> QED
      BY <1>5, <3>1 DEF AccessInv, Types
  <2>2. req[p].perm \in Perms \cup {None}
    BY <1>1 DEF Request
  <2> QED
    BY <1>1, <1>2, <2>1, <2>2, GoOnKeeps DEF Checked
<1> QED
  BY <1>3, <1>4, <1>5 DEF LookupPerm, Answer, To

\* An entry that is not freed says what the tables said.
LEMMA UseEntryKeeps ==
  ASSUME AccessAssumption, AccessInv, NEW p \in Procs, UseEntry(p) PROVE AccessInv'
<1>1. /\ req[p] \in Request /\ req[p].pc = "entry" /\ RequestOK(p) /\ req[p].op # "none"
      /\ req[p].perm \in Perms \cup {None} /\ req[p].op \in Ops
  <2>1. req[p] \in Request /\ req[p].pc = "entry" /\ RequestOK(p)
    BY RequestType DEF UseEntry, Working, AccessInv, Requests
  <2> QED
    BY <2>1 DEF RequestOK, Checked, Request
<1>2. Quiet
  BY DEF UseEntry, Quiet, tables, history
<1>3. ~req[p].freed /\ ~Forbidden(req[p].perm, req[p].op) => WasGiven(req[p], Needed(req[p].op))
  <2>1. Needed(req[p].op) \in Perms
    BY DEF Needed, Perms
  <2>2. req[p].perm \in Perms /\ ~Forbidden(req[p].perm, req[p].op)
          => Gives(req[p].perm, Needed(req[p].op))
    BY DEF Forbidden, Gives, Needed, Perms
  <2> QED
    BY <1>1, <2>1, <2>2 DEF RequestOK
<1>4. CASE req' = [req EXCEPT ![p] = Idle]
  BY <1>2, <1>4, EndKeeps
<1>5. ASSUME NEW pc \in {"peer", "accepted"}, req' = [req EXCEPT ![p].pc = pc],
             req[p].freed \/ ~Forbidden(req[p].perm, req[p].op)
      PROVE  AccessInv'
  <2>1. req' = [req EXCEPT ![p] = [req[p] EXCEPT !.pc = pc, !.perm = req[p].perm]]
    <3>1. [req[p] EXCEPT !.pc = pc] = [req[p] EXCEPT !.pc = pc, !.perm = req[p].perm]
      BY <1>1 DEF Request
    <3> QED
      BY <1>5, <3>1 DEF AccessInv, Types
  <2>2. pc \in Checked \ {"store"} /\ req[p].pc \in Checked /\ pc # "entry"
    BY <1>1 DEF Checked
  <2>3. ~req[p].freed => WasGiven(req[p], Needed(req[p].op))
    BY <1>3, <1>5
  <2> QED
    BY <1>1, <1>2, <2>1, <2>2, <2>3, GoOnKeeps
<1>6. \/ req' = [req EXCEPT ![p] = Idle]
      \/ \E pc \in {"peer", "accepted"} :
           /\ req' = [req EXCEPT ![p].pc = pc]
           /\ req[p].freed \/ ~Forbidden(req[p].perm, req[p].op)
  <2>1. ASSUME NEW ok \in BOOLEAN, Answer(p, ok)
        PROVE  req' = [req EXCEPT ![p] = Idle] \/ (ok /\ req' = [req EXCEPT ![p].pc = "accepted"])
    BY <2>1 DEF Answer
  <2> QED
    BY <2>1 DEF UseEntry, To
<1> QED
  BY <1>4, <1>5, <1>6

\* The permission is read now.
LEMMA ReadPermKeeps ==
  ASSUME AccessAssumption, AccessInv, NEW p \in Procs, ReadPerm(p) PROVE AccessInv'
<1> DEFINE u == req[p].user
           r == [req[p] EXCEPT !.pc = "store", !.perm = perm[u]]
<1>1. /\ req[p] \in Request /\ req[p].pc = "read" /\ RequestOK(p) /\ u \in Users
      /\ req[p].op # "none" /\ ~req[p].dead
      /\ now < lastRow[req[p].token] + TokenExpire + Interval
  <2>1. req[p] \in Request /\ req[p].pc = "read" /\ RequestOK(p)
    BY RequestType DEF ReadPerm, Working, AccessInv, Requests
  <2> QED
    BY <2>1 DEF RequestOK, Checked
<1>2. req' = [req EXCEPT ![p] = r] /\ Quiet
  BY DEF ReadPerm, Quiet, tables, history, AccessInv, Types
<1>3. perm[u] \in Perms \cup {None}
  BY <1>1 DEF AccessInv, Types
<1>4. r \in Request
  BY <1>1, <1>3 DEF Request, Checked
<1>5. req'[p] = r
  BY <1>2 DEF AccessInv, Types
<1>6. /\ r.pc = "store" /\ r.perm = perm[u] /\ r.user = u /\ r.token = req[p].token
      /\ r.op = req[p].op /\ r.dead = req[p].dead
  BY <1>1 DEF Request
<1>7. perm[u] # None => \A q \in Perms : Gives(perm[u], q) => lastPerm[u][q] = now
  BY <1>1 DEF AccessInv, HistoryOK
<1>8. RequestOK(p)'
  <2> HIDE DEF r
  <2> QED
    BY <1>1, <1>2, <1>5, <1>6, <1>7 DEF RequestOK, Checked, Quiet
<1> QED
  BY <1>2, <1>4, <1>8, OnlyRequest DEF Quiet

\* A request that loses its entry is a request.
LEMMA FreedType ==
  ASSUME Types, NEW p \in Procs, req[p].pc = "entry"
  PROVE  [req[p] EXCEPT !.freed = TRUE] \in Request
<1>1. req[p] \in Request
  BY RequestType DEF Working
<1> QED
  BY <1>1 DEF Request

\* The answer of the tables is kept for PERM_EXPIRE_TIME; the requests that hold the
\* entry before it lose it.
LEMMA StorePermKeeps ==
  ASSUME AccessAssumption, AccessInv, NEW p \in Procs, StorePerm(p) PROVE AccessInv'
<1> DEFINE u == req[p].user
           have == req[p].perm
           entry == [perm |-> have, expire |-> now + PermExpire]
           r == IF have = None THEN Idle ELSE [req[p] EXCEPT !.pc = "entry"]
<1>1. /\ req[p] \in Request /\ req[p].pc = "store" /\ RequestOK(p) /\ u \in Users
      /\ req[p].op # "none" /\ ~req[p].dead /\ have \in Perms \cup {None}
      /\ now < lastRow[req[p].token] + TokenExpire + Interval
      /\ have # None => \A q \in Perms : Gives(have, q) => lastPerm[u][q] = now
  <2>1. req[p] \in Request /\ req[p].pc = "store" /\ RequestOK(p)
    BY RequestType DEF StorePerm, Working, AccessInv, Requests
  <2> QED
    BY <2>1 DEF RequestOK, Checked, Request
<1>2. /\ UNCHANGED <<now, cleaned, row, perm, tokenCache, issued, gone, lastRow, lastPerm, task>>
      /\ permCache' = [permCache EXCEPT ![u] = IF have = None THEN None ELSE entry]
  BY DEF StorePerm, tables, history
<1>3. now \in Nat /\ PermExpire \in Nat \ {0} /\ Interval \in Nat \ {0} /\ cleaned \in Nat /\ cleaned <= now
  BY DEF AccessInv, Types, AccessAssumption
<1>4. now + PermExpire \in Nat /\ cleaned < now + PermExpire /\ now < now + PermExpire + Interval
  BY <1>3
<1>5. r \in Request \cup {Idle}
  BY <1>1 DEF Request, Checked
<1>6. req'[p] = r /\ \A o \in Procs \ {p} : req'[o] = FreeEntry(u)[o]
  BY <1>1 DEF StorePerm, FreeEntry, AccessInv, Types
<1>7. \A o \in Procs \ {p} : Stays(o)
  BY <1>6 DEF Stays, FreeEntry
<1>8. req' \in [Procs -> Request \cup {Idle}]
  <2>1. \A o \in Procs : FreeEntry(u)[o] \in Request \cup {Idle}
    BY FreedType DEF FreeEntry, AccessInv, Types
  <2>2. FreeEntry(u) \in [Procs -> Request \cup {Idle}]
    BY <2>1 DEF FreeEntry
  <2>3. DOMAIN req' = Procs /\ req' = [o \in Procs |-> req'[o]]
    BY <2>2 DEF StorePerm
  <2>4. \A o \in Procs : req'[o] \in Request \cup {Idle}
    BY <1>5, <1>6, <2>2
  <2> QED
    BY <2>3, <2>4
<1>9. Types'
  <2>1. permCache' \in [Users -> {None} \cup [perm : Perms, expire : Nat]]
    BY <1>1, <1>2, <1>4 DEF AccessInv, Types
  <2> QED
    BY <1>2, <1>8, <2>1 DEF AccessInv, Types
<1>10. HistoryOK' /\ DeletionOK' /\ Forward
  BY <1>2, TablesStay DEF AccessInv
<1>11. TokenCacheOK'
  BY <1>2 DEF AccessInv, TokenCacheOK
<1>12. PermCacheOK'
  <2>1. ASSUME NEW k \in Users, permCache'[k] # None
        PROVE  /\ cleaned < permCache'[k].expire
               /\ \A q \in Perms : Gives(permCache'[k].perm, q) =>
                     permCache'[k].expire <= lastPerm[k][q] + PermExpire
    <3>1. CASE k = u
      <4>1. permCache'[k].expire = now + PermExpire /\ permCache'[k].perm = have /\ have # None
        BY <1>1, <1>2, <2>1, <3>1 DEF AccessInv, Types
      <4> QED
        BY <1>1, <1>3, <1>4, <3>1, <4>1
    <3>2. CASE k # u
      BY <1>2, <2>1, <3>2 DEF AccessInv, PermCacheOK, Types
    <3> QED
      BY <3>1, <3>2
  <2> QED
    BY <1>2, <2>1 DEF PermCacheOK
<1>13. ASSUME have # None PROVE RequestOK(p)'
  <2>1. /\ req'[p].pc = "entry" /\ req'[p].perm = have /\ req'[p].user = u
        /\ req'[p].token = req[p].token /\ req'[p].op = req[p].op
        /\ req'[p].fresh = req[p].fresh /\ req'[p].dead = req[p].dead
    BY <1>1, <1>6, <1>13 DEF Request
  <2>2. \A q \in Perms : Gives(have, q) => WasGiven(req[p], q)'
    BY <1>1, <1>2, <1>4, <1>13, <2>1 DEF WasGiven
  <2> QED
    BY <1>1, <1>2, <1>13, <2>1, <2>2 DEF RequestOK, Checked
<1>14. have = None => ~Working(p)'
  BY <1>6 DEF Working, Idle
<1>15. Requests'
  BY <1>2, <1>7, <1>9, <1>10, <1>13, <1>14, RequestsStep DEF AccessInv
<1> QED
  BY <1>9, <1>10, <1>11, <1>12, <1>15 DEF AccessInv

\* The device is noted, and the reply sent.
LEMMA LastSteps ==
  ASSUME AccessAssumption, AccessInv, NEW p \in Procs, NotePeer(p) \/ Reply(p) PROVE AccessInv'
<1>1. Quiet
  BY DEF NotePeer, Reply, Quiet, tables, history
<1>2. CASE Reply(p)
  BY <1>1, <1>2, EndKeeps DEF Reply
<1>3. CASE NotePeer(p)
  <2>1. req[p] \in Request /\ req[p].pc = "peer" /\ RequestOK(p)
    BY <1>3, RequestType DEF NotePeer, Working, AccessInv, Requests
  <2>2. req' = [req EXCEPT ![p] = [req[p] EXCEPT !.pc = "accepted", !.perm = req[p].perm]]
    <3>1. [req[p] EXCEPT !.pc = "accepted"] = [req[p] EXCEPT !.pc = "accepted", !.perm = req[p].perm]
      BY <2>1 DEF Request
    <3> QED
      BY <1>3, <3>1 DEF NotePeer, Answer, AccessInv, Types
  <2>3. req[p].perm \in Perms \cup {None} /\ req[p].pc \in Checked
    BY <2>1 DEF Request, Checked
  <2>4. req[p].op # "none" /\ ~req[p].freed => WasGiven(req[p], Needed(req[p].op))
    BY <2>1 DEF RequestOK
  <2>5. "accepted" \in Checked \ {"store"}
    BY DEF Checked
  <2> QED
    BY <1>1, <2>2, <2>3, <2>4, <2>5, GoOnKeeps
<1> QED
  BY <1>2, <1>3

-----------------------------------------------------------------------------
(* Users, administrators and time                                          *)

\* No request moves.
LEMMA RequestsWait ==
  ASSUME AccessAssumption, Types, Types', Requests, Forward, \A o \in Procs : Stays(o),
         \A o \in Procs : req[o].pc = "insert" /\ req[o].user # None => req[o].token \notin gone'
  PROVE  Requests'
<1> SUFFICES ASSUME NEW o \in Procs, Working(o)' PROVE RequestOK(o)'
  BY DEF Requests
<1>1. Stays(o) /\ Working(o)
  BY DEF Stays, Working, Types, Idle, Request
<1>2. RequestOK(o)
  BY <1>1 DEF Requests
<1> QED
  BY <1>1, <1>2, RequestStays

\* A request that is about to insert has found a row, so its token is not gone.
LEMMA InsertsAreNotGone ==
  ASSUME Types, Requests
  PROVE  \A o \in Procs : req[o].pc = "insert" /\ req[o].user # None => req[o].token \notin gone
  BY DEF Requests, RequestOK, Working

\* The times in the histories are times.
LEMMA HistoryTypes ==
  ASSUME Types
  PROVE  /\ now \in Nat
         /\ \A t \in Tokens : lastRow[t] \in Nat
         /\ \A u \in Users, q \in Perms : lastPerm[u][q] \in Nat
  BY DEF Types

\* A token that is given out is new.
LEMMA GenerateKeeps ==
  ASSUME AccessAssumption, AccessInv, NEW u \in Users, NEW t \in Tokens, GenerateToken(u, t)
  PROVE  AccessInv'
<1>1. /\ UNCHANGED <<now, cleaned, perm, tokenCache, permCache, req, task, gone, lastPerm>>
      /\ t \notin issued /\ issued' = issued \cup {t}
      /\ row' = [row EXCEPT ![t] = u] /\ lastRow' = [lastRow EXCEPT ![t] = now]
  BY DEF GenerateToken
<1>2. Types'
  BY <1>1 DEF AccessInv, Types
<1>3. /\ now \in Nat /\ \A k \in Tokens : lastRow[k] \in Nat /\ lastRow[k] <= now
      /\ \A k \in Tokens : lastRow'[k] = IF k = t THEN now ELSE lastRow[k]
      /\ \A k \in Tokens : row'[k] = IF k = t THEN u ELSE row[k]
  BY <1>1, HistoryTypes DEF AccessInv, HistoryOK, Types
<1>4. HistoryOK'
  BY <1>1, <1>3 DEF AccessInv, HistoryOK
<1>5. DeletionOK'
  BY <1>1, <1>3 DEF AccessInv, DeletionOK, Types, Deletion
<1>6. TokenCacheOK'
  <2>1. ASSUME NEW k \in Tokens, tokenCache[k] # None
        PROVE  /\ k \notin gone /\ cleaned < tokenCache[k].expire
               /\ tokenCache[k].expire <= lastRow'[k] + TokenExpire
    <3>1. /\ k \notin gone /\ cleaned < tokenCache[k].expire
          /\ tokenCache[k].expire <= lastRow[k] + TokenExpire /\ tokenCache[k].expire \in Nat
      BY <2>1 DEF AccessInv, TokenCacheOK, Types
    <3>2. lastRow[k] \in Nat /\ lastRow'[k] \in Nat /\ lastRow[k] <= lastRow'[k]
      BY <1>3
    <3>3. TokenExpire \in Nat
      BY DEF AccessAssumption
    <3> QED
      BY <3>1, <3>2, <3>3
  <2> QED
    BY <1>1, <2>1 DEF TokenCacheOK
<1>7. PermCacheOK'
  BY <1>1 DEF AccessInv, PermCacheOK
<1>8. Forward
  BY <1>1, <1>3, HistoryTypes DEF Forward, AccessInv, HistoryOK
<1>9. Requests'
  BY <1>1, <1>2, <1>8, RequestsWait, InsertsAreNotGone DEF AccessInv, Stays
<1> QED
  BY <1>2, <1>4, <1>5, <1>6, <1>7, <1>9 DEF AccessInv

\* A step of a deletion that leaves the cache alone
LEMMA TaskKeeps ==
  ASSUME AccessAssumption, AccessInv, Types',
         UNCHANGED <<now, cleaned, perm, tokenCache, permCache, req, issued, gone, lastRow, lastPerm>>,
         \A t \in Tokens : row'[t] # None => row'[t] = row[t],
         DeletionOK'
  PROVE  AccessInv'
<1>1. HistoryOK'
  BY DEF AccessInv, HistoryOK
<1>2. TokenCacheOK' /\ PermCacheOK'
  BY DEF AccessInv, TokenCacheOK, PermCacheOK
<1>3. Forward
  BY HistoryTypes DEF Forward, AccessInv, HistoryOK
<1>4. Requests'
  BY <1>3, RequestsWait, InsertsAreNotGone DEF AccessInv, Stays
<1> QED
  BY <1>1, <1>2, <1>4 DEF AccessInv

\* A deletion takes rows; it ends, early or late, without the caches.
LEMMA DeletionKeeps ==
  ASSUME AccessAssumption, AccessInv
  PROVE  /\ \A ts \in SUBSET Tokens, b \in BOOLEAN :
              Begin(ts, b) /\ (\A t \in ts : row[t] # None) => AccessInv'
         /\ DeleteRows => AccessInv'
         /\ DeletePeers => AccessInv'
         /\ DeletionFails => AccessInv'
         /\ DeleteRepo => AccessInv'
<1>1. ASSUME NEW ts \in SUBSET Tokens, NEW b \in BOOLEAN, Begin(ts, b), \A t \in ts : row[t] # None
      PROVE  AccessInv'
  <2>1. /\ UNCHANGED <<now, cleaned, row, perm, tokenCache, permCache, req, issued, gone, lastRow, lastPerm>>
        /\ task' = [pc |-> "rows", tokens |-> ts, invalidates |-> b]
    BY <1>1 DEF Begin, tables, history
  <2>2. ts \subseteq issued
    BY <1>1 DEF AccessInv, HistoryOK
  <2>3. Types'
    BY <2>1 DEF AccessInv, Types, Deletion
  <2>4. DeletionOK'
    BY <2>1, <2>2 DEF AccessInv, DeletionOK
  <2> QED
    BY <2>1, <2>3, <2>4, TaskKeeps
<1>2. ASSUME DeleteRows PROVE AccessInv'
  <2>1. /\ UNCHANGED <<now, cleaned, perm, tokenCache, permCache, req, issued, gone, lastRow, lastPerm>>
        /\ row' = [t \in Tokens |-> IF t \in task.tokens THEN None ELSE row[t]]
        /\ task' = [task EXCEPT !.pc = "peers"] /\ task.pc = "rows"
    BY <1>2 DEF DeleteRows, history
  <2>2. task \in Deletion
    BY <2>1 DEF AccessInv, Types
  <2>3. task' \in Deletion /\ task'.tokens = task.tokens /\ task'.pc = "peers"
    BY <2>1, <2>2 DEF Deletion
  <2>4. Types'
    BY <2>1, <2>3 DEF AccessInv, Types
  <2>5. DeletionOK'
    BY <2>1, <2>2, <2>3 DEF AccessInv, DeletionOK, Types, Deletion
  <2> QED
    BY <2>1, <2>4, <2>5, TaskKeeps
<1>3. ASSUME DeletePeers \/ DeletionFails PROVE AccessInv'
  <2>1. /\ UNCHANGED <<now, cleaned, row, perm, tokenCache, permCache, req, issued, gone, lastRow, lastPerm>>
        /\ \/ task' = [pc |-> "idle"]
           \/ task' = [task EXCEPT !.pc = "invalidate"] /\ task.pc = "peers"
    BY <1>3 DEF DeletePeers, DeletionFails, history, tables
  <2>2. task' = [pc |-> "idle"] \/
          (task \in Deletion /\ task.pc = "peers" /\ task' \in Deletion /\ task'.tokens = task.tokens)
    BY <2>1 DEF AccessInv, Types, Deletion
  <2>3. Types'
    BY <2>1, <2>2 DEF AccessInv, Types
  <2>4. DeletionOK'
    BY <2>1, <2>2 DEF AccessInv, DeletionOK
  <2> QED
    BY <2>1, <2>3, <2>4, TaskKeeps
<1>4. ASSUME DeleteRepo PROVE AccessInv'
  <2>1. /\ UNCHANGED <<now, cleaned, perm, tokenCache, permCache, req, task, issued, gone, lastRow, lastPerm>>
        /\ row' = [t \in Tokens |-> None]
    BY <1>4 DEF DeleteRepo, history
  <2>2. Types'
    BY <2>1 DEF AccessInv, Types
  <2>3. DeletionOK'
    BY <2>1 DEF AccessInv, DeletionOK, Types, Deletion
  <2> QED
    BY <2>1, <2>2, <2>3, TaskKeeps
<1> QED
  BY <1>1, <1>2, <1>3, <1>4

\* The tokens leave the cache together with a deletion's end. A request that read the row
\* of one before may still insert it: that token is not gone.
LEMMA InvalidateKeeps ==
  ASSUME AccessAssumption, AccessInv, InvalidateTokens PROVE AccessInv'
<1>1. /\ UNCHANGED <<now, cleaned, row, perm, permCache, req, issued, lastRow, lastPerm>>
      /\ task.pc = "invalidate" /\ task' = [pc |-> "idle"]
      /\ tokenCache' = [t \in Tokens |-> IF t \in task.tokens THEN None ELSE tokenCache[t]]
      /\ gone' = gone \cup {t \in task.tokens : ~Racing(t)}
  BY DEF InvalidateTokens, tables
<1>2. /\ task.tokens \subseteq issued /\ issued \in SUBSET Tokens
      /\ \A t \in task.tokens : row[t] = None
  BY <1>1 DEF AccessInv, DeletionOK, Types
<1>3. Types'
  <2>1. gone' \in SUBSET Tokens
    BY <1>1, <1>2 DEF AccessInv, Types
  <2> QED
    BY <1>1, <2>1 DEF AccessInv, Types
<1>4. HistoryOK'
  BY <1>1 DEF AccessInv, HistoryOK
<1>5. DeletionOK'
  BY <1>1, <1>2 DEF AccessInv, DeletionOK
<1>6. TokenCacheOK'
  BY <1>1 DEF AccessInv, TokenCacheOK
<1>7. PermCacheOK'
  BY <1>1 DEF AccessInv, PermCacheOK
<1>8. Forward
  BY <1>1, HistoryTypes DEF Forward, AccessInv, HistoryOK
<1>9. \A o \in Procs : req[o].pc = "insert" /\ req[o].user # None => req[o].token \notin gone'
  BY <1>1, InsertsAreNotGone DEF AccessInv, Racing
<1>10. Requests'
  BY <1>1, <1>3, <1>8, <1>9, RequestsWait DEF AccessInv, Stays
<1> QED
  BY <1>3, <1>4, <1>5, <1>6, <1>7, <1>10 DEF AccessInv

\* A permission that changes is one that was given until now.
LEMMA SetPermKeeps ==
  ASSUME AccessAssumption, AccessInv, NEW u \in Users, NEW q \in Perms \cup {None}, SetPerm(u, q)
  PROVE  AccessInv'
<1>1. /\ UNCHANGED <<now, cleaned, row, tokenCache, permCache, req, task, issued, gone, lastRow>>
      /\ perm' = [perm EXCEPT ![u] = q]
      /\ lastPerm' = [lastPerm EXCEPT ![u] =
             [r \in Perms |-> IF q # None /\ Gives(q, r) THEN now ELSE @[r]]]
  BY DEF SetPerm
<1>2. now \in Nat /\ lastPerm \in [Users -> [Perms -> Nat]] /\ perm \in [Users -> Perms \cup {None}]
  BY DEF AccessInv, Types
<1>3. /\ \A k \in Users, r \in Perms : lastPerm'[k][r] =
             IF k = u /\ q # None /\ Gives(q, r) THEN now ELSE lastPerm[k][r]
      /\ \A k \in Users : perm'[k] = IF k = u THEN q ELSE perm[k]
  BY <1>1, <1>2
<1>4. \A k \in Users, r \in Perms :
        /\ lastPerm[k][r] \in Nat /\ lastPerm'[k][r] \in Nat
        /\ lastPerm[k][r] <= lastPerm'[k][r] /\ lastPerm'[k][r] <= now
  BY <1>2, <1>3 DEF AccessInv, HistoryOK
<1>5. Types'
  <2>1. perm' \in [Users -> Perms \cup {None}]
    BY <1>1, <1>2
  <2>2. lastPerm' \in [Users -> [Perms -> Nat]]
    <3>1. [r \in Perms |-> IF q # None /\ Gives(q, r) THEN now ELSE lastPerm[u][r]] \in [Perms -> Nat]
      BY <1>2
    <3> QED
      BY <1>1, <1>2, <3>1
  <2> QED
    BY <1>1, <2>1, <2>2 DEF AccessInv, Types
<1>6. HistoryOK'
  BY <1>1, <1>3, <1>4 DEF AccessInv, HistoryOK
<1>7. DeletionOK' /\ TokenCacheOK'
  BY <1>1 DEF AccessInv, DeletionOK, TokenCacheOK
<1>8. PermCacheOK'
  <2>1. ASSUME NEW k \in Users, permCache[k] # None, NEW r \in Perms, Gives(permCache[k].perm, r)
        PROVE  permCache[k].expire <= lastPerm'[k][r] + PermExpire
    <3>1. permCache[k].expire <= lastPerm[k][r] + PermExpire
      BY <2>1 DEF AccessInv, PermCacheOK
    <3>2. permCache[k].expire \in Nat /\ PermExpire \in Nat
      BY <2>1 DEF AccessInv, Types, AccessAssumption
    <3> QED
      BY <1>4, <3>1, <3>2
  <2>2. \A k \in Users : permCache[k] # None => cleaned < permCache[k].expire
    BY DEF AccessInv, PermCacheOK
  <2> QED
    BY <1>1, <2>1, <2>2 DEF PermCacheOK
<1>9. Forward
  BY <1>1, <1>4, HistoryTypes DEF Forward, AccessInv, HistoryOK
<1>10. Requests'
  BY <1>1, <1>5, <1>9, RequestsWait, InsertsAreNotGone DEF AccessInv, Stays
<1> QED
  BY <1>5, <1>6, <1>7, <1>8, <1>10 DEF AccessInv

\* A step that touches nothing the invariant is about
LEMMA NothingKeeps ==
  ASSUME AccessAssumption, AccessInv,
         UNCHANGED <<now, cleaned, row, perm, tokenCache, permCache, req, task, history>>
  PROVE  AccessInv'
<1>1. UNCHANGED <<now, cleaned, row, perm, tokenCache, permCache, req, task, issued, gone, lastRow, lastPerm>>
  BY DEF history
<1> QED
  BY <1>1 DEF AccessInv, Types, HistoryOK, DeletionOK, TokenCacheOK, PermCacheOK, Requests,
              Working, RequestOK, WasGiven

\* What a cleaning leaves in a cache ends after it; what it frees is freed under the
\* requests that hold it.
LEMMA CleanKeeps ==
  ASSUME AccessAssumption, AccessInv, CleanCaches PROVE AccessInv'
<1>1. /\ UNCHANGED <<now, row, perm, task, issued, gone, lastRow, lastPerm>> /\ cleaned' = now
      /\ tokenCache' = [t \in Tokens |-> LeftToken(tokenCache[t])]
      /\ permCache' = [u \in Users |-> LeftPerm(permCache[u])]
      /\ req' = [p \in Procs |->
             IF req[p].pc = "entry" /\ Expired(permCache[req[p].user])
             THEN [req[p] EXCEPT !.freed = TRUE] ELSE req[p]]
  BY DEF CleanCaches, tables, history
<1>2. Types'
  <2>1. /\ tokenCache' \in [Tokens -> {None} \cup [email : Users, expire : Nat]]
        /\ permCache' \in [Users -> {None} \cup [perm : Perms, expire : Nat]]
    BY <1>1 DEF AccessInv, Types, LeftToken, LeftPerm
  <2>2. req' \in [Procs -> Request \cup {Idle}]
    BY <1>1, FreedType DEF AccessInv, Types
  <2>3. cleaned' \in Nat /\ cleaned' <= now' /\ now' <= cleaned' + Interval
    BY <1>1 DEF AccessInv, Types, AccessAssumption
  <2> QED
    BY <1>1, <2>1, <2>2, <2>3 DEF AccessInv, Types
<1>3. HistoryOK' /\ DeletionOK' /\ Forward
  BY <1>1, TablesStay DEF AccessInv
<1>4. TokenCacheOK'
  <2>1. ASSUME NEW t \in Tokens, tokenCache'[t] # None
        PROVE  /\ t \notin gone /\ now < tokenCache'[t].expire
               /\ tokenCache'[t].expire <= lastRow[t] + TokenExpire
    <3>1. tokenCache'[t] = tokenCache[t] /\ tokenCache[t] # None /\ ~(tokenCache[t].expire <= now)
      BY <1>1, <2>1 DEF LeftToken, Expired
    <3>2. tokenCache[t].expire \in Nat /\ now \in Nat
      BY <3>1 DEF AccessInv, Types
    <3> QED
      BY <3>1, <3>2 DEF AccessInv, TokenCacheOK
  <2> QED
    BY <1>1, <2>1 DEF TokenCacheOK
<1>5. PermCacheOK'
  <2>1. ASSUME NEW u \in Users, permCache'[u] # None
        PROVE  permCache'[u] = permCache[u] /\ permCache[u] # None /\ now < permCache[u].expire
    <3>1. permCache'[u] = permCache[u] /\ permCache[u] # None /\ ~(permCache[u].expire <= now)
      BY <1>1, <2>1 DEF LeftPerm, Expired
    <3>2. permCache[u].expire \in Nat /\ now \in Nat
      BY <3>1 DEF AccessInv, Types
    <3> QED
      BY <3>1, <3>2
  <2> QED
    BY <1>1, <2>1 DEF AccessInv, PermCacheOK
<1>6. Requests'
  <2>1. \A o \in Procs : Stays(o)
    BY <1>1 DEF Stays
  <2> QED
    BY <1>1, <1>2, <1>3, <2>1, RequestsWait, InsertsAreNotGone DEF AccessInv
<1> QED
  BY <1>2, <1>3, <1>4, <1>5, <1>6 DEF AccessInv

\* Time moves when no request is on its way, and not past the next cleaning.
LEMMA TickKeeps ==
  ASSUME AccessAssumption, AccessInv, Tick PROVE AccessInv'
<1>1. /\ UNCHANGED <<cleaned, row, perm, tokenCache, permCache, req, task, issued, gone>>
      /\ now < cleaned + Interval /\ now' = now + 1
      /\ task.pc = "idle" /\ \A p \in Procs : ~Working(p)
      /\ lastRow' = [t \in Tokens |-> IF row[t] # None THEN now' ELSE lastRow[t]]
      /\ lastPerm' = [u \in Users |-> [q \in Perms |->
             IF perm[u] # None /\ Gives(perm[u], q) THEN now' ELSE lastPerm[u][q]]]
  BY DEF Tick, tables, NoTask
<1>2. /\ now \in Nat /\ cleaned \in Nat /\ Interval \in Nat /\ cleaned <= now /\ now' \in Nat
      /\ cleaned <= now' /\ now' <= cleaned + Interval /\ now <= now'
  BY <1>1 DEF AccessInv, Types, AccessAssumption
<1>3. /\ \A t \in Tokens : lastRow[t] \in Nat /\ lastRow'[t] \in Nat
             /\ lastRow[t] <= lastRow'[t] /\ lastRow'[t] <= now'
      /\ \A u \in Users, q \in Perms : lastPerm[u][q] \in Nat /\ lastPerm'[u][q] \in Nat
             /\ lastPerm[u][q] <= lastPerm'[u][q] /\ lastPerm'[u][q] <= now'
  BY <1>1, <1>2, HistoryTypes DEF AccessInv, HistoryOK
<1>4. Types'
  <2>1. lastRow' \in [Tokens -> Nat]
    BY <1>1, <1>3
  <2>2. lastPerm' \in [Users -> [Perms -> Nat]]
    <3>1. \A u \in Users : [q \in Perms |-> IF perm[u] # None /\ Gives(perm[u], q)
                               THEN now' ELSE lastPerm[u][q]] \in [Perms -> Nat]
      BY <1>2, HistoryTypes DEF AccessInv
    <3> QED
      BY <1>1, <3>1
  <2> QED
    BY <1>1, <1>2, <2>1, <2>2 DEF AccessInv, Types
<1>5. HistoryOK'
  BY <1>1, <1>3 DEF AccessInv, HistoryOK
<1>6. DeletionOK'
  BY <1>1 DEF AccessInv, DeletionOK
<1>7. TokenCacheOK'
  <2>1. ASSUME NEW t \in Tokens, tokenCache[t] # None
        PROVE  /\ t \notin gone /\ cleaned < tokenCache[t].expire
               /\ tokenCache[t].expire <= lastRow'[t] + TokenExpire
    <3>1. /\ t \notin gone /\ cleaned < tokenCache[t].expire
          /\ tokenCache[t].expire <= lastRow[t] + TokenExpire /\ tokenCache[t].expire \in Nat
      BY <2>1 DEF AccessInv, TokenCacheOK, Types
    <3>2. lastRow[t] \in Nat /\ lastRow'[t] \in Nat /\ lastRow[t] <= lastRow'[t]
      BY <1>3
    <3>3. TokenExpire \in Nat
      BY DEF AccessAssumption
    <3> QED
      BY <3>1, <3>2, <3>3
  <2> QED
    BY <1>1, <2>1 DEF TokenCacheOK
<1>8. PermCacheOK'
  <2>1. ASSUME NEW k \in Users, permCache[k] # None, NEW r \in Perms, Gives(permCache[k].perm, r)
        PROVE  permCache[k].expire <= lastPerm'[k][r] + PermExpire
    <3>1. permCache[k].expire <= lastPerm[k][r] + PermExpire
      BY <2>1 DEF AccessInv, PermCacheOK
    <3>2. permCache[k].expire \in Nat /\ PermExpire \in Nat
      BY <2>1 DEF AccessInv, Types, AccessAssumption
    <3>3. lastPerm[k][r] \in Nat /\ lastPerm'[k][r] \in Nat /\ lastPerm[k][r] <= lastPerm'[k][r]
      BY <1>3
    <3> QED
      BY <3>1, <3>2, <3>3
  <2>2. \A k \in Users : permCache[k] # None => cleaned < permCache[k].expire
    BY DEF AccessInv, PermCacheOK
  <2> QED
    BY <1>1, <2>1, <2>2 DEF PermCacheOK
<1>9. Requests'
  BY <1>1 DEF Requests, Working
<1> QED
  BY <1>4, <1>5, <1>6, <1>7, <1>8, <1>9 DEF AccessInv

-----------------------------------------------------------------------------
(* The whole                                                               *)

\* The caches are empty at first.
LEMMA AccessStarts == ASSUME AccessAssumption, Init PROVE AccessInv
<1>1. /\ now = 0 /\ cleaned = 0 /\ gone = {} /\ task = [pc |-> "idle"] /\ issued \in {{}, Tokens}
      /\ row \in [Tokens -> IF issued = {} THEN {None} ELSE Users]
      /\ perm \in [Users -> Perms]
      /\ tokenCache = [t \in Tokens |-> None] /\ permCache = [u \in Users |-> None]
      /\ req = [p \in Procs |-> Idle]
      /\ lastRow = [t \in Tokens |-> 0] /\ lastPerm = [u \in Users |-> [q \in Perms |-> 0]]
  BY DEF Init
<1>2. Types
  <2>1. lastPerm \in [Users -> [Perms -> Nat]] /\ lastRow \in [Tokens -> Nat]
    BY <1>1
  <2>2. row \in [Tokens -> Users \cup {None}] /\ perm \in [Users -> Perms \cup {None}]
    BY <1>1
  <2>3. now \in Nat /\ cleaned \in Nat /\ cleaned <= now /\ now <= cleaned + Interval
    BY <1>1 DEF AccessAssumption
  <2>4. /\ tokenCache \in [Tokens -> {None} \cup [email : Users, expire : Nat]]
        /\ permCache \in [Users -> {None} \cup [perm : Perms, expire : Nat]]
        /\ req \in [Procs -> Request \cup {Idle}]
    BY <1>1
  <2>5. issued \in SUBSET Tokens /\ gone \in SUBSET Tokens /\ task \in {[pc |-> "idle"]} \cup Deletion
    BY <1>1
  <2> QED
    BY <2>1, <2>2, <2>3, <2>4, <2>5 DEF Types
<1>3. HistoryOK
  <2>1. ASSUME NEW t \in Tokens, row[t] # None PROVE t \in issued
    BY <1>1, <2>1
  <2>2. /\ \A t \in Tokens : lastRow[t] = now /\ lastRow[t] <= now
        /\ \A u \in Users, q \in Perms : lastPerm[u][q] = now /\ lastPerm[u][q] <= now
    BY <1>1
  <2> QED
    BY <2>1, <2>2 DEF HistoryOK
<1>4. DeletionOK
  BY <1>1 DEF DeletionOK
<1>5. TokenCacheOK /\ PermCacheOK
  BY <1>1 DEF TokenCacheOK, PermCacheOK
<1>6. Requests
  BY <1>1 DEF Requests, Working, Idle
<1> QED
  BY <1>2, <1>3, <1>4, <1>5, <1>6 DEF AccessInv

\* Every step keeps the invariant.
LEMMA AccessGoesOn == ASSUME AccessAssumption, AccessInv, [Next]_vars PROVE AccessInv'
<1>1. CASE UNCHANGED vars
  BY <1>1, NothingKeeps DEF vars, tables
<1>2. CASE \E p \in Procs, t \in Tokens, op \in {"none", "download", "upload"},
             fresh \in BOOLEAN, id \in Peers \cup {None} : Start(p, t, op, fresh, id)
  BY <1>2, StartKeeps DEF Ops
<1>3. ASSUME NEW p \in Procs, Step(p) PROVE AccessInv'
  BY <1>3, QueryKeeps, KeepTokenKeeps, LookupKeeps, UseEntryKeeps, ReadPermKeeps, StorePermKeeps,
     LastSteps DEF Step
<1>4. ASSUME NEW u \in Users, NEW t \in Tokens, GenerateToken(u, t) PROVE AccessInv'
  BY <1>4, GenerateKeeps
<1>5. ASSUME NEW u \in Users, NEW t \in Tokens, DeleteToken(u, t) PROVE AccessInv'
  <2>1. {t} \in SUBSET Tokens /\ TRUE \in BOOLEAN /\ (\A k \in {t} : row[k] # None)
    BY <1>5 DEF DeleteToken, AccessAssumption
  <2> QED
    BY <1>5, <2>1, DeletionKeeps DEF DeleteToken
<1>6. ASSUME NEW u \in Users, NEW id \in Peers, DeleteByPeer(u, id) PROVE AccessInv'
  <2>1. /\ TokensOfPeer(u, id) \in SUBSET Tokens
        /\ \A k \in TokensOfPeer(u, id) : row[k] # None
    BY DEF TokensOfPeer, AccessAssumption
  <2> QED
    BY <1>6, <2>1, DeletionKeeps DEF DeleteByPeer
<1>7. ASSUME NEW u \in Users, DeleteByEmail(u) PROVE AccessInv'
  <2>1. TokensOfEmail(u) \in SUBSET Tokens /\ \A k \in TokensOfEmail(u) : row[k] # None
    BY DEF TokensOfEmail, AccessAssumption
  <2> QED
    BY <1>7, <2>1, DeletionKeeps DEF DeleteByEmail
<1>8. CASE FsckDeletesTokens
  <2> DEFINE ts == {t \in Tokens : row[t] # None}
  <2>1. ts \in SUBSET Tokens /\ FALSE \in BOOLEAN /\ \A t \in ts : row[t] # None
    OBVIOUS
  <2>2. Begin(ts, FALSE)
    BY <1>8 DEF FsckDeletesTokens
  <2> HIDE DEF ts
  <2> QED
    BY <2>1, <2>2, DeletionKeeps
<1>9. CASE DeleteRows \/ DeletePeers \/ DeletionFails \/ DeleteRepo
  BY <1>9, DeletionKeeps
<1>10. CASE InvalidateTokens
  BY <1>10, InvalidateKeeps
<1>11. ASSUME NEW u \in Users, NEW q \in Perms \cup {None}, SetPerm(u, q) PROVE AccessInv'
  BY <1>11, SetPermKeeps
<1>12. CASE \E s \in {"normal", "read-only"} : SetRepoStatus(s)
  BY <1>12, NothingKeeps DEF SetRepoStatus
<1>13. CASE CleanCaches
  BY <1>13, CleanKeeps
<1>14. CASE Tick
  BY <1>14, TickKeeps
<1> QED
  BY <1>1, <1>2, <1>3, <1>4, <1>5, <1>6, <1>7, <1>8, <1>9, <1>10, <1>11, <1>12, <1>13, <1>14 DEF Next

\* What the invariant says of an accepted request
LEMMA AccessInvIsEnough == ASSUME AccessInv PROVE AccessEnds
<1>1. ASSUME NEW p \in Procs, req[p].pc = "accepted"
      PROVE  req[p] \in Request /\ RequestOK(p)
  BY <1>1, RequestType DEF AccessInv, Requests, Working
<1>2. RevocationEnds
  BY <1>1 DEF RevocationEnds, RequestOK, Checked, Request
<1>3. PermissionWasGiven
  <2>1. ASSUME NEW p \in Procs, req[p].pc = "accepted", req[p].op # "none", ~req[p].freed
        PROVE  WasGiven(req[p], Needed(req[p].op))
    BY <1>1, <2>1 DEF RequestOK
  <2> QED
    BY <2>1 DEF PermissionWasGiven, WasGiven, Needed
<1> QED
  BY <1>2, <1>3 DEF AccessEnds

\* Unlinking a device, taking a permission back, deleting a library: whatever the caches
\* held, access ends within the expiry of an entry and one cleaning, for any number of
\* users, tokens and threads (validate_token, check_permission, remove_expire_cache_cb).
THEOREM AccessEndsInTime == ASSUME AccessAssumption PROVE Spec => []AccessEnds
<1>1. Init => AccessInv
  BY AccessStarts
<1>2. AccessInv /\ [Next]_vars => AccessInv'
  BY AccessGoesOn
<1>3. AccessInv => AccessEnds
  BY AccessInvIsEnough
<1> QED
  BY <1>1, <1>2, <1>3, PTL DEF Spec
=============================================================================
