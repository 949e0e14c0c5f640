--------------------------- MODULE SharingProofs ---------------------------
(***************************************************************************)
(* The owner of a library sees every share of it, the three checks of a        *)
(* permission agree, and the change of an id moves every permission: for any  *)
(* accounts, libraries, directories and groups, and any number of requests.   *)
(***************************************************************************)
EXTENDS Sharing, SequenceTheorems, WellFoundedInduction, TLAPS

Types ==
    /\ owner \in [Repos -> Accounts \cup {Nothing}]
    /\ vinfo \in [VRepos -> {Nothing} \cup [origin : Libs, path : Dirs]]
    /\ live \subseteq Repos /\ Libs \subseteq live
    /\ shared \in Seq(ShareRow)

TaskOK ==
    \/ change = NoChange
    \/ /\ change.kind = "owner"
       /\ change = [kind |-> "owner", pc |-> change.pc, repo |-> change.repo, vrepos |-> change.vrepos]
       /\ change.pc \in {"shares", "groups", "public", "list", "remove", "rows"}
       /\ change.repo \in Libs /\ change.vrepos \subseteq VRepos
    \/ /\ change.kind = "id"
       /\ change = [kind |-> "id", pc |-> change.pc, old |-> change.old, new |-> change.new,
                  at |-> change.at, had |-> change.had, fresh |-> change.fresh]
       /\ change.pc \in {"from", "to", "member", "account", "failed"}
       /\ change.old \in Accounts /\ change.new \in Accounts /\ change.old # change.new

\* The repos whose shares the change of an owner is yet to delete: the library, and
\* the virtual repos of its directories, of which it makes a list.
Excused(r) ==
    /\ change.kind = "owner"
    /\ \/ change.pc = "shares" /\ r = change.repo
       \/ /\ change.pc \in {"shares", "groups", "public", "list"}
          /\ IsVirtual(r) /\ vinfo[r].origin = change.repo
       \/ change.pc = "remove" /\ r \in change.vrepos

\* The change of an id reaches the owners before the shares.
OwnerName(u) ==
    IF change.kind = "id" /\ change.pc = "from" THEN Renamed(u, change.old, change.new) ELSE u

Failed == change.kind = "id" /\ change.pc = "failed"

\* The shares are of repos that are there, by their owners;
RowsOK ==
    \A s \in Range(shared) :
        /\ s.repo \in live
        /\ Failed \/ Excused(s.repo) \/ OwnerName(s.from) = owner[s.repo]

\* a virtual repo belongs to the owner of the library, who shares it;
DirsOK ==
    \A v \in VRepos :
        IsVirtual(v) /\ v \in live /\ ~Excused(v) => owner[v] = owner[vinfo[v].origin]

\* and nothing belongs to an id that is being replaced.
IdOK == change.kind = "id" /\ change.pc = "from" => \A r \in Repos : owner[r] # change.old

OwnersInv == Types /\ TaskOK /\ RowsOK /\ DirsOK /\ IdOK

----------------------------------------------------------------------------
\* The rows that a query finds or leaves

\* INSERT adds its row.
LEMMA AppendRows ==
    ASSUME NEW S, NEW rows \in Seq(S), NEW s \in S
    PROVE  Append(rows, s) \in Seq(S) /\ Range(Append(rows, s)) = Range(rows) \cup {s}
<1>1. /\ Append(rows, s) \in Seq(S) /\ DOMAIN Append(rows, s) = 1..(Len(rows) + 1)
      /\ \A i \in 1..(Len(rows) + 1) :
            Append(rows, s)[i] = IF i = Len(rows) + 1 THEN s ELSE rows[i]
    OBVIOUS
<1>2. Len(rows) \in Nat /\ DOMAIN rows = 1..Len(rows)
    OBVIOUS
<1> QED
    BY <1>1, <1>2 DEF Range

\* The equation of the recursive function in Where()
Table(f, rows, those, m) ==
    [n \in 0..m |-> IF n = 0 THEN << >>
                    ELSE IF rows[n] \in those THEN Append(f[n - 1], rows[n])
                    ELSE f[n - 1]]

\* It has a solution for every number of rows.
LEMMA KeptExists ==
    ASSUME NEW rows, NEW those, NEW m \in Nat
    PROVE  \E f : f = Table(f, rows, those, m)
<1> USE DEF Table
<1> DEFINE Row(f, n) == IF n = 0 THEN << >>
                        ELSE IF rows[n] \in those THEN Append(f[n - 1], rows[n])
                        ELSE f[n - 1]
           Is(f, k) == f = [n \in 0..k |-> Row(f, n)]
           None_ == {k \in Nat : ~\E f : Is(f, k)}
<1>1. SUFFICES None_ = {}
    OBVIOUS
<1>2. SUFFICES ASSUME None_ # {} PROVE FALSE
    OBVIOUS
<1>3. PICK k \in None_ : \A y \in None_ : ~(<<y, k>> \in OpToRel(<, Nat))
    <2>1. None_ \subseteq Nat
        OBVIOUS
    <2> HIDE DEF None_
    <2> QED
        BY <1>2, <2>1, WFMin, NatLessThanWellFounded
<1>4. \A y \in Nat : y < k => y \notin None_
    BY <1>3 DEF OpToRel
<1>5. k # 0
    <2>1. Is([n \in 0..0 |-> << >>], 0)
        OBVIOUS
    <2> QED
        BY <2>1
<1>6. PICK f : Is(f, k - 1)
    <2>1. k - 1 \in Nat /\ k - 1 < k
        BY <1>5
    <2>2. k - 1 \notin None_
        <3> HIDE DEF None_
        <3> QED
            BY <1>4, <2>1
    <2> QED
        BY <2>1, <2>2
<1>7. DOMAIN f = 0..(k - 1) /\ \A n \in 0..(k - 1) : f[n] = Row(f, n)
    BY <1>6
<1> DEFINE g == [n \in 0..k |-> IF n = k THEN Row(f, k) ELSE f[n]]
<1>8. \A n \in 0..k : g[n] = Row(g, n)
    <2> SUFFICES ASSUME NEW n \in 0..k PROVE g[n] = Row(g, n)
        OBVIOUS
    <2>1. n # 0 => n - 1 \in 0..k /\ n - 1 # k /\ g[n - 1] = f[n - 1]
        BY <1>5
    <2>2. CASE n = k
        BY <2>1, <2>2, <1>5
    <2>3. CASE n # k
        <3>1. n \in 0..(k - 1)
            BY <2>3
        <3>2. f[n] = Row(f, n) /\ g[n] = f[n]
            BY <1>7, <2>3, <3>1
        <3>3. Row(g, n) = Row(f, n)
            <4> HIDE DEF g
            <4> QED
                BY <2>1
        <3> QED
            BY <3>2, <3>3
    <2> QED
        BY <2>2, <2>3
<1>9. Is(g, k)
    <2> DEFINE h == [n \in 0..k |-> Row(g, n)]
    <2>1. DOMAIN g = 0..k /\ DOMAIN h = 0..k /\ \A n \in 0..k : g[n] = h[n]
        BY <1>8
    <2>2. g = h
        <3> g = [n \in 0..k |-> g[n]] /\ h = [n \in 0..k |-> h[n]]
            OBVIOUS
        <3> HIDE DEF g, h
        <3> QED
            BY <2>1
    <2> QED
        BY <2>2
<1> QED
    BY <1>9

\* SELECT finds just the rows that are asked for.
LEMMA WhereRows ==
    ASSUME NEW S, NEW rows \in Seq(S), NEW those
    PROVE  /\ Where(rows, those) \in Seq(S)
           /\ Range(Where(rows, those)) = Range(rows) \cap those
<1> DEFINE m == Len(rows)
           kept == CHOOSE f : f = Table(f, rows, those, m)
           Good(n) == /\ kept[n] \in Seq(S)
                      /\ Range(kept[n]) = {rows[i] : i \in 1..n} \cap those
           Bad == {n \in 0..m : ~Good(n)}
<1>1. m \in Nat
    OBVIOUS
<1>2. kept = Table(kept, rows, those, m)
    BY <1>1, KeptExists
<1>3. \A n \in 0..m : kept[n] = IF n = 0 THEN << >>
                                ELSE IF rows[n] \in those THEN Append(kept[n - 1], rows[n])
                                ELSE kept[n - 1]
    <2> HIDE DEF kept
    <2> QED
        BY <1>2 DEF Table
<1>4. Where(rows, those) = kept[m]
    BY DEF Where, Table
<1> HIDE DEF kept
<1>5. Bad = {}
    <2> SUFFICES ASSUME Bad # {} PROVE FALSE
        OBVIOUS
    <2>1. PICK k \in Bad : \A y \in Bad : ~(<<y, k>> \in OpToRel(<, Nat))
        <3>1. Bad \subseteq Nat
            BY <1>1
        <3> HIDE DEF Bad
        <3> QED
            BY <3>1, WFMin, NatLessThanWellFounded
    <2>2. k \in 0..m /\ \A y \in Bad : ~(y < k)
        <3>1. k \in 0..m /\ Bad \subseteq Nat
            BY <1>1
        <3> HIDE DEF Bad
        <3> QED
            BY <2>1, <3>1, <1>1 DEF OpToRel
    <2>3. k # 0
        <3>1. 0 \in 0..m
            BY <1>1
        <3>2. kept[0] = << >>
            BY <1>3, <3>1
        <3>3. << >> \in Seq(S) /\ Range(<< >>) = {} /\ {rows[i] : i \in 1..0} = {}
            BY DEF Range
        <3>4. Good(0)
            BY <3>2, <3>3
        <3> QED
            BY <2>1, <3>4
    <2>4. k - 1 \in 0..m /\ Good(k - 1)
        <3>1. k - 1 \in 0..m /\ k - 1 < k
            BY <2>2, <2>3, <1>1
        <3> HIDE DEF Good
        <3> QED
            BY <2>2, <3>1
    <2>5. k \in 1..m /\ rows[k] \in S
        BY <2>2, <2>3, <1>1
    <2>6. {rows[i] : i \in 1..k} = {rows[i] : i \in 1..(k - 1)} \cup {rows[k]}
        <3>1. 1..k = (1..(k - 1)) \cup {k}
            BY <2>5, <1>1
        <3> QED
            BY <3>1
    <2>7. Good(k)
        <3>1. CASE rows[k] \notin those
            <4>1. kept[k] = kept[k - 1]
                BY <3>1, <2>2, <2>3, <1>3
            <4> QED
                BY <3>1, <4>1, <2>4, <2>6
        <3>2. CASE rows[k] \in those
            <4> DEFINE q == kept[k - 1]
            <4>1. kept[k] = Append(q, rows[k])
                BY <3>2, <2>2, <2>3, <1>3
            <4>2. q \in Seq(S) /\ Range(q) = {rows[i] : i \in 1..(k - 1)} \cap those
                BY <2>4
            <4> HIDE DEF q
            <4>3. Append(q, rows[k]) \in Seq(S) /\ Range(Append(q, rows[k])) = Range(q) \cup {rows[k]}
                BY <4>2, <2>5, AppendRows
            <4> QED
                BY <3>2, <4>1, <4>2, <4>3, <2>6
        <3> QED
            BY <3>1, <3>2
    <2> QED
        BY <2>1, <2>7
<1>6. Good(m)
    <2>1. m \in 0..m
        BY <1>1
    <2> HIDE DEF Good
    <2> QED
        BY <1>5, <2>1
<1>7. {rows[i] : i \in 1..m} = Range(rows)
    BY DEF Range
<1> QED
    BY <1>4, <1>6, <1>7

\* DELETE leaves rows of the table, and none that it is to delete.
LEMMA WithoutRows ==
    ASSUME NEW S, NEW rows \in Seq(S), NEW these
    PROVE  /\ Without(rows, these) \in Seq(S)
           /\ \A s \in Range(Without(rows, these)) : s \in Range(rows) /\ s \notin these
BY WhereRows DEF Without

\* UPDATE changes permissions, and neither whose nor which share it is.
LEMMA UpdatedRows ==
    ASSUME NEW rows \in Seq(ShareRow), NEW these, NEW p \in Rights
    PROVE  /\ Updated(rows, these, p) \in Seq(ShareRow)
           /\ \A s \in Range(Updated(rows, these, p)) :
                 \E t \in Range(rows) : s.repo = t.repo /\ s.from = t.from
<1> DEFINE new == Updated(rows, these, p)
<1>1. rows \in [1..Len(rows) -> ShareRow] /\ Len(rows) \in Nat
    OBVIOUS
<1>2. \A i \in 1..Len(rows) :
        new[i] \in ShareRow /\ new[i].repo = rows[i].repo /\ new[i].from = rows[i].from
    BY <1>1 DEF Updated, ShareRow
<1>3. new = [i \in 1..Len(rows) |-> new[i]] /\ DOMAIN new = 1..Len(rows)
    BY <1>1 DEF Updated
<1> HIDE DEF new
<1>4. new \in [1..Len(rows) -> ShareRow]
    BY <1>2, <1>3
<1>5. new \in Seq(ShareRow)
    BY <1>1, <1>4, SeqDef
<1>6. \A s \in Range(new) : \E t \in Range(rows) : s.repo = t.repo /\ s.from = t.from
    BY <1>1, <1>2, <1>3 DEF Range
<1> QED
    BY <1>5, <1>6 DEF new

----------------------------------------------------------------------------
\* The steps

\* Nothing but shares by the same owners is left, and owners and repos stay.
LEMMA SameOwners ==
    ASSUME OwnersInv, UNCHANGED <<owner, vinfo, live, change>>, shared' \in Seq(ShareRow),
           \A s \in Range(shared') :
              \E t \in Range(shared) : s.repo = t.repo /\ s.from = t.from
    PROVE  OwnersInv'
<1>1. Types' /\ TaskOK'
    BY DEF OwnersInv, Types, TaskOK
<1>2. \A r : Excused(r)' = Excused(r)
    BY DEF Excused, IsVirtual
<1>3. \A u : OwnerName(u)' = OwnerName(u)
    BY DEF OwnerName
<1>4. RowsOK'
    <2> SUFFICES ASSUME NEW s \in Range(shared')
                 PROVE  s.repo \in live
                        /\ (Failed \/ Excused(s.repo) \/ OwnerName(s.from) = owner[s.repo])
        BY <1>2, <1>3 DEF RowsOK, Failed
    <2>1. PICK t \in Range(shared) : s.repo = t.repo /\ s.from = t.from
        OBVIOUS
    <2> QED
        BY <2>1 DEF OwnersInv, RowsOK
<1>5. DirsOK' /\ IdOK'
    BY <1>2 DEF OwnersInv, DirsOK, IdOK, IsVirtual
<1> QED
    BY <1>1, <1>4, <1>5 DEF OwnersInv

\* The same, with no change of shares.
LEMMA SameShares ==
    ASSUME OwnersInv, UNCHANGED <<owner, vinfo, live, shared, change>>
    PROVE  OwnersInv'
<1>1. shared' \in Seq(ShareRow) /\ shared' = shared
    BY DEF OwnersInv, Types
<1> QED
    BY <1>1, SameOwners

\* Requests that delete or change shares.
LEMMA ChangeShares ==
    ASSUME OwnersInv, NEW these, NEW p \in Rights,
           OnShares(Without(shared, these)) \/ OnShares(Updated(shared, these, p))
    PROVE  OwnersInv'
<1>1. UNCHANGED <<owner, vinfo, live, change>>
    BY DEF OnShares
<1>2. shared \in Seq(ShareRow)
    BY DEF OwnersInv, Types
<1>3. CASE OnShares(Without(shared, these))
    <2>1. /\ shared' \in Seq(ShareRow)
          /\ \A s \in Range(shared') : s \in Range(shared)
        BY <1>2, <1>3, WithoutRows DEF OnShares
    <2> QED
        BY <1>1, <2>1, SameOwners
<1>4. CASE OnShares(Updated(shared, these, p))
    <2>1. /\ shared' \in Seq(ShareRow)
          /\ \A s \in Range(shared') :
                \E t \in Range(shared) : s.repo = t.repo /\ s.from = t.from
        BY <1>2, <1>4, UpdatedRows DEF OnShares
    <2> QED
        BY <1>1, <2>1, SameOwners
<1> QED
    BY <1>3, <1>4

\* A new row of SharedRepo
LEMMA WithShareRows ==
    ASSUME shared \in Seq(ShareRow), NEW r \in Repos, NEW from \in Accounts \cup {Nothing},
           NEW to \in Accounts, NEW p \in Rights
    PROVE  /\ WithShare(r, from, to, p) \in Seq(ShareRow)
           /\ \A s \in Range(WithShare(r, from, to, p)) :
                 s \in Range(shared) \/ (s.repo = r /\ s.from = from)
<1>1. [repo |-> r, from |-> from, to |-> to, perm |-> p] \in ShareRow
    BY DEF ShareRow
<1> QED
    BY <1>1, AppendRows DEF WithShare

\* An owner shares a repo.
LEMMA AddShareInv ==
    ASSUME OwnersInv, NEW r \in Repos, NEW to \in Accounts, NEW p \in Rights, AddShare(r, to, p)
    PROVE  OwnersInv'
<1>1. r \in live /\ UNCHANGED <<owner, vinfo, live, change>>
      /\ shared' = WithShare(r, owner[r], to, p)
    BY DEF AddShare, OnShares
<1>2. shared \in Seq(ShareRow) /\ owner[r] \in Accounts \cup {Nothing}
    BY DEF OwnersInv, Types
<1>3. /\ shared' \in Seq(ShareRow)
      /\ \A s \in Range(shared') :
            s \in Range(shared) \/ (s.repo = r /\ s.from = owner[r])
    BY <1>1, <1>2, WithShareRows
<1>4. OwnerName(owner[r]) = owner[r]
    BY DEF OwnersInv, IdOK, OwnerName, Renamed
<1>5. Types' /\ TaskOK' /\ DirsOK' /\ IdOK'
    BY <1>1, <1>3 DEF OwnersInv, Types, TaskOK, DirsOK, IdOK, Excused, IsVirtual
<1>6. (\A q : Excused(q)' = Excused(q)) /\ (\A u : OwnerName(u)' = OwnerName(u))
      /\ Failed' = Failed
    BY <1>1 DEF Excused, IsVirtual, OwnerName, Failed
<1>7. RowsOK'
    BY <1>1, <1>3, <1>4, <1>6 DEF OwnersInv, RowsOK
<1> QED
    BY <1>5, <1>7 DEF OwnersInv

\* A directory becomes a virtual repo, or is one; its owner may share it.
LEMMA CreateInv ==
    ASSUME SharingAssumption, OwnersInv, NEW v \in VRepos, NEW l \in Libs, NEW dir \in Dirs,
           CreateVirtualRepo(v, l, dir), change' = change, shared' \in Seq(ShareRow),
           \A s \in Range(shared') :
              s \in Range(shared) \/ (s.repo = v /\ s.from = owner[l])
    PROVE  OwnersInv'
<1> DEFINE dirOf == [origin |-> l, path |-> dir]
<1>1. /\ v \in VirtualFor(l, dir)
      /\ vinfo' = [vinfo EXCEPT ![v] = dirOf]
      /\ live' = live \cup {v}
      /\ owner' = [owner EXCEPT ![v] = IF v \in live THEN owner[v] ELSE owner[l]]
    BY DEF CreateVirtualRepo
<1>2. /\ owner \in [Repos -> Accounts \cup {Nothing}]
      /\ vinfo \in [VRepos -> {Nothing} \cup [origin : Libs, path : Dirs]]
      /\ live \subseteq Repos /\ Libs \subseteq live
      /\ l \in Repos /\ v \in Repos /\ l # v /\ v \notin Libs
    BY DEF OwnersInv, Types, Repos, SharingAssumption
<1>3. v \in live => IsVirtual(v) /\ vinfo[v] = dirOf
    BY <1>1 DEF VirtualFor, OfDir
<1>4. Types'
    <2>1. dirOf \in [origin : Libs, path : Dirs]
        OBVIOUS
    <2> HIDE DEF dirOf
    <2> QED
        BY <1>1, <1>2, <2>1 DEF Types, Repos
<1>5. TaskOK'
    BY DEF OwnersInv, TaskOK
<1>6. /\ \A r \in Repos : r # v => owner'[r] = owner[r]
      /\ owner'[v] = IF v \in live THEN owner[v] ELSE owner[l]
      /\ \A w \in VRepos : w # v => vinfo'[w] = vinfo[w]
      /\ vinfo'[v] = dirOf
    BY <1>1, <1>2
<1>7. \A r \in Repos : (r # v \/ r \in live) => (Excused(r) => Excused(r)')
    <2> SUFFICES ASSUME NEW r \in Repos, r # v \/ r \in live, Excused(r)
                 PROVE  Excused(r)'
        OBVIOUS
    <2>1. IsVirtual(r) => IsVirtual(r)' /\ vinfo'[r] = vinfo[r]
        BY <1>3, <1>6 DEF IsVirtual
    <2> QED
        BY <2>1 DEF Excused
<1>8. (\A u : OwnerName(u)' = OwnerName(u)) /\ Failed' = Failed
    BY DEF OwnerName, Failed
<1>9. OwnerName(owner[l]) = owner[l]
    BY <1>2 DEF OwnersInv, IdOK, OwnerName, Renamed
<1>10. Excused(v)' \/ owner'[v] = owner[l]
    <2>1. CASE v \notin live
        BY <2>1, <1>6
    <2>2. CASE v \in live
        <3>1. Excused(v) \/ owner[v] = owner[l]
            BY <2>2, <1>3 DEF OwnersInv, DirsOK
        <3> QED
            BY <2>2, <3>1, <1>2, <1>6, <1>7
    <2> QED
        BY <2>1, <2>2
<1>11. RowsOK'
    <2> SUFFICES ASSUME NEW s \in Range(shared')
                 PROVE  /\ s.repo \in live'
                        /\ Failed \/ Excused(s.repo)' \/ OwnerName(s.from) = owner'[s.repo]
        BY <1>8 DEF RowsOK
    <2>1. CASE s \in Range(shared)
        <3>1. s.repo \in live /\ s.repo \in Repos
            BY <2>1, <1>2 DEF OwnersInv, RowsOK
        <3>2. owner'[s.repo] = owner[s.repo]
            BY <3>1, <1>6
        <3>3. Failed \/ Excused(s.repo) \/ OwnerName(s.from) = owner[s.repo]
            BY <2>1 DEF OwnersInv, RowsOK
        <3> QED
            BY <3>1, <3>2, <3>3, <1>1, <1>7
    <2>2. CASE s.repo = v /\ s.from = owner[l]
        BY <2>2, <1>1, <1>9, <1>10
    <2> QED
        BY <2>1, <2>2
<1>12. DirsOK'
    <2> SUFFICES ASSUME NEW w \in VRepos, IsVirtual(w)', w \in live', ~Excused(w)'
                 PROVE  owner'[w] = owner'[vinfo'[w].origin]
        BY DEF DirsOK
    <2>1. CASE w = v
        BY <2>1, <1>2, <1>6, <1>10
    <2>2. CASE w # v
        <3>1. w \in Repos /\ w \in live /\ IsVirtual(w) /\ vinfo'[w] = vinfo[w]
            BY <2>2, <1>1, <1>6 DEF IsVirtual, Repos
        <3>2. vinfo[w].origin \in Libs
            BY <3>1, <1>2 DEF IsVirtual
        <3>3. owner[w] = owner[vinfo[w].origin]
            BY <2>2, <3>1, <1>7 DEF OwnersInv, DirsOK
        <3>4. vinfo[w].origin # v /\ vinfo[w].origin \in Repos
            BY <3>2, <1>2 DEF Repos
        <3> QED
            BY <2>2, <3>1, <3>3, <3>4, <1>6
    <2> QED
        BY <2>1, <2>2
<1>13. IdOK'
    BY <1>2, <1>6 DEF OwnersInv, IdOK
<1> QED
    BY <1>4, <1>5, <1>11, <1>12, <1>13 DEF OwnersInv

\* The owner of a library shares one of its directories.
LEMMA ShareSubdirInv ==
    ASSUME SharingAssumption, OwnersInv, NEW l \in Libs, NEW dir \in Dirs, NEW p \in Rights,
           \/ \E u \in Accounts : ShareSubdirToUser(l, dir, u, p)
           \/ \E g \in Groups : ShareSubdirToGroup(l, dir, g, p)
    PROVE  OwnersInv'
<1>1. shared \in Seq(ShareRow) /\ owner[l] \in Accounts \cup {Nothing}
    BY DEF OwnersInv, Types, Repos
<1>2. CASE \E u \in Accounts : ShareSubdirToUser(l, dir, u, p)
    <2>1. PICK u \in Accounts, v \in VRepos :
             /\ CreateVirtualRepo(v, l, dir) /\ change' = change
             /\ shared' = WithShare(v, owner[l], u, p)
        BY <1>2 DEF ShareSubdirToUser
    <2>2. v \in Repos
        BY DEF Repos
    <2>3. /\ shared' \in Seq(ShareRow)
          /\ \A s \in Range(shared') :
                s \in Range(shared) \/ (s.repo = v /\ s.from = owner[l])
        BY <1>1, <2>1, <2>2, WithShareRows
    <2> QED
        BY <2>1, <2>3, CreateInv
<1>3. CASE \E g \in Groups : ShareSubdirToGroup(l, dir, g, p)
    <2>1. PICK v \in VRepos : CreateVirtualRepo(v, l, dir) /\ change' = change /\ shared' = shared
        BY <1>3 DEF ShareSubdirToGroup
    <2> QED
        BY <1>1, <2>1, CreateInv
<1> QED
    BY <1>2, <1>3

\* A library gets another owner.
LEMMA SetRepoOwnerInv ==
    ASSUME SharingAssumption, OwnersInv, NEW r \in Libs, NEW u \in Accounts, SetRepoOwner(r, u)
    PROVE  OwnersInv'
<1>1. /\ change = NoChange
      /\ owner' = [owner EXCEPT ![r] = u]
      /\ change' = [kind |-> "owner", pc |-> "shares", repo |-> r, vrepos |-> {}]
      /\ UNCHANGED <<vinfo, live, shared>>
    BY DEF SetRepoOwner, TaskRequest
<1>2. /\ owner \in [Repos -> Accounts \cup {Nothing}]
      /\ vinfo \in [VRepos -> {Nothing} \cup [origin : Libs, path : Dirs]]
      /\ r \in Repos /\ live \subseteq Repos
    BY DEF OwnersInv, Types, Repos
<1>3. Types' /\ TaskOK' /\ IdOK'
    BY <1>1, <1>2 DEF OwnersInv, Types, TaskOK, IdOK
<1>4. change.kind \notin {"owner", "id"}
    BY <1>1 DEF NoChange, SharingAssumption
<1>5. /\ \A q : ~Excused(q)
      /\ \A q : Excused(q)' <=> q = r \/ (IsVirtual(q) /\ vinfo[q].origin = r)
    BY <1>1, <1>4 DEF Excused, IsVirtual
<1>6. (\A x : OwnerName(x) = x /\ OwnerName(x)' = x) /\ ~Failed /\ ~Failed'
    BY <1>1, <1>4 DEF OwnerName, Failed
<1>7. \A q \in Repos : q # r => owner'[q] = owner[q]
    BY <1>1, <1>2
<1>8. RowsOK'
    BY <1>1, <1>2, <1>5, <1>6, <1>7 DEF OwnersInv, RowsOK
<1>9. DirsOK'
    <2> SUFFICES ASSUME NEW v \in VRepos, IsVirtual(v), v \in live, ~Excused(v)'
                 PROVE  owner'[v] = owner'[vinfo[v].origin]
        BY <1>1 DEF DirsOK, IsVirtual
    <2>1. owner[v] = owner[vinfo[v].origin]
        BY <1>5 DEF OwnersInv, DirsOK
    <2>2. v # r /\ vinfo[v].origin # r /\ v \in Repos /\ vinfo[v].origin \in Repos
        BY <1>2, <1>5 DEF IsVirtual, Repos, SharingAssumption
    <2> QED
        BY <2>1, <2>2, <1>7
<1> QED
    BY <1>3, <1>8, <1>9 DEF OwnersInv

\* Its shares go, and those of its directories; the virtual repos are listed before they
\* are removed.
LEMMA OwnerStepsInv ==
    ASSUME SharingAssumption, OwnersInv,
           \/ OwnerDelShares \/ OwnerDelGroups \/ OwnerDelPublic
           \/ OwnerListVirtual \/ OwnerRemoveVirtual \/ OwnerDelVirtualRows
    PROVE  OwnersInv'
<1>1. /\ change = [kind |-> "owner", pc |-> change.pc, repo |-> change.repo, vrepos |-> change.vrepos]
      /\ change.repo \in Libs /\ change.vrepos \subseteq VRepos
    <2>1. change.kind = "owner"
        BY DEF OwnerDelShares, OwnerDelGroups, OwnerDelPublic, OwnerListVirtual,
               OwnerRemoveVirtual, OwnerDelVirtualRows, OwnerStep
    <2> QED
        BY <2>1 DEF OwnersInv, TaskOK, NoChange, SharingAssumption
<1>2. /\ owner \in [Repos -> Accounts \cup {Nothing}]
      /\ vinfo \in [VRepos -> {Nothing} \cup [origin : Libs, path : Dirs]]
      /\ live \subseteq Repos /\ Libs \subseteq live
      /\ shared \in Seq(ShareRow)
    BY DEF OwnersInv, Types
<1>3. (\A x : OwnerName(x) = x) /\ ~Failed
    BY <1>1 DEF OwnerName, Failed
<1>4. change'.kind # "id" /\ IdOK' /\ ~Failed' /\ \A x : OwnerName(x)' = x
    <2>1. \/ change' = NoChange
          \/ \E pc : change' = [change EXCEPT !.pc = pc]
          \/ \E vs : change' = [change EXCEPT !.pc = "remove", !.vrepos = vs]
        BY DEF OwnerDelShares, OwnerDelGroups, OwnerDelPublic, OwnerListVirtual,
               OwnerRemoveVirtual, OwnerDelVirtualRows, OwnerStep
    <2>2. change'.kind # "id"
        <3>1. change' = NoChange => change'.kind = Nothing
            BY DEF NoChange
        <3>2. Nothing # "id"
            BY DEF SharingAssumption
        <3>3. ASSUME NEW pc, change' = [change EXCEPT !.pc = pc] PROVE change'.kind = "owner"
            BY <1>1, <3>3
        <3>4. ASSUME NEW vs, change' = [change EXCEPT !.pc = "remove", !.vrepos = vs]
              PROVE  change'.kind = "owner"
            BY <1>1, <3>4
        <3> QED
            BY <2>1, <3>1, <3>2, <3>3, <3>4
    <2> QED
        BY <2>2 DEF IdOK, Failed, OwnerName
<1>5. CASE OwnerDelShares
    <2>1. /\ change.pc = "shares" /\ change' = [change EXCEPT !.pc = "groups"]
          /\ UNCHANGED <<owner, vinfo, live>>
          /\ shared' = Without(shared, {s \in Range(shared) : s.repo = change.repo})
        BY <1>5 DEF OwnerDelShares, OwnerStep
    <2>2. /\ shared' \in Seq(ShareRow)
          /\ \A s \in Range(shared') : s \in Range(shared) /\ s.repo # change.repo
        BY <1>2, <2>1, WithoutRows
    <2>3. Types' /\ TaskOK'
        BY <1>1, <2>1, <2>2 DEF OwnersInv, Types, TaskOK
    <2>4. \A q : q # change.repo => (Excused(q)' <=> Excused(q))
        BY <1>1, <2>1 DEF Excused, IsVirtual
    <2>5. RowsOK'
        BY <1>3, <1>4, <2>1, <2>2, <2>4 DEF OwnersInv, RowsOK
    <2>6. DirsOK'
        BY <1>1, <2>1, <2>4 DEF OwnersInv, DirsOK, IsVirtual, SharingAssumption
    <2> QED
        BY <1>4, <2>3, <2>5, <2>6 DEF OwnersInv
<1>6. CASE OwnerDelGroups \/ OwnerDelPublic
    <2>1. /\ \/ change.pc = "groups" /\ change' = [change EXCEPT !.pc = "public"]
             \/ change.pc = "public" /\ change' = [change EXCEPT !.pc = "list"]
          /\ UNCHANGED <<owner, vinfo, live, shared>>
        BY <1>6 DEF OwnerDelGroups, OwnerDelPublic, OwnerStep
    <2>2. Types' /\ TaskOK'
        BY <1>1, <2>1 DEF OwnersInv, Types, TaskOK
    <2>3. \A q : Excused(q)' <=> Excused(q)
        BY <1>1, <2>1 DEF Excused, IsVirtual
    <2>4. RowsOK' /\ DirsOK'
        BY <1>3, <1>4, <2>1, <2>3 DEF OwnersInv, RowsOK, DirsOK, IsVirtual
    <2> QED
        BY <1>4, <2>2, <2>4 DEF OwnersInv
<1>7. CASE OwnerListVirtual
    <2> DEFINE listed == {v \in VRepos : IsVirtual(v) /\ vinfo[v].origin = change.repo}
    <2>1. /\ change.pc = "list" /\ UNCHANGED <<owner, vinfo, live, shared>>
          /\ change' = [kind |-> "owner", pc |-> "remove", repo |-> change.repo, vrepos |-> listed]
        BY <1>1, <1>7 DEF OwnerListVirtual, shareTables
    <2>2. Types' /\ TaskOK'
        BY <1>1, <2>1 DEF OwnersInv, Types, TaskOK
    <2>3. \A q : Excused(q)' <=> Excused(q)
        BY <1>1, <2>1 DEF Excused, IsVirtual
    <2>4. RowsOK' /\ DirsOK'
        BY <1>3, <1>4, <2>1, <2>3 DEF OwnersInv, RowsOK, DirsOK, IsVirtual
    <2> QED
        BY <1>4, <2>2, <2>4 DEF OwnersInv
<1>8. CASE OwnerRemoveVirtual
    <2>1. /\ change.pc = "remove" /\ change' = [change EXCEPT !.pc = "rows"]
          /\ owner' = [r \in Repos |-> IF r \in change.vrepos THEN Nothing ELSE owner[r]]
          /\ live' = live \ change.vrepos /\ vinfo' = vinfo
          /\ shared' = Without(shared, {s \in Range(shared) : s.repo \in change.vrepos})
        BY <1>8 DEF OwnerRemoveVirtual, OwnerStep
    <2>2. /\ shared' \in Seq(ShareRow)
          /\ \A s \in Range(shared') : s \in Range(shared) /\ s.repo \notin change.vrepos
        BY <1>2, <2>1, WithoutRows
    <2>3. Types' /\ TaskOK'
        <3>1. owner' \in [Repos -> Accounts \cup {Nothing}]
            BY <1>2, <2>1
        <3>2. Libs \subseteq live' /\ live' \subseteq Repos
            BY <1>1, <1>2, <2>1 DEF SharingAssumption
        <3> QED
            BY <1>1, <1>2, <2>1, <2>2, <3>1, <3>2 DEF Types, TaskOK
    <2>4. \A q : (Excused(q) <=> q \in change.vrepos) /\ ~Excused(q)'
        BY <1>1, <2>1 DEF Excused
    <2>5. \A q \in Repos : q \notin change.vrepos => owner'[q] = owner[q]
        BY <2>1
    <2>6. RowsOK'
        BY <1>2, <1>3, <1>4, <2>1, <2>2, <2>4, <2>5 DEF OwnersInv, RowsOK
    <2>7. DirsOK'
        <3> SUFFICES ASSUME NEW v \in VRepos, IsVirtual(v), v \in live \ change.vrepos
                     PROVE  owner'[v] = owner'[vinfo[v].origin]
            BY <2>1 DEF DirsOK, IsVirtual
        <3>1. owner[v] = owner[vinfo[v].origin]
            BY <2>4 DEF OwnersInv, DirsOK
        <3>2. vinfo[v].origin \in Libs
            BY <1>2 DEF IsVirtual
        <3>3. vinfo[v].origin \notin change.vrepos /\ vinfo[v].origin \in Repos /\ v \in Repos
            BY <1>1, <3>2 DEF Repos, SharingAssumption
        <3> QED
            BY <2>5, <3>1, <3>3
    <2> QED
        BY <1>4, <2>3, <2>6, <2>7 DEF OwnersInv
<1>9. CASE OwnerDelVirtualRows
    <2>1. /\ change.pc = "rows" /\ change' = NoChange /\ UNCHANGED <<owner, live, shared>>
          /\ vinfo' = [v \in VRepos |-> IF vinfo[v] # Nothing
                                           /\ (v = change.repo \/ vinfo[v].origin = change.repo)
                                        THEN Nothing ELSE vinfo[v]]
        BY <1>9 DEF OwnerDelVirtualRows
    <2>2. Types' /\ TaskOK'
        BY <1>2, <2>1 DEF Types, TaskOK
    <2>3. \A q : ~Excused(q) /\ ~Excused(q)'
        BY <1>1, <2>1 DEF Excused, NoChange, SharingAssumption
    <2>4. RowsOK'
        BY <1>3, <1>4, <2>1, <2>3 DEF OwnersInv, RowsOK
    <2>5. \A v \in VRepos : IsVirtual(v)' => IsVirtual(v) /\ vinfo'[v] = vinfo[v]
        BY <2>1 DEF IsVirtual
    <2>6. DirsOK'
        BY <2>1, <2>3, <2>5 DEF OwnersInv, DirsOK
    <2> QED
        BY <1>4, <2>2, <2>4, <2>6 DEF OwnersInv
<1> QED
    BY <1>5, <1>6, <1>7, <1>8, <1>9

\* An id is replaced, the owners first.
LEMMA UpdateIdInv ==
    ASSUME SharingAssumption, OwnersInv, NEW old \in Accounts, NEW new \in Accounts,
           UpdateEmailUserId(old, new)
    PROVE  OwnersInv'
<1> DEFINE had == [r \in Repos |-> CheckPermission(r, old)]
           fresh == Unknown(new)
<1>1. /\ change = NoChange /\ old # new
      /\ owner' = [r \in Repos |-> Renamed(owner[r], old, new)]
      /\ change' = [kind |-> "id", pc |-> "from", old |-> old, new |-> new,
                  at |-> requests', had |-> had, fresh |-> fresh]
      /\ UNCHANGED <<vinfo, live, shared>>
    BY DEF UpdateEmailUserId, TaskRequest
<1> HIDE DEF had, fresh
<1>2. /\ owner \in [Repos -> Accounts \cup {Nothing}]
      /\ vinfo \in [VRepos -> {Nothing} \cup [origin : Libs, path : Dirs]]
      /\ live \subseteq Repos
    BY DEF OwnersInv, Types
<1>3. /\ change'.kind = "id" /\ change'.pc = "from" /\ change'.old = old /\ change'.new = new
      /\ change' = [kind |-> "id", pc |-> change'.pc, old |-> change'.old, new |-> change'.new,
                  at |-> change'.at, had |-> change'.had, fresh |-> change'.fresh]
    BY <1>1
<1>4. TaskOK'
    BY <1>1, <1>3 DEF TaskOK
<1>5. \A r \in Repos : Renamed(owner[r], old, new) \in Accounts \cup {Nothing}
    BY <1>2 DEF Renamed
<1>6. Types'
    BY <1>1, <1>5 DEF OwnersInv, Types
<1>7. IdOK'
    BY <1>1, <1>3 DEF IdOK, Renamed
<1>8. change.kind \notin {"owner", "id"}
    BY <1>1 DEF NoChange, SharingAssumption
<1>9. \A q : ~Excused(q) /\ ~Excused(q)'
    BY <1>3, <1>8 DEF Excused
<1>10. \A u : OwnerName(u) = u /\ OwnerName(u)' = Renamed(u, old, new)
    BY <1>3, <1>8 DEF OwnerName, Renamed
<1>11. ~Failed /\ ~Failed'
    BY <1>3, <1>8 DEF Failed
<1>12. \A r \in Repos : owner'[r] = Renamed(owner[r], old, new)
    BY <1>1
<1>13. RowsOK'
    BY <1>1, <1>2, <1>9, <1>10, <1>11, <1>12 DEF OwnersInv, RowsOK
<1>14. DirsOK'
    <2> SUFFICES ASSUME NEW v \in VRepos, IsVirtual(v), v \in live
                 PROVE  owner'[v] = owner'[vinfo[v].origin]
        BY <1>1 DEF DirsOK, IsVirtual
    <2>1. owner[v] = owner[vinfo[v].origin]
        BY <1>9 DEF OwnersInv, DirsOK
    <2>2. v \in Repos /\ vinfo[v].origin \in Repos
        BY <1>2 DEF IsVirtual, Repos
    <2> QED
        BY <2>1, <2>2, <1>12
<1> QED
    BY <1>4, <1>6, <1>7, <1>13, <1>14 DEF OwnersInv

\* The other statements of the change of an id, and its failure.
LEMMA IdStepsInv ==
    ASSUME SharingAssumption, OwnersInv, IdFrom \/ IdTo \/ IdMembers \/ IdAccount \/ IdFails
    PROVE  OwnersInv'
<1>1. /\ change = [kind |-> "id", pc |-> change.pc, old |-> change.old, new |-> change.new,
                 at |-> change.at, had |-> change.had, fresh |-> change.fresh]
      /\ change.old \in Accounts /\ change.new \in Accounts /\ change.old # change.new
    <2>1. change.kind = "id"
        BY DEF IdFrom, IdTo, IdMembers, IdAccount, IdFails, IdStep
    <2> QED
        BY <2>1 DEF OwnersInv, TaskOK, NoChange, SharingAssumption
<1>2. change.kind = "id" /\ (\A q : ~Excused(q))
    BY <1>1 DEF Excused
<1>3. UNCHANGED <<owner, vinfo, live>>
    BY DEF IdFrom, IdTo, IdMembers, IdAccount, IdFails, IdStep, shareTables
<1>4. /\ shared \in Seq(ShareRow)
      /\ shared \in [1..Len(shared) -> ShareRow] /\ Len(shared) \in Nat
    BY DEF OwnersInv, Types
<1>5. \/ change' = NoChange /\ change.pc = "account"
      \/ \E pc \in {"to", "member", "account", "failed"} :
            /\ change' = [change EXCEPT !.pc = pc]
            /\ pc = "to" => change.pc = "from"
            /\ pc # "to" /\ pc # "failed" => change.pc # "from" /\ change.pc # "failed"
    BY DEF IdFrom, IdTo, IdMembers, IdAccount, IdFails, IdStep
<1>6. TaskOK' /\ IdOK'
    <2>1. CASE change' = NoChange
        BY <2>1 DEF TaskOK, IdOK, NoChange, SharingAssumption
    <2>2. CASE change' # NoChange
        BY <1>1, <1>5, <2>2 DEF TaskOK, IdOK
    <2> QED
        BY <2>1, <2>2
<1>7. \A q : ~Excused(q)'
    BY <1>1, <1>5 DEF Excused, NoChange, SharingAssumption
<1>8. DirsOK'
    BY <1>2, <1>3 DEF OwnersInv, DirsOK, IsVirtual
<1>9. \A u : OwnerName(u)' = u
    BY <1>1, <1>5 DEF OwnerName, NoChange, SharingAssumption
<1>10. ASSUME NEW new, DOMAIN new = 1..Len(shared), new = [i \in 1..Len(shared) |-> new[i]],
              \A i \in 1..Len(shared) : new[i] \in ShareRow
       PROVE  new \in Seq(ShareRow)
    <2>1. new \in [1..Len(shared) -> ShareRow]
        BY <1>10
    <2> QED
        BY <1>4, <2>1, SeqDef
<1>11. CASE IdFrom
    <2>1. /\ change.pc = "from" /\ change'.kind = "id" /\ change'.pc = "to"
          /\ shared' = [i \in DOMAIN shared |->
                          [shared[i] EXCEPT !.from = Renamed(@, change.old, change.new)]]
        BY <1>1, <1>11 DEF IdFrom, IdStep
    <2>2. \A i \in 1..Len(shared) :
             /\ shared'[i] \in ShareRow /\ shared'[i].repo = shared[i].repo
             /\ shared'[i].from = OwnerName(shared[i].from)
        <3> SUFFICES ASSUME NEW i \in 1..Len(shared)
                     PROVE  /\ shared'[i] \in ShareRow /\ shared'[i].repo = shared[i].repo
                            /\ shared'[i].from = OwnerName(shared[i].from)
            OBVIOUS
        <3> DEFINE from == Renamed(shared[i].from, change.old, change.new)
        <3>1. shared[i] \in ShareRow /\ shared'[i] = [shared[i] EXCEPT !.from = from]
            BY <1>4, <2>1
        <3>2. from \in Accounts \cup {Nothing}
            BY <1>1, <3>1 DEF ShareRow, Renamed
        <3>3. from = OwnerName(shared[i].from)
            BY <1>2, <2>1 DEF OwnerName
        <3> HIDE DEF from
        <3> QED
            BY <3>1, <3>2, <3>3 DEF ShareRow
    <2>3. DOMAIN shared' = 1..Len(shared) /\ shared' = [i \in 1..Len(shared) |-> shared'[i]]
        BY <1>4, <2>1
    <2>4. shared' \in Seq(ShareRow)
        BY <1>10, <2>2, <2>3
    <2>5. Types'
        BY <1>3, <2>4 DEF OwnersInv, Types
    <2>6. ~Failed /\ ~Failed'
        BY <2>1 DEF Failed
    <2>7. \A s \in Range(shared') : \E t \in Range(shared) :
             s.repo = t.repo /\ s.from = OwnerName(t.from)
        BY <1>4, <2>2, <2>3 DEF Range
    <2>8. RowsOK'
        BY <1>2, <1>3, <1>9, <2>6, <2>7 DEF OwnersInv, RowsOK
    <2> QED
        BY <1>6, <1>8, <2>5, <2>8 DEF OwnersInv
<1>12. CASE IdTo
    <2>1. /\ change.pc = "to" /\ change'.kind = "id" /\ change'.pc = "member"
          /\ shared' = [i \in DOMAIN shared |->
                          [shared[i] EXCEPT !.to = Renamed(@, change.old, change.new)]]
        BY <1>1, <1>12 DEF IdTo, IdStep
    <2>2. \A i \in 1..Len(shared) :
             /\ shared'[i] \in ShareRow /\ shared'[i].repo = shared[i].repo
             /\ shared'[i].from = shared[i].from
        <3> SUFFICES ASSUME NEW i \in 1..Len(shared)
                     PROVE  /\ shared'[i] \in ShareRow /\ shared'[i].repo = shared[i].repo
                            /\ shared'[i].from = shared[i].from
            OBVIOUS
        <3> DEFINE to == Renamed(shared[i].to, change.old, change.new)
        <3>1. shared[i] \in ShareRow /\ shared'[i] = [shared[i] EXCEPT !.to = to]
            BY <1>4, <2>1
        <3>2. to \in Accounts
            BY <1>1, <3>1 DEF ShareRow, Renamed
        <3> HIDE DEF to
        <3> QED
            BY <3>1, <3>2 DEF ShareRow
    <2>3. DOMAIN shared' = 1..Len(shared) /\ shared' = [i \in 1..Len(shared) |-> shared'[i]]
        BY <1>4, <2>1
    <2>4. shared' \in Seq(ShareRow)
        BY <1>10, <2>2, <2>3
    <2>5. Types'
        BY <1>3, <2>4 DEF OwnersInv, Types
    <2>6. ~Failed /\ ~Failed' /\ \A u : OwnerName(u) = u
        BY <2>1 DEF Failed, OwnerName
    <2>7. \A s \in Range(shared') : \E t \in Range(shared) : s.repo = t.repo /\ s.from = t.from
        BY <1>4, <2>2, <2>3 DEF Range
    <2>8. RowsOK'
        BY <1>2, <1>3, <1>9, <2>6, <2>7 DEF OwnersInv, RowsOK
    <2> QED
        BY <1>6, <1>8, <2>5, <2>8 DEF OwnersInv
<1>13. CASE IdMembers \/ IdAccount \/ IdFails
    <2>1. shared' = shared
        BY <1>13 DEF IdMembers, IdAccount, IdFails, IdStep, shareTables
    <2>2. Types'
        BY <1>3, <2>1 DEF OwnersInv, Types
    <2>3. Failed' \/ (~Failed /\ \A u : OwnerName(u) = u)
        BY <1>1, <1>13 DEF IdMembers, IdAccount, IdFails, IdStep, Failed, OwnerName
    <2>4. RowsOK'
        BY <1>2, <1>3, <1>9, <2>1, <2>3 DEF OwnersInv, RowsOK
    <2> QED
        BY <1>6, <1>8, <2>2, <2>4 DEF OwnersInv
<1> QED
    BY <1>11, <1>12, <1>13

----------------------------------------------------------------------------
\* From the beginning on

\* The libraries' owners and shares at the beginning.
LEMMA OwnersStart == SharingAssumption /\ SharingInit => OwnersInv
<1> SUFFICES ASSUME SharingAssumption, SharingInit PROVE OwnersInv
    OBVIOUS
<1>1. /\ owner = [r \in Repos |-> IF r \in Libs THEN InitOwner[r] ELSE Nothing]
      /\ vinfo = [v \in VRepos |-> Nothing] /\ live = Libs /\ shared \in InitShares
      /\ change = NoChange
    BY DEF SharingInit
<1>2. change.kind = Nothing /\ Nothing \notin {"owner", "id"}
    BY <1>1 DEF NoChange, SharingAssumption
<1>3. /\ shared \in Seq(ShareRow)
      /\ \A s \in Range(shared) : s.repo \in Libs /\ s.from = InitOwner[s.repo]
    BY <1>1 DEF SharingAssumption
<1>4. \A r \in Libs : r \in Repos /\ InitOwner[r] \in Accounts
    BY DEF SharingAssumption, Repos
<1>5. Types /\ TaskOK
    BY <1>1, <1>3, <1>4 DEF Types, TaskOK, Repos
<1>6. RowsOK
    BY <1>1, <1>2, <1>3, <1>4 DEF RowsOK, OwnerName
<1>7. DirsOK /\ IdOK
    BY <1>1, <1>2 DEF DirsOK, IdOK, IsVirtual
<1> QED
    BY <1>5, <1>6, <1>7 DEF OwnersInv

\* Every request, and every step of a change, keeps the invariant.
LEMMA OwnersStep == SharingAssumption /\ OwnersInv /\ [SharingNext]_sharingVars => OwnersInv'
<1> SUFFICES ASSUME SharingAssumption, OwnersInv, [SharingNext]_sharingVars PROVE OwnersInv'
    OBVIOUS
<1> DEFINE Same == UNCHANGED <<owner, vinfo, live, shared, change>>
<1>1. CASE \E r \in Repos, u \in Accounts, p \in Rights :
              AddShare(r, u, p) \/ RemoveShare(r, owner[r], u)
              \/ SetSharePermission(r, owner[r], u, p)
    <2>1. PICK r \in Repos, u \in Accounts, p \in Rights :
              AddShare(r, u, p) \/ RemoveShare(r, owner[r], u)
              \/ SetSharePermission(r, owner[r], u, p)
        BY <1>1
    <2>2. CASE AddShare(r, u, p)
        BY <2>2, AddShareInv
    <2>3. CASE RemoveShare(r, owner[r], u) \/ SetSharePermission(r, owner[r], u, p)
        <3> DEFINE these == SharesOf(r, owner[r], u)
        <3>1. OnShares(Without(shared, these)) \/ OnShares(Updated(shared, these, p))
            BY <2>3 DEF RemoveShare, SetSharePermission
        <3> HIDE DEF these
        <3> QED
            BY <3>1, ChangeShares
    <2> QED
        BY <2>1, <2>2, <2>3
<1>2. CASE \E l \in Libs, dir \in Dirs, u \in Accounts, p \in Rights :
              ShareSubdirToUser(l, dir, u, p) \/ UnshareSubdir(l, dir, owner[l], u)
              \/ SetSubdirPermission(l, dir, owner[l], u, p)
    <2>1. PICK l \in Libs, dir \in Dirs, u \in Accounts, p \in Rights :
              ShareSubdirToUser(l, dir, u, p) \/ UnshareSubdir(l, dir, owner[l], u)
              \/ SetSubdirPermission(l, dir, owner[l], u, p)
        BY <1>2
    <2>2. CASE ShareSubdirToUser(l, dir, u, p)
        BY <2>2, ShareSubdirInv
    <2>3. CASE UnshareSubdir(l, dir, owner[l], u) \/ SetSubdirPermission(l, dir, owner[l], u, p)
        <3> DEFINE these == SubdirShares(l, dir, owner[l], u)
        <3>1. OnShares(Without(shared, these)) \/ OnShares(Updated(shared, these, p))
            BY <2>3 DEF UnshareSubdir, SetSubdirPermission
        <3> HIDE DEF these
        <3> QED
            BY <3>1, ChangeShares
    <2> QED
        BY <2>1, <2>2, <2>3
<1>3. CASE \E l \in Libs, dir \in Dirs, g \in Groups, p \in Rights :
              ShareSubdirToGroup(l, dir, g, p)
    BY <1>3, ShareSubdirInv
<1>4. CASE \E l \in Libs, u \in Accounts : SetRepoOwner(l, u)
    BY <1>4, SetRepoOwnerInv
<1>5. CASE \/ OwnerDelShares \/ OwnerDelGroups \/ OwnerDelPublic
           \/ OwnerListVirtual \/ OwnerRemoveVirtual \/ OwnerDelVirtualRows
    BY <1>5, OwnerStepsInv
<1>6. CASE \E old, new \in Accounts : UpdateEmailUserId(old, new)
    BY <1>6, UpdateIdInv
<1>7. CASE IdFrom \/ IdTo \/ IdMembers \/ IdAccount \/ IdFails
    BY <1>7, IdStepsInv
<1>8. CASE Same
    BY <1>8, SameShares
<1>9. CASE \E r \in Repos, g \in Groups, p \in Rights :
              GroupShareRepo(r, g, p) \/ GroupUnshareRepo(r, g) \/ SetGroupRepoPermission(r, g, p)
    <2>1. Same
        BY <1>9 DEF GroupShareRepo, GroupUnshareRepo, SetGroupRepoPermission, OnGroupShares
    <2> QED
        BY <2>1, <1>8
<1>10. CASE \E l \in Libs, dir \in Dirs, g \in Groups, p \in Rights :
              UnshareSubdirForGroup(l, dir, owner[l], g)
              \/ SetSubdirGroupPermission(l, dir, owner[l], g, p)
    <2>1. Same
        BY <1>10 DEF UnshareSubdirForGroup, SetSubdirGroupPermission, OnGroupShares
    <2> QED
        BY <2>1, <1>8
<1>11. CASE \E g \in Groups, u \in Accounts :
              \/ RemoveRepoGroup(g, u) \/ RemoveRepoGroup(g, Nothing)
              \/ \E h \in Groups \cup {Nothing} : CreateGroup(g, u, h)
              \/ AddMember(g, u) \/ QuitGroup(g, u)
              \/ \E by \in Accounts : RemoveMember(g, by, u)
              \/ \E s \in BOOLEAN : SetStaff(g, u, s)
    <2>1. Same
        BY <1>11 DEF RemoveRepoGroup, OnGroupShares, CreateGroup, AddMember, QuitGroup,
                     RemoveMember, SetStaff, OnMembers, shareTables
    <2> QED
        BY <2>1, <1>8
<1>12. CASE \/ \E g \in Groups, anyway \in BOOLEAN : RemoveGroup(g, anyway)
            \/ \E l \in Libs, p \in Rights \cup {Nothing} : SetInnerPubRepo(l, p)
            \/ \E u \in Accounts : AddEmailUser(u) \/ RemoveEmailUser(u)
            \/ UNCHANGED sharingVars
    <2>1. Same
        BY <1>12 DEF RemoveGroup, SetInnerPubRepo, AddEmailUser, RemoveEmailUser, shareTables, sharingVars
    <2> QED
        BY <2>1, <1>8
<1> QED
    BY <1>1, <1>2, <1>3, <1>4, <1>5, <1>6, <1>7, <1>9, <1>10, <1>11, <1>12 DEF SharingNext

----------------------------------------------------------------------------
\* The checks of a permission

\* Groups are given permissions by rows of their table; only libraries are public, and
\* what can be opened has an owner.
PermTypes ==
    /\ groupShared \in Seq(GroupRow)
    /\ public \in [Repos -> Rights \cup {Nothing}]
    /\ \A v \in VRepos : public[v] = Nothing
    /\ \A r \in live : owner[r] \in Accounts

\* The last row, and the best permission of rows.
LEMMA LastPermRow ==
    ASSUME NEW S, NEW rows \in Seq(S), \A s \in Range(rows) : s.perm \in Rights,
           SharingAssumption
    PROVE  /\ LastPerm(rows) # Nothing <=> Range(rows) # {}
           /\ LastPerm(rows) # Nothing => \E s \in Range(rows) : LastPerm(rows) = s.perm
<1>1. CASE rows = << >>
    <2>1. Range(rows) = {}
        BY <1>1 DEF Range
    <2> QED
        BY <1>1, <2>1 DEF LastPerm
<1>2. CASE rows # << >>
    <2>1. Len(rows) \in DOMAIN rows
        BY <1>2
    <2>2. Last(rows) \in Range(rows)
        BY <2>1 DEF Range, Last
    <2>3. Last(rows).perm \in Rights /\ Nothing \notin Rights
        BY <2>2 DEF SharingAssumption
    <2> QED
        BY <1>2, <2>2, <2>3 DEF LastPerm
<1> QED
    BY <1>1, <1>2

\* The first row.
LEMMA FirstPermRow ==
    ASSUME NEW S, NEW rows \in Seq(S), \A s \in Range(rows) : s.perm \in Rights,
           SharingAssumption
    PROVE  FirstPerm(rows) # Nothing <=> Range(rows) # {}
<1>1. CASE rows = << >>
    <2>1. Range(rows) = {}
        BY <1>1 DEF Range
    <2> QED
        BY <1>1, <2>1 DEF FirstPerm
<1>2. CASE rows # << >>
    <2>1. 1 \in DOMAIN rows /\ Head(rows) = rows[1]
        BY <1>2
    <2>2. Head(rows) \in Range(rows)
        BY <2>1 DEF Range
    <2>3. Head(rows).perm \in Rights /\ Nothing \notin Rights
        BY <2>2 DEF SharingAssumption
    <2> QED
        BY <1>2, <2>2, <2>3 DEF FirstPerm
<1> QED
    BY <1>1, <1>2

\* The best of some permissions.
LEMMA BestOf ==
    ASSUME SharingAssumption, NEW P, P \subseteq Rights
    PROVE  /\ Best(P) # Nothing <=> P # {}
           /\ \A x \in Rights : P = {x} => Best(P) = x
<1>1. Nothing \notin Rights
    BY DEF SharingAssumption
<1> QED
    BY <1>1 DEF Best, Rights

\* Of some directories above a path one is deepest.
LEMMA DeepestExists ==
    ASSUME NEW path, path \in Seq(Range(path)), NEW F, F \subseteq Above(path), F # {}
    PROVE  \E p \in F : \A q \in F : Len(q) <= Len(p)
<1> DEFINE L == Len(path)
           Depth(p) == L - Len(p)
           D == {Depth(p) : p \in F}
<1>1. L \in Nat
    OBVIOUS
<1>2. \A p \in F : Len(p) \in 1..L
    <2> SUFFICES ASSUME NEW p \in F PROVE Len(p) \in 1..L
        OBVIOUS
    <2>1. PICK n \in 1..L : p = SubSeq(path, 1, n)
        BY DEF Above
    <2>2. \A i \in 1..n : path[i] \in Range(path)
        BY <2>1, <1>1 DEF Range
    <2>3. Len(p) = n
        BY <2>1, <2>2, <1>1, SubSeqProperties
    <2> QED
        BY <2>3
<1>3. D \subseteq Nat /\ D # {}
    BY <1>1, <1>2
<1>4. PICK d \in D : \A e \in D : ~(<<e, d>> \in OpToRel(<, Nat))
    <2> HIDE DEF D
    <2> QED
        BY <1>3, WFMin, NatLessThanWellFounded
<1>5. \A e \in D : ~(e < d)
    <2> HIDE DEF D
    <2> QED
        BY <1>3, <1>4 DEF OpToRel
<1>6. PICK p \in F : d = Depth(p)
    OBVIOUS
<1>7. \A q \in F : Depth(q) \in D
    OBVIOUS
<1>8. \A q \in F : ~(Depth(q) < Depth(p))
    <2> HIDE DEF D, Depth
    <2> QED
        BY <1>5, <1>6, <1>7
<1> QED
    BY <1>1, <1>2, <1>8

\* get_dir_perm() finds a permission if there is one on the way, and no other.
LEMMA DeepestFound ==
    ASSUME NEW path, path \in Seq(Range(path)), NEW perm, DOMAIN perm = Above(path)
    PROVE  Deepest(perm) # Nothing <=> \E p \in Above(path) : perm[p] # Nothing
<1> DEFINE found == {p \in Above(path) : perm[p] # Nothing}
           deepest == CHOOSE p \in found : \A q \in found : Len(q) <= Len(p)
<1>1. Deepest(perm) = IF found = {} THEN Nothing ELSE perm[deepest]
    BY DEF Deepest
<1>2. found # {} => deepest \in found
    <2>1. ASSUME found # {} PROVE \E p \in found : \A q \in found : Len(q) <= Len(p)
        <3>1. found \subseteq Above(path)
            OBVIOUS
        <3> HIDE DEF found
        <3> QED
            BY <2>1, <3>1, DeepestExists
    <2> HIDE DEF found
    <2> QED
        BY <2>1
<1> HIDE DEF deepest
<1> QED
    BY <1>1, <1>2

\* The directories above a path are its prefixes.
LEMMA AboveIsPrefix ==
    ASSUME SharingAssumption, NEW path \in Dirs, NEW q \in Dirs
    PROVE  q \in Above(path) <=> IsPrefix(q, path)
<1>1. /\ path \in Seq(Range(path)) /\ q \in Seq(Range(q)) /\ q # << >>
      /\ Len(path) \in Nat /\ Len(q) \in Nat /\ Len(q) >= 1
    <2>1. path \in Seq(Range(path)) /\ q \in Seq(Range(q)) /\ q # << >>
        BY DEF SharingAssumption
    <2> QED
        BY <2>1
<1>2. SubSeq(q, 1, Len(q)) = q
    BY <1>1, SubSeqFull
<1>3. \A n \in 1..Len(path) : Len(SubSeq(path, 1, n)) = n
    <2> SUFFICES ASSUME NEW n \in 1..Len(path) PROVE Len(SubSeq(path, 1, n)) = n
        OBVIOUS
    <2>1. \A i \in 1..n : path[i] \in Range(path)
        BY <1>1 DEF Range
    <2> QED
        BY <1>1, <2>1, SubSeqProperties
<1>4. ASSUME q \in Above(path) PROVE IsPrefix(q, path)
    <2>1. PICK n \in 1..Len(path) : q = SubSeq(path, 1, n)
        BY <1>4 DEF Above
    <2>2. Len(q) = n
        BY <1>3, <2>1
    <2> QED
        BY <1>1, <1>2, <2>1, <2>2 DEF IsPrefix
<1>5. ASSUME IsPrefix(q, path) PROVE q \in Above(path)
    <2>1. Len(q) \in 1..Len(path) /\ q = SubSeq(path, 1, Len(q))
        BY <1>1, <1>2, <1>5 DEF IsPrefix
    <2> QED
        BY <2>1 DEF Above
<1> QED
    BY <1>4, <1>5

\* Rows are of the table's type.
LEMMA RowsAre == ASSUME NEW S, NEW rows \in Seq(S) PROVE \A s \in Range(rows) : s \in S
<1>1. \A i \in DOMAIN rows : rows[i] \in S
    OBVIOUS
<1> QED
    BY <1>1 DEF Range

\* The permission of a share of a library
LEMMA SharePermRow ==
    ASSUME SharingAssumption, Types, NEW r, NEW u
    PROVE  SharePerm(r, u) # Nothing <=> \E s \in Range(shared) : s.repo = r /\ s.to = u
<1> DEFINE those == {s \in Range(shared) : s.repo = r /\ s.to = u}
           rows == Where(shared, those)
<1>1. shared \in Seq(ShareRow) /\ \A s \in Range(shared) : s.perm \in Rights
    <2>1. shared \in Seq(ShareRow)
        BY DEF Types
    <2>2. \A s \in Range(shared) : s \in ShareRow
        BY <2>1, RowsAre
    <2> QED
        BY <2>1, <2>2 DEF ShareRow
<1>2. rows \in Seq(ShareRow) /\ Range(rows) = those
    <2>1. Range(shared) \cap those = those
        OBVIOUS
    <2> HIDE DEF those
    <2> QED
        BY <1>1, <2>1, WhereRows
<1>3. SharePerm(r, u) = FirstPerm(rows)
    BY DEF SharePerm
<1>4. FirstPerm(rows) # Nothing <=> Range(rows) # {}
    <2>1. \A s \in Range(rows) : s.perm \in Rights
        BY <1>1, <1>2
    <2> HIDE DEF rows
    <2> QED
        BY <1>2, <2>1, FirstPermRow
<1> QED
    BY <1>2, <1>3, <1>4

\* The permission of shares of a library to groups
LEMMA GroupPermRow ==
    ASSUME SharingAssumption, PermTypes, NEW r, NEW groups
    PROVE  GroupPerm(r, groups) # Nothing
           <=> \E s \in Range(groupShared) : s.repo = r /\ s.group \in groups
<1> DEFINE P == {s.perm : s \in {t \in Range(groupShared) : t.repo = r /\ t.group \in groups}}
<1>1. \A s \in Range(groupShared) : s.perm \in Rights
    <2>1. groupShared \in Seq(GroupRow)
        BY DEF PermTypes
    <2>2. \A s \in Range(groupShared) : s \in GroupRow
        BY <2>1, RowsAre
    <2> QED
        BY <2>2 DEF GroupRow
<1>2. P \subseteq Rights
    BY <1>1
<1>3. GroupPerm(r, groups) = Best(P)
    BY DEF GroupPerm
<1>4. P # {} <=> \E s \in Range(groupShared) : s.repo = r /\ s.group \in groups
    OBVIOUS
<1>5. Best(P) # Nothing <=> P # {}
    <2> HIDE DEF P
    <2> QED
        BY <1>2, BestOf
<1> QED
    BY <1>3, <1>4, <1>5

\* The rows of a library's directories, and those at one path
DirRows(rows, l) == {s \in Range(rows) : IsVirtual(s.repo) /\ vinfo[s.repo].origin = l}
PathRows(rows, p) == {s \in Range(rows) : vinfo[s.repo].path = p}

LEMMA DirsOfRows ==
    ASSUME NEW S, NEW rows \in Seq(S), NEW l, NEW p
    PROVE  /\ DirsOf(rows, l) \in Seq(S) /\ Range(DirsOf(rows, l)) = DirRows(rows, l)
           /\ AtPath(rows, p) \in Seq(S) /\ Range(AtPath(rows, p)) = PathRows(rows, p)
<1>1. /\ DirsOf(rows, l) = Where(rows, DirRows(rows, l))
      /\ AtPath(rows, p) = Where(rows, PathRows(rows, p))
    BY DEF DirsOf, AtPath, DirRows, PathRows
<1>2. /\ Range(rows) \cap DirRows(rows, l) = DirRows(rows, l)
      /\ Range(rows) \cap PathRows(rows, p) = PathRows(rows, p)
    BY DEF DirRows, PathRows
<1>3. /\ Where(rows, DirRows(rows, l)) \in Seq(S)
      /\ Range(Where(rows, DirRows(rows, l))) = DirRows(rows, l)
    BY <1>2, WhereRows
<1>4. /\ Where(rows, PathRows(rows, p)) \in Seq(S)
      /\ Range(Where(rows, PathRows(rows, p))) = PathRows(rows, p)
    BY <1>2, WhereRows
<1> QED
    BY <1>1, <1>3, <1>4

\* Shares of directories to a user
LEMMA SharedDirsRows ==
    ASSUME SharingAssumption, Types, NEW l, NEW u
    PROVE  /\ SharedDirs(l, u) \in Seq(ShareRow)
           /\ \A s \in Range(SharedDirs(l, u)) : s.perm \in Rights
           /\ Range(SharedDirs(l, u)) =
                {s \in Range(shared) : s.to = u /\ IsVirtual(s.repo) /\ vinfo[s.repo].origin = l}
<1> DEFINE those == {s \in Range(shared) : s.to = u}
           rows == Where(shared, those)
<1>1. shared \in Seq(ShareRow)
    BY DEF Types
<1>2. rows \in Seq(ShareRow) /\ Range(rows) = those
    <2>1. Range(shared) \cap those = those
        OBVIOUS
    <2> HIDE DEF those
    <2> QED
        BY <1>1, <2>1, WhereRows
<1>3. SharedDirs(l, u) = DirsOf(rows, l)
    BY DEF SharedDirs
<1>4. DirsOf(rows, l) \in Seq(ShareRow) /\ Range(DirsOf(rows, l)) = DirRows(rows, l)
    <2> HIDE DEF rows
    <2> QED
        BY <1>2, DirsOfRows
<1>5. \A s \in Range(shared) : s.perm \in Rights
    <2>1. \A s \in Range(shared) : s \in ShareRow
        BY <1>1, RowsAre
    <2> QED
        BY <2>1 DEF ShareRow
<1>6. DirRows(rows, l) =
        {s \in Range(shared) : s.to = u /\ IsVirtual(s.repo) /\ vinfo[s.repo].origin = l}
    <2> HIDE DEF rows
    <2> QED
        BY <1>2 DEF DirRows
<1> QED
    BY <1>3, <1>4, <1>5, <1>6

\* and to groups
LEMMA GroupDirsRows ==
    ASSUME SharingAssumption, PermTypes, NEW l, NEW groups
    PROVE  /\ GroupDirs(l, groups) \in Seq(GroupRow)
           /\ \A s \in Range(GroupDirs(l, groups)) : s.perm \in Rights
           /\ Range(GroupDirs(l, groups)) =
                {s \in Range(groupShared) :
                    s.group \in groups /\ IsVirtual(s.repo) /\ vinfo[s.repo].origin = l}
<1> DEFINE those == {s \in Range(groupShared) : s.group \in groups}
           rows == Where(groupShared, those)
<1>1. groupShared \in Seq(GroupRow)
    BY DEF PermTypes
<1>2. rows \in Seq(GroupRow) /\ Range(rows) = those
    <2>1. Range(groupShared) \cap those = those
        OBVIOUS
    <2> HIDE DEF those
    <2> QED
        BY <1>1, <2>1, WhereRows
<1>3. GroupDirs(l, groups) = DirsOf(rows, l)
    BY DEF GroupDirs
<1>4. DirsOf(rows, l) \in Seq(GroupRow) /\ Range(DirsOf(rows, l)) = DirRows(rows, l)
    <2> HIDE DEF rows
    <2> QED
        BY <1>2, DirsOfRows
<1>5. \A s \in Range(groupShared) : s.perm \in Rights
    <2>1. \A s \in Range(groupShared) : s \in GroupRow
        BY <1>1, RowsAre
    <2> QED
        BY <2>1 DEF GroupRow
<1>6. DirRows(rows, l) =
        {s \in Range(groupShared) :
            s.group \in groups /\ IsVirtual(s.repo) /\ vinfo[s.repo].origin = l}
    <2> HIDE DEF rows
    <2> QED
        BY <1>2 DEF DirRows
<1> QED
    BY <1>3, <1>4, <1>5, <1>6

\* What they allow at one path
LEMMA DirPermRow ==
    ASSUME SharingAssumption, Types, PermTypes, NEW l, NEW u, NEW p
    PROVE  /\ UserDirPerm(l, u, p) # Nothing
              <=> \E s \in Range(SharedDirs(l, u)) : vinfo[s.repo].path = p
           /\ GroupDirPerm(l, u, p) # Nothing
              <=> \E s \in Range(GroupDirs(l, GroupsOf(u))) : vinfo[s.repo].path = p
<1> DEFINE mine == SharedDirs(l, u)
           ours == GroupDirs(l, GroupsOf(u))
<1>1. /\ mine \in Seq(ShareRow) /\ \A s \in Range(mine) : s.perm \in Rights
      /\ ours \in Seq(GroupRow) /\ \A s \in Range(ours) : s.perm \in Rights
    BY SharedDirsRows, GroupDirsRows
<1>2. UserDirPerm(l, u, p) = LastPerm(AtPath(mine, p))
    BY DEF UserDirPerm
<1>3. GroupDirPerm(l, u, p) = Best({s.perm : s \in Range(AtPath(ours, p))})
    BY DEF GroupDirPerm
<1> HIDE DEF mine, ours
<1>4. /\ AtPath(mine, p) \in Seq(ShareRow) /\ Range(AtPath(mine, p)) = PathRows(mine, p)
      /\ AtPath(ours, p) \in Seq(GroupRow) /\ Range(AtPath(ours, p)) = PathRows(ours, p)
    BY <1>1, DirsOfRows
<1>5. /\ \A s \in PathRows(mine, p) : s \in Range(mine) /\ s.perm \in Rights
      /\ \A s \in PathRows(ours, p) : s \in Range(ours) /\ s.perm \in Rights
    BY <1>1 DEF PathRows
<1>6. UserDirPerm(l, u, p) # Nothing <=> PathRows(mine, p) # {}
    BY <1>2, <1>4, <1>5, LastPermRow
<1>7. GroupDirPerm(l, u, p) # Nothing <=> PathRows(ours, p) # {}
    <2> DEFINE P == {s.perm : s \in PathRows(ours, p)}
    <2>1. P \subseteq Rights /\ (P # {} <=> PathRows(ours, p) # {})
        BY <1>5
    <2>2. GroupDirPerm(l, u, p) = Best(P)
        BY <1>3, <1>4
    <2> HIDE DEF P
    <2> QED
        BY <2>1, <2>2, BestOf
<1> QED
    BY <1>6, <1>7 DEF mine, ours, PathRows

\* A directory, or one above it, is shared to the user or to one of the user's groups.
LEMMA ParentPerm ==
    ASSUME SharingAssumption, Types, PermTypes, NEW v \in VRepos, NEW u \in Accounts, IsVirtual(v)
    PROVE  CheckOnParent(vinfo[v].origin, u, vinfo[v].path) # Nothing <=> OpensByDir(v, u)
<1> DEFINE l == vinfo[v].origin
           path == vinfo[v].path
           mine == [p \in Above(path) |-> UserDirPerm(l, u, p)]
           ours == [p \in Above(path) |-> GroupDirPerm(l, u, p)]
<1>1. \A w \in VRepos : IsVirtual(w) => vinfo[w].path \in Dirs
    BY DEF Types, IsVirtual
<1>2. \A w : IsVirtual(w) => w \in VRepos
    BY DEF IsVirtual
<1>3. path \in Dirs /\ path \in Seq(Range(path))
    BY <1>1 DEF SharingAssumption
<1>4. CheckOnParent(l, u, path) = IF Deepest(mine) # Nothing THEN Deepest(mine) ELSE Deepest(ours)
    BY DEF CheckOnParent
<1>5. /\ Deepest(mine) # Nothing <=> \E p \in Above(path) : UserDirPerm(l, u, p) # Nothing
      /\ Deepest(ours) # Nothing <=> \E p \in Above(path) : GroupDirPerm(l, u, p) # Nothing
    <2>1. DOMAIN mine = Above(path) /\ DOMAIN ours = Above(path)
        OBVIOUS
    <2>2. /\ \A p \in Above(path) : mine[p] = UserDirPerm(l, u, p)
          /\ \A p \in Above(path) : ours[p] = GroupDirPerm(l, u, p)
        OBVIOUS
    <2> HIDE DEF mine, ours, path
    <2>3. /\ Deepest(mine) # Nothing <=> \E p \in Above(path) : mine[p] # Nothing
          /\ Deepest(ours) # Nothing <=> \E p \in Above(path) : ours[p] # Nothing
        BY <1>3, <2>1, DeepestFound
    <2> QED
        BY <2>2, <2>3
<1>6. (\E p \in Above(path) : UserDirPerm(l, u, p) # Nothing)
      <=> \E s \in Range(shared) : s.to = u /\ IsVirtual(s.repo)
              /\ vinfo[s.repo].origin = l /\ vinfo[s.repo].path \in Above(path)
    BY DirPermRow, SharedDirsRows
<1>7. (\E p \in Above(path) : GroupDirPerm(l, u, p) # Nothing)
      <=> \E s \in Range(groupShared) : s.group \in GroupsOf(u) /\ IsVirtual(s.repo)
              /\ vinfo[s.repo].origin = l /\ vinfo[s.repo].path \in Above(path)
    BY DirPermRow, GroupDirsRows
<1>8. \A w : IsVirtual(w) => (vinfo[w].path \in Above(path) <=> IsPrefix(vinfo[w].path, path))
    <2> HIDE DEF path
    <2> QED
        BY <1>1, <1>2, <1>3, AboveIsPrefix
<1> QED
    BY <1>4, <1>5, <1>6, <1>7, <1>8 DEF OpensByDir

\* If groups have been given one permission for a path, the Go server's choice among
\* their rows does not matter.
LEMMA GoGroupDirPerm ==
    ASSUME SharingAssumption, Types, PermTypes, NEW l, NEW u, NEW p, OneWay(l, u)
    PROVE  LastPerm(AtPath(GroupDirs(l, GroupsOf(u)), p)) = GroupDirPerm(l, u, p)
<1> DEFINE ours == GroupDirs(l, GroupsOf(u))
           rows == AtPath(ours, p)
           P == {s.perm : s \in Range(rows)}
<1>1. ours \in Seq(GroupRow) /\ \A s \in Range(ours) : s.perm \in Rights
    BY GroupDirsRows
<1>2. \A s, t \in Range(ours) : vinfo[s.repo].path = vinfo[t.repo].path => s.perm = t.perm
    BY DEF OneWay
<1>3. GroupDirPerm(l, u, p) = Best(P)
    BY DEF GroupDirPerm
<1> HIDE DEF ours
<1>4. rows \in Seq(GroupRow) /\ Range(rows) = PathRows(ours, p)
    BY <1>1, DirsOfRows
<1> HIDE DEF rows
<1>5. \A s, t \in Range(rows) : s.perm \in Rights /\ s.perm = t.perm
    BY <1>1, <1>2, <1>4 DEF PathRows
<1>6. P \subseteq Rights /\ (P = {} <=> Range(rows) = {})
    BY <1>5
<1>7. /\ LastPerm(rows) # Nothing <=> Range(rows) # {}
      /\ LastPerm(rows) # Nothing => \E s \in Range(rows) : LastPerm(rows) = s.perm
    BY <1>4, <1>5, LastPermRow
<1>8. CASE Range(rows) = {}
    <2> HIDE DEF P
    <2>1. Best(P) = Nothing
        BY <1>6, <1>8, BestOf
    <2> QED
        BY <1>3, <1>7, <1>8, <2>1 DEF rows, ours
<1>9. CASE Range(rows) # {}
    <2>1. PICK s \in Range(rows) : LastPerm(rows) = s.perm
        BY <1>7, <1>9
    <2>2. P = {s.perm} /\ s.perm \in Rights
        BY <1>5
    <2> HIDE DEF P
    <2>3. Best(P) = s.perm
        BY <1>6, <2>2, BestOf
    <2> QED
        BY <1>3, <2>1, <2>3 DEF rows, ours
<1> QED
    BY <1>8, <1>9

\* On the way up from a path both servers find the same, or the Go server never ends.
LEMMA GoParent ==
    ASSUME SharingAssumption, Types, PermTypes, NEW l, NEW u, NEW path,
           OneWay(l, u), GroupsOf(u) = GoGroupsOf(u)
    PROVE  GoCheckOnParent(l, u, path) \in {CheckOnParent(l, u, path), "hangs"}
<1> DEFINE mine == [p \in Above(path) |-> UserDirPerm(l, u, p)]
           ours == [p \in Above(path) |-> GroupDirPerm(l, u, p)]
           goOurs == [p \in Above(path) |-> LastPerm(AtPath(GroupDirs(l, GroupsOf(u)), p))]
           goMine == GoDirPerm(SharedDirs(l, u), path)
           goRest == GoDirPerm(GroupDirs(l, GroupsOf(u)), path)
<1>1. goOurs = ours
    BY GoGroupDirPerm
<1>2. goMine \in {Deepest(mine), "hangs"}
    BY DEF GoDirPerm, UserDirPerm
<1>3. goRest \in {Deepest(goOurs), "hangs"}
    BY DEF GoDirPerm
<1>4. GoCheckOnParent(l, u, path) = IF goMine # Nothing THEN goMine ELSE goRest
    BY DEF GoCheckOnParent
<1>5. CheckOnParent(l, u, path) = IF Deepest(mine) # Nothing THEN Deepest(mine) ELSE Deepest(ours)
    BY DEF CheckOnParent
<1>6. Nothing # "hangs"
    BY DEF SharingAssumption
<1> HIDE DEF mine, ours, goOurs, goMine, goRest
<1> QED
    BY <1>1, <1>2, <1>3, <1>4, <1>5, <1>6

\* The whole check.
LEMMA GoPermission ==
    ASSUME SharingAssumption, Types, PermTypes
    PROVE  GoAgrees
<1> SUFFICES ASSUME NEW r \in live, NEW u \in Accounts, owner[r] # Nothing,
                    GroupsOf(u) = GoGroupsOf(u), IsVirtual(r) => OneWay(vinfo[r].origin, u)
             PROVE  GoCheckPerm(r, u) \in {CheckPermission(r, u), "hangs"}
    BY DEF GoAgrees
<1>1. \A q : owner[q] # u => GoCheckRepoShare(q, u) = CheckRepoShare(q, u)
    BY DEF GoCheckRepoShare, CheckRepoShare
<1>2. CASE ~IsVirtual(r)
    BY <1>1, <1>2 DEF GoCheckPerm, CheckPermission, GoCheckRepoShare
<1>3. CASE IsVirtual(r)
    <2> DEFINE l == vinfo[r].origin
               dir == CheckOnParent(l, u, vinfo[r].path)
               goDir == GoCheckOnParent(l, u, vinfo[r].path)
    <2>1. goDir \in {dir, "hangs"}
        BY <1>3, GoParent
    <2>2. /\ CheckPermission(r, u) = IF owner[l] = u THEN "rw"
                                     ELSE IF dir # Nothing THEN dir ELSE CheckRepoShare(l, u)
          /\ GoCheckPerm(r, u) = IF owner[l] = u THEN "rw"
                                 ELSE IF goDir # Nothing THEN goDir ELSE GoCheckRepoShare(l, u)
        BY <1>3 DEF CheckPermission, CheckVirtual, GoCheckPerm, GoCheckVirtual
    <2>3. Nothing # "hangs"
        BY DEF SharingAssumption
    <2> HIDE DEF dir, goDir, l
    <2> QED
        BY <1>1, <2>1, <2>2, <2>3
<1> QED
    BY <1>2, <1>3

\* A library that is there opens for its owner, for whom it is shared, or for all.
LEMMA LibraryPerm ==
    ASSUME SharingAssumption, PermTypes, NEW r \in live, ~IsVirtual(r), NEW u
    PROVE  CheckPermission(r, u) = IF owner[r] = u THEN "rw" ELSE CheckRepoShare(r, u)
BY DEF CheckPermission, PermTypes, SharingAssumption

\* A virtual repo opens by its directory or by the library.
LEMMA DirectoryPerm ==
    ASSUME SharingAssumption, Types, PermTypes
    PROVE  DirectoryAccess
<1> SUFFICES ASSUME NEW v \in VRepos, NEW u \in Accounts, IsVirtual(v)
             PROVE  CheckPermission(v, u) # Nothing
                    <=> CheckPermission(vinfo[v].origin, u) # Nothing \/ OpensByDir(v, u)
    BY DEF DirectoryAccess
<1> DEFINE l == vinfo[v].origin
           dir == CheckOnParent(l, u, vinfo[v].path)
<1>1. l \in Libs /\ l \in live /\ ~IsVirtual(l)
    BY DEF Types, IsVirtual, SharingAssumption
<1>2. CheckPermission(l, u) = IF owner[l] = u THEN "rw" ELSE CheckRepoShare(l, u)
    BY <1>1, LibraryPerm
<1>3. CheckPermission(v, u) = IF owner[l] = u THEN "rw"
                              ELSE IF dir # Nothing THEN dir ELSE CheckRepoShare(l, u)
    BY DEF CheckPermission, CheckVirtual
<1>4. dir # Nothing <=> OpensByDir(v, u)
    BY ParentPerm
<1>5. Nothing # "rw"
    BY DEF SharingAssumption, Rights
<1> HIDE DEF dir, l
<1>6. CheckPermission(v, u) # Nothing <=> CheckPermission(l, u) # Nothing \/ OpensByDir(v, u)
    BY <1>2, <1>3, <1>4, <1>5
<1> QED
    BY <1>6 DEF l

\* What a list for a sync client names opens, a library with the permission listed.
LEMMA ListedPerm ==
    ASSUME SharingAssumption, Types, PermTypes
    PROVE  ListedIsAccessible
<1> SUFFICES ASSUME ~CloudMode, NEW u \in Accounts, NEW e \in AccessibleList(u)
             PROVE  /\ CheckPermission(e.repo, u) # Nothing
                    /\ ~IsVirtual(e.repo) => CheckPermission(e.repo, u) = e.perm
    BY DEF ListedIsAccessible
<1> DEFINE own == OwnRepos(u)
           two == Adding(own, SharedRepos(u))
           three == Adding(two, GroupRepos(u))
           r == e.repo
<1>1. \A list, more : Adding(list, more) = list \cup {f \in more : \A g \in list : g.repo # f.repo}
    BY DEF Adding
<1>2. AccessibleList(u) = Adding(three, PublicRepos)
    BY DEF AccessibleList
<1>3. \A q \in live : owner[q] = u /\ ~IsVirtual(q) => \E f \in own : f.repo = q
    <2> SUFFICES ASSUME NEW q \in live, owner[q] = u, ~IsVirtual(q)
                 PROVE  \E f \in own : f.repo = q
        OBVIOUS
    <2>1. [repo |-> q, perm |-> "rw"] \in own
        BY DEF OwnRepos
    <2> QED
        BY <2>1
<1>4. \A q \in live : SharePerm(q, u) # Nothing => \E f \in two : f.repo = q
    <2> SUFFICES ASSUME NEW q \in live, SharePerm(q, u) # Nothing PROVE \E f \in two : f.repo = q
        OBVIOUS
    <2>1. PICK f \in SharedRepos(u) : f = [repo |-> q, perm |-> SharePerm(q, u)]
        BY DEF SharedRepos
    <2>2. f.repo = q
        BY <2>1
    <2> HIDE DEF own
    <2> QED
        BY <1>1, <2>1, <2>2
<1>5. \A q \in live : GroupPerm(q, GroupsOf(u)) # Nothing => \E f \in three : f.repo = q
    <2> SUFFICES ASSUME NEW q \in live, GroupPerm(q, GroupsOf(u)) # Nothing
                 PROVE  \E f \in three : f.repo = q
        OBVIOUS
    <2>1. PICK f \in GroupRepos(u) : f = [repo |-> q, perm |-> GroupPerm(q, GroupsOf(u))]
        BY DEF GroupRepos
    <2>2. f.repo = q
        BY <2>1
    <2> HIDE DEF two
    <2> QED
        BY <1>1, <2>1, <2>2
<1>6. \A f \in own : f \in two
    BY <1>1
<1>7. \A f \in two : f \in three
    <2> HIDE DEF two
    <2> QED
        BY <1>1
<1>8. Nothing \notin {"rw", "r"} /\ \A q \in live : owner[q] \in Accounts
    BY DEF SharingAssumption, Rights, PermTypes
<1>9. \A q \in live : ~IsVirtual(q) =>
        CheckPermission(q, u) = IF owner[q] = u THEN "rw" ELSE CheckRepoShare(q, u)
    BY LibraryPerm
<1>10. ASSUME IsVirtual(r), OpensByDir(r, u) PROVE CheckPermission(r, u) # Nothing
    BY <1>10, DirectoryPerm DEF DirectoryAccess, IsVirtual
<1>11. IsVirtual(r) => IsPrefix(vinfo[r].path, vinfo[r].path)
    <2> SUFFICES ASSUME IsVirtual(r) PROVE IsPrefix(vinfo[r].path, vinfo[r].path)
        OBVIOUS
    <2>1. vinfo[r].path \in Dirs
        BY DEF Types, IsVirtual
    <2>2. vinfo[r].path \in Seq(Range(vinfo[r].path))
        BY <2>1 DEF SharingAssumption
    <2> QED
        BY <2>2 DEF IsPrefix
<1>12. CASE e \in own
    <2>1. r \in live /\ owner[r] = u /\ ~IsVirtual(r) /\ e.perm = "rw"
        BY <1>12 DEF OwnRepos
    <2> QED
        BY <1>8, <1>9, <2>1
<1>13. CASE e \in two /\ e \notin own
    <2>1. e \in SharedRepos(u) /\ \A g \in own : g.repo # r
        <3> HIDE DEF own
        <3> QED
            BY <1>1, <1>13
    <2>2. r \in live /\ e.perm = SharePerm(r, u) /\ SharePerm(r, u) # Nothing
        BY <2>1 DEF SharedRepos
    <2>3. CASE ~IsVirtual(r)
        <3>1. owner[r] # u
            BY <1>3, <2>1, <2>2, <2>3
        <3>2. CheckRepoShare(r, u) = SharePerm(r, u)
            BY <2>2 DEF CheckRepoShare
        <3> QED
            BY <1>9, <2>2, <2>3, <3>1, <3>2
    <2>4. CASE IsVirtual(r)
        <3>1. PICK s \in Range(shared) : s.repo = r /\ s.to = u
            BY <2>2, SharePermRow
        <3>2. OpensByDir(r, u)
            BY <1>11, <2>4, <3>1 DEF OpensByDir
        <3> QED
            BY <1>10, <2>4, <3>2
    <2> QED
        BY <2>3, <2>4
<1>14. CASE e \in three /\ e \notin two
    <2>1. e \in GroupRepos(u) /\ \A g \in two : g.repo # r
        <3> HIDE DEF two
        <3> QED
            BY <1>1, <1>14
    <2>2. /\ r \in live /\ e.perm = GroupPerm(r, GroupsOf(u))
          /\ GroupPerm(r, GroupsOf(u)) # Nothing
        BY <2>1 DEF GroupRepos
    <2>3. CASE ~IsVirtual(r)
        <3>1. owner[r] # u
            <4> HIDE DEF own, two
            <4> QED
                BY <1>3, <1>6, <2>1, <2>2, <2>3
        <3>2. SharePerm(r, u) = Nothing
            <4> HIDE DEF two
            <4> QED
                BY <1>4, <2>1, <2>2
        <3>3. CheckRepoShare(r, u) = GroupPerm(r, GroupsOf(u))
            BY <2>2, <3>2 DEF CheckRepoShare
        <3> QED
            BY <1>9, <2>2, <2>3, <3>1, <3>3
    <2>4. CASE IsVirtual(r)
        <3>1. PICK s \in Range(groupShared) : s.repo = r /\ s.group \in GroupsOf(u)
            BY <2>2, GroupPermRow
        <3>2. OpensByDir(r, u)
            BY <1>11, <2>4, <3>1 DEF OpensByDir
        <3> QED
            BY <1>10, <2>4, <3>2
    <2> QED
        BY <2>3, <2>4
<1>15. CASE e \notin three
    <2>1. e \in PublicRepos /\ \A g \in three : g.repo # r
        <3> HIDE DEF three
        <3> QED
            BY <1>1, <1>2, <1>15
    <2>2. r \in live /\ e.perm = public[r] /\ public[r] # Nothing
        BY <2>1 DEF PublicRepos
    <2>3. ~IsVirtual(r)
        BY <2>2 DEF PermTypes, IsVirtual
    <2>4. owner[r] # u /\ SharePerm(r, u) = Nothing /\ GroupPerm(r, GroupsOf(u)) = Nothing
        <3> HIDE DEF own, two, three
        <3> QED
            BY <1>3, <1>4, <1>5, <1>6, <1>7, <2>1, <2>2, <2>3
    <2>5. CheckRepoShare(r, u) = public[r]
        BY <2>4 DEF CheckRepoShare
    <2> QED
        BY <1>9, <2>2, <2>3, <2>4, <2>5
<1> QED
    BY <1>12, <1>13, <1>14, <1>15

----------------------------------------------------------------------------
\* The tables they read

\* Steps that leave those tables alone.
LEMMA SamePerms ==
    ASSUME PermTypes, UNCHANGED <<owner, live, groupShared, public>>
    PROVE  PermTypes'
BY DEF PermTypes

\* UPDATE of RepoGroup
LEMMA UpdatedGroupRows ==
    ASSUME NEW rows \in Seq(GroupRow), NEW those, NEW p \in Rights
    PROVE  Updated(rows, those, p) \in Seq(GroupRow)
<1> DEFINE new == Updated(rows, those, p)
<1>1. rows \in [1..Len(rows) -> GroupRow] /\ Len(rows) \in Nat
    OBVIOUS
<1>2. \A i \in 1..Len(rows) : new[i] \in GroupRow
    BY <1>1 DEF Updated, GroupRow
<1>3. new = [i \in 1..Len(rows) |-> new[i]] /\ DOMAIN new = 1..Len(rows)
    BY <1>1 DEF Updated
<1> HIDE DEF new
<1>4. new \in [1..Len(rows) -> GroupRow]
    BY <1>2, <1>3
<1>5. new \in Seq(GroupRow)
    BY <1>1, <1>4, SeqDef
<1> QED
    BY <1>5 DEF new

\* Requests that delete or change shares to groups.
LEMMA ChangeGroupShares ==
    ASSUME PermTypes, NEW these, NEW p \in Rights,
           OnGroupShares(Without(groupShared, these)) \/ OnGroupShares(Updated(groupShared, these, p))
    PROVE  PermTypes'
<1>1. groupShared' \in Seq(GroupRow)
    BY WithoutRows, UpdatedGroupRows DEF PermTypes, OnGroupShares
<1> QED
    BY <1>1 DEF PermTypes, OnGroupShares

\* A new row of RepoGroup
LEMMA WithGroupShareRows ==
    ASSUME groupShared \in Seq(GroupRow), NEW r \in Repos, NEW g \in Groups,
           NEW u \in Accounts \cup {Nothing}, NEW p \in Rights
    PROVE  WithGroupShare(r, g, u, p) \in Seq(GroupRow)
<1>1. [repo |-> r, group |-> g, user |-> u, perm |-> p] \in GroupRow
    BY DEF GroupRow
<1> QED
    BY <1>1, AppendRows DEF WithGroupShare

\* A virtual repo belongs to a user.
LEMMA CreatePerms ==
    ASSUME Types, PermTypes, NEW v \in VRepos, NEW l \in Libs, NEW dir \in Dirs,
           CreateVirtualRepo(v, l, dir), public' = public, groupShared' \in Seq(GroupRow)
    PROVE  PermTypes'
<1>1. /\ live' = live \cup {v}
      /\ owner' = [owner EXCEPT ![v] = IF v \in live THEN owner[v] ELSE owner[l]]
    BY DEF CreateVirtualRepo
<1>2. owner[l] \in Accounts /\ v \in Repos /\ live \subseteq Repos /\ DOMAIN owner = Repos
    BY DEF Types, PermTypes, Repos
<1>3. \A r \in live' : owner'[r] \in Accounts
    BY <1>1, <1>2 DEF PermTypes
<1> QED
    BY <1>3 DEF PermTypes

\* The requests, and the steps of the changes of owners and ids.
LEMMA PermStep == SharingAssumption /\ OwnersInv /\ PermTypes /\ [SharingNext]_sharingVars => PermTypes'
<1> SUFFICES ASSUME SharingAssumption, OwnersInv, PermTypes, [SharingNext]_sharingVars PROVE PermTypes'
    OBVIOUS
<1> DEFINE Same == UNCHANGED <<owner, live, groupShared, public>>
<1>1. Types /\ \A r \in live : owner[r] \in Accounts
    BY DEF OwnersInv, PermTypes
<1>2. /\ owner \in [Repos -> Accounts \cup {Nothing}] /\ live \subseteq Repos /\ Libs \subseteq live
      /\ groupShared \in Seq(GroupRow) /\ public \in [Repos -> Rights \cup {Nothing}]
      /\ \A v \in VRepos : public[v] = Nothing
      /\ \A v \in VRepos : v \in Repos /\ v \notin Libs
    BY <1>1 DEF Types, PermTypes, Repos, SharingAssumption
<1>3. CASE \E r \in Repos, u \in Accounts, p \in Rights :
              AddShare(r, u, p) \/ RemoveShare(r, owner[r], u)
              \/ SetSharePermission(r, owner[r], u, p)
    <2>1. Same
        BY <1>3 DEF AddShare, RemoveShare, SetSharePermission, OnShares
    <2> QED
        BY <2>1, SamePerms
<1>4. CASE \E r \in Repos, g \in Groups, p \in Rights : GroupShareRepo(r, g, p)
    <2>1. PICK r \in Repos, g \in Groups, p \in Rights :
             OnGroupShares(WithGroupShare(r, g, owner[r], p))
        BY <1>4 DEF GroupShareRepo
    <2>2. groupShared' \in Seq(GroupRow)
        BY <1>2, <2>1, WithGroupShareRows DEF OnGroupShares
    <2> QED
        BY <2>1, <2>2 DEF PermTypes, OnGroupShares
<1>5. CASE \E r \in Repos, g \in Groups, p \in Rights :
              GroupUnshareRepo(r, g) \/ SetGroupRepoPermission(r, g, p)
    <2>1. PICK r \in Repos, g \in Groups, p \in Rights :
              \/ OnGroupShares(Without(groupShared, GroupSharesOf(r, g)))
              \/ OnGroupShares(Updated(groupShared, GroupSharesOf(r, g), p))
        BY <1>5 DEF GroupUnshareRepo, SetGroupRepoPermission
    <2> QED
        BY <2>1, ChangeGroupShares
<1>6. CASE \E l \in Libs, dir \in Dirs, u \in Accounts, p \in Rights :
              UnshareSubdir(l, dir, owner[l], u) \/ SetSubdirPermission(l, dir, owner[l], u, p)
    <2>1. Same
        BY <1>6 DEF UnshareSubdir, SetSubdirPermission, OnShares
    <2> QED
        BY <2>1, SamePerms
<1>7. CASE \E l \in Libs, dir \in Dirs, u \in Accounts, p \in Rights : ShareSubdirToUser(l, dir, u, p)
    <2>1. PICK l \in Libs, dir \in Dirs, v \in VRepos :
             CreateVirtualRepo(v, l, dir) /\ public' = public /\ groupShared' = groupShared
        BY <1>7 DEF ShareSubdirToUser
    <2> QED
        BY <1>1, <1>2, <2>1, CreatePerms
<1>8. CASE \E l \in Libs, dir \in Dirs, g \in Groups, p \in Rights :
              ShareSubdirToGroup(l, dir, g, p)
    <2>1. PICK l \in Libs, dir \in Dirs, g \in Groups, p \in Rights, v \in VRepos :
             /\ CreateVirtualRepo(v, l, dir) /\ public' = public
             /\ groupShared' = IF NotShared(v, g) THEN WithGroupShare(v, g, owner[l], p)
                               ELSE groupShared
        BY <1>8 DEF ShareSubdirToGroup
    <2>2. owner[l] \in Accounts \cup {Nothing} /\ v \in Repos
        BY <1>2 DEF Repos
    <2>3. groupShared' \in Seq(GroupRow)
        BY <1>2, <2>1, <2>2, WithGroupShareRows
    <2> QED
        BY <1>1, <2>1, <2>3, CreatePerms
<1>9. CASE \E l \in Libs, dir \in Dirs, g \in Groups, p \in Rights :
              UnshareSubdirForGroup(l, dir, owner[l], g)
              \/ SetSubdirGroupPermission(l, dir, owner[l], g, p)
    <2>1. PICK l \in Libs, dir \in Dirs, g \in Groups, p \in Rights :
              \/ OnGroupShares(Without(groupShared, SubdirGroupShares(l, dir, owner[l], g)))
              \/ OnGroupShares(Updated(groupShared, SubdirGroupShares(l, dir, owner[l], g), p))
        BY <1>9 DEF UnshareSubdirForGroup, SetSubdirGroupPermission
    <2> QED
        BY <2>1, ChangeGroupShares
<1>10. CASE \E g \in Groups, u \in Accounts : RemoveRepoGroup(g, u) \/ RemoveRepoGroup(g, Nothing)
    <2>1. PICK g, u : OnGroupShares(Without(groupShared,
                         {s \in Range(groupShared) : s.group = g /\ u \in {Nothing, s.user}}))
        BY <1>10 DEF RemoveRepoGroup
    <2> DEFINE these == {s \in Range(groupShared) : s.group = g /\ u \in {Nothing, s.user}}
    <2>2. OnGroupShares(Without(groupShared, these))
        BY <2>1
    <2> HIDE DEF these
    <2>3. "r" \in Rights
        BY DEF Rights
    <2> QED
        BY <2>2, <2>3, ChangeGroupShares
<1>11. CASE \/ \E g \in Groups, u \in Accounts :
                  \/ \E h \in Groups \cup {Nothing} : CreateGroup(g, u, h)
                  \/ AddMember(g, u) \/ QuitGroup(g, u)
                  \/ \E by \in Accounts : RemoveMember(g, by, u)
                  \/ \E s \in BOOLEAN : SetStaff(g, u, s)
            \/ \E g \in Groups, anyway \in BOOLEAN : RemoveGroup(g, anyway)
            \/ \E u \in Accounts : AddEmailUser(u) \/ RemoveEmailUser(u)
            \/ UNCHANGED sharingVars
    <2>1. Same
        BY <1>11 DEF CreateGroup, AddMember, QuitGroup, RemoveMember, SetStaff, OnMembers,
                     RemoveGroup, AddEmailUser, RemoveEmailUser, shareTables, sharingVars
    <2> QED
        BY <2>1, SamePerms
<1>12. CASE \E l \in Libs, u \in Accounts : SetRepoOwner(l, u)
    <2>1. PICK l \in Libs, u \in Accounts : /\ owner' = [owner EXCEPT ![l] = u]
                                         /\ UNCHANGED <<live, groupShared, public>>
        BY <1>12 DEF SetRepoOwner
    <2>2. \A r \in live : owner'[r] \in Accounts
        BY <1>1, <1>2, <2>1
    <2> QED
        BY <2>1, <2>2 DEF PermTypes
<1>13. CASE \E l \in Libs, p \in Rights \cup {Nothing} : SetInnerPubRepo(l, p)
    <2>1. PICK l \in Libs, p \in Rights \cup {Nothing} :
             public' = [public EXCEPT ![l] = p] /\ UNCHANGED <<owner, live, groupShared>>
        BY <1>13 DEF SetInnerPubRepo
    <2>2. public' \in [Repos -> Rights \cup {Nothing}] /\ \A v \in VRepos : public'[v] = Nothing
        BY <1>2, <2>1
    <2> QED
        BY <2>1, <2>2 DEF PermTypes
<1>14. CASE OwnerDelShares \/ OwnerListVirtual \/ OwnerDelVirtualRows
    <2>1. Same
        BY <1>14 DEF OwnerDelShares, OwnerListVirtual, OwnerDelVirtualRows, shareTables
    <2> QED
        BY <2>1, SamePerms
<1>15. CASE OwnerDelGroups
    <2>1. groupShared' \in Seq(GroupRow) /\ UNCHANGED <<owner, live, public>>
        BY <1>2, <1>15, WithoutRows DEF OwnerDelGroups
    <2> QED
        BY <2>1 DEF PermTypes
<1>16. CASE OwnerDelPublic
    <2>1. /\ public' = public \/ public' = [public EXCEPT ![change.repo] = Nothing]
          /\ UNCHANGED <<owner, live, groupShared>>
        BY <1>16 DEF OwnerDelPublic
    <2>2. public' \in [Repos -> Rights \cup {Nothing}] /\ \A v \in VRepos : public'[v] = Nothing
        BY <1>2, <2>1
    <2> QED
        BY <2>1, <2>2 DEF PermTypes
<1>17. CASE OwnerRemoveVirtual
    <2>1. /\ owner' = [r \in Repos |-> IF r \in change.vrepos THEN Nothing ELSE owner[r]]
          /\ live' = live \ change.vrepos
          /\ groupShared' = Without(groupShared,
                               {s \in Range(groupShared) : s.repo \in change.vrepos})
          /\ \/ public' = public
             \/ public' = [r \in Repos |-> IF r \in change.vrepos THEN Nothing ELSE public[r]]
        BY <1>17 DEF OwnerRemoveVirtual
    <2>2. groupShared' \in Seq(GroupRow)
        BY <1>2, <2>1, WithoutRows
    <2>3. public' \in [Repos -> Rights \cup {Nothing}] /\ \A v \in VRepos : public'[v] = Nothing
        BY <1>2, <2>1
    <2>4. \A r \in live' : owner'[r] \in Accounts
        BY <1>1, <1>2, <2>1
    <2> QED
        BY <2>2, <2>3, <2>4 DEF PermTypes
<1>18. CASE \E old, new \in Accounts : UpdateEmailUserId(old, new)
    <2>1. PICK old \in Accounts, new \in Accounts :
             /\ owner' = [r \in Repos |-> Renamed(owner[r], old, new)]
             /\ UNCHANGED <<live, groupShared, public>>
        BY <1>18 DEF UpdateEmailUserId
    <2>2. \A r \in live : owner'[r] \in Accounts
        BY <1>1, <1>2, <2>1 DEF Renamed
    <2> QED
        BY <2>1, <2>2 DEF PermTypes
<1>19. CASE IdFrom \/ IdTo \/ IdMembers \/ IdAccount \/ IdFails
    <2>1. Same
        BY <1>19 DEF IdFrom, IdTo, IdMembers, IdAccount, IdFails, IdStep, shareTables
    <2> QED
        BY <2>1, SamePerms
<1> QED
    BY <1>3, <1>4, <1>5, <1>6, <1>7, <1>8, <1>9, <1>10, <1>11, <1>12, <1>13, <1>14, <1>15,
       <1>16, <1>17, <1>18, <1>19 DEF SharingNext

\* Nothing is shared to groups or public at the beginning.
LEMMA PermStart == SharingAssumption /\ SharingInit => PermTypes
<1> SUFFICES ASSUME SharingAssumption, SharingInit PROVE PermTypes
    OBVIOUS
<1>1. /\ owner = [r \in Repos |-> IF r \in Libs THEN InitOwner[r] ELSE Nothing]
      /\ live = Libs /\ groupShared = << >> /\ public = [r \in Repos |-> Nothing]
    BY DEF SharingInit
<1>2. \A r \in Libs : r \in Repos /\ InitOwner[r] \in Accounts
    BY DEF SharingAssumption, Repos
<1> QED
    BY <1>1, <1>2 DEF PermTypes, Repos

----------------------------------------------------------------------------
\* The change of an id

\* The check of a permission, for the owner o, the shares to s and the memberships of m.
RepoShareFor(r, s, m) ==
    IF SharePerm(r, s) # Nothing THEN SharePerm(r, s)
    ELSE IF GroupPerm(r, GroupsOf(m)) # Nothing THEN GroupPerm(r, GroupsOf(m))
    ELSE IF CloudMode THEN Nothing ELSE public[r]

ParentFor(l, s, m, path) ==
    LET mine == Deepest([p \in Above(path) |-> UserDirPerm(l, s, p)])
    IN  IF mine # Nothing THEN mine
        ELSE Deepest([p \in Above(path) |-> GroupDirPerm(l, m, p)])

VirtualFor3(v, o, s, m) ==
    LET l == vinfo[v].origin
        dir == ParentFor(l, s, m, vinfo[v].path)
    IN  IF owner[l] = o THEN "rw"
        ELSE IF dir # Nothing THEN dir
        ELSE RepoShareFor(l, s, m)

CheckFor(r, o, s, m) ==
    IF IsVirtual(r) THEN VirtualFor3(r, o, s, m)
    ELSE IF owner[r] = Nothing THEN Nothing
    ELSE IF owner[r] = o THEN "rw"
    ELSE RepoShareFor(r, s, m)

GroupTypes ==
    /\ requests \in Nat
    /\ member \subseteq Accounts \X Groups \X BOOLEAN
    /\ \A g \in group : g.id \in Groups

NoOwner(u) == \A r \in Repos : owner[r] # u
NoShareTo(u) == \A s \in Range(shared) : s.to # u
NoMember(u) == \A g \in Groups : ~IsMember(u, g)

\* While nothing comes between its statements, the change of an id has moved the
\* permissions as far as it has got.
Moved ==
    LET old == change.old  new == change.new
    IN  /\ change.pc = "from" \/ change.pc = "to" =>
             /\ NoOwner(old) /\ NoShareTo(new) /\ NoMember(new)
             /\ \A r \in Repos : change.had[r] = CheckFor(r, new, old, old)
        /\ change.pc = "member" =>
             /\ NoOwner(old) /\ NoShareTo(old) /\ NoMember(new)
             /\ \A r \in Repos : change.had[r] = CheckFor(r, new, new, old)
        /\ change.pc = "account" =>
             /\ NoOwner(old) /\ NoShareTo(old) /\ NoMember(old)
             /\ \A r \in Repos : change.had[r] = CheckFor(r, new, new, new)

Alone == change.kind = "id" /\ requests = change.at /\ change.fresh

MoveInv ==
    /\ GroupTypes
    /\ change.kind = "id" => change.at \in Nat /\ change.at <= requests
    /\ Alone => Moved

\* It is the check of a permission when all three are the user.
LEMMA CheckIsFor == ASSUME NEW r, NEW u PROVE CheckPermission(r, u) = CheckFor(r, u, u, u)
<1>1. \A q : CheckRepoShare(q, u) = RepoShareFor(q, u, u)
    BY DEF CheckRepoShare, RepoShareFor
<1>2. \A l, path : CheckOnParent(l, u, path) = ParentFor(l, u, u, path)
    BY DEF CheckOnParent, ParentFor
<1>3. CheckVirtual(r, u) = VirtualFor3(r, u, u, u)
    BY <1>1, <1>2 DEF CheckVirtual, VirtualFor3
<1> QED
    BY <1>1, <1>3 DEF CheckPermission, CheckFor

\* A step that gives one user's rows to another gives the rights with them.
LEMMA SameCheck ==
    ASSUME NEW r \in Repos, NEW o1, NEW s1, NEW m1, NEW o2, NEW s2, NEW m2,
           UNCHANGED <<vinfo, groupShared, public>>, Types,
           \A q \in Repos : owner'[q] = o2 <=> owner[q] = o1,
           \A q \in Repos : owner'[q] = Nothing <=> owner[q] = Nothing,
           \A q : SharePerm(q, s2)' = SharePerm(q, s1),
           \A l, p : UserDirPerm(l, s2, p)' = UserDirPerm(l, s1, p),
           GroupsOf(m2)' = GroupsOf(m1)
    PROVE  CheckFor(r, o2, s2, m2)' = CheckFor(r, o1, s1, m1)
<1>1. \A q : GroupPerm(q, GroupsOf(m2))' = GroupPerm(q, GroupsOf(m1))
    BY DEF GroupPerm
<1>2. \A q : RepoShareFor(q, s2, m2)' = RepoShareFor(q, s1, m1)
    BY <1>1 DEF RepoShareFor
<1>3. \A l, p : GroupDirPerm(l, m2, p)' = GroupDirPerm(l, m1, p)
    BY DEF GroupDirPerm, GroupDirs, DirsOf, AtPath, IsVirtual
<1>4. \A l, path : ParentFor(l, s2, m2, path)' = ParentFor(l, s1, m1, path)
    <2> SUFFICES ASSUME NEW l, NEW path
                 PROVE  ParentFor(l, s2, m2, path)' = ParentFor(l, s1, m1, path)
        OBVIOUS
    <2>1. [p \in Above(path) |-> UserDirPerm(l, s2, p)]' = [p \in Above(path) |-> UserDirPerm(l, s1, p)]
        OBVIOUS
    <2>2. [p \in Above(path) |-> GroupDirPerm(l, m2, p)]' = [p \in Above(path) |-> GroupDirPerm(l, m1, p)]
        BY <1>3
    <2> QED
        BY <2>1, <2>2 DEF ParentFor
<1>5. IsVirtual(r)' = IsVirtual(r)
    BY DEF IsVirtual
<1>6. CASE IsVirtual(r)
    <2>1. vinfo[r].origin \in Repos
        BY <1>6 DEF IsVirtual, Types, Repos
    <2>2. VirtualFor3(r, o2, s2, m2)' = VirtualFor3(r, o1, s1, m1)
        BY <1>2, <1>4, <2>1 DEF VirtualFor3
    <2> QED
        BY <1>5, <1>6, <2>2 DEF CheckFor
<1>7. CASE ~IsVirtual(r)
    BY <1>2, <1>5, <1>7 DEF CheckFor
<1> QED
    BY <1>6, <1>7

\* Two sequences of rows that differ in users only.
Alike(a, b) ==
    /\ a \in Seq(ShareRow) /\ b \in Seq(ShareRow) /\ Len(a) = Len(b)
    /\ \A i \in 1..Len(a) : a[i].repo = b[i].repo /\ a[i].perm = b[i].perm

LEMMA AppendAlike ==
    ASSUME NEW a, NEW b, Alike(a, b), NEW s \in ShareRow, NEW t \in ShareRow,
           s.repo = t.repo, s.perm = t.perm
    PROVE  Alike(Append(a, s), Append(b, t))
BY DEF Alike

\* The function of Where().
LEMMA KeptRows ==
    ASSUME NEW S, NEW rows \in Seq(S), NEW those
    PROVE  \E kept : /\ Where(rows, those) = kept[Len(rows)]
                     /\ \A n \in 0..Len(rows) :
                           kept[n] = IF n = 0 THEN << >>
                                     ELSE IF rows[n] \in those THEN Append(kept[n - 1], rows[n])
                                     ELSE kept[n - 1]
<1> DEFINE m == Len(rows)
           kept == CHOOSE f : f = Table(f, rows, those, m)
<1>1. m \in Nat
    OBVIOUS
<1>2. kept = Table(kept, rows, those, m)
    BY <1>1, KeptExists
<1>3. \A n \in 0..m : kept[n] = IF n = 0 THEN << >>
                                ELSE IF rows[n] \in those THEN Append(kept[n - 1], rows[n])
                                ELSE kept[n - 1]
    <2> HIDE DEF kept
    <2> QED
        BY <1>2 DEF Table
<1>4. Where(rows, those) = kept[m]
    BY DEF Where, Table
<1> HIDE DEF kept
<1> QED
    BY <1>3, <1>4

\* Queries on such sequences that choose the same rows
LEMMA WhereAlike ==
    ASSUME NEW a, NEW b, Alike(a, b), NEW inA, NEW inB,
           \A i \in 1..Len(a) : a[i] \in inA <=> b[i] \in inB
    PROVE  Alike(Where(a, inA), Where(b, inB))
<1> DEFINE m == Len(a)
<1>0. a \in Seq(ShareRow) /\ b \in Seq(ShareRow) /\ m \in Nat /\ Len(b) = m
    BY DEF Alike
<1>1. PICK f : /\ Where(a, inA) = f[m]
               /\ \A n \in 0..m : f[n] = IF n = 0 THEN << >>
                                         ELSE IF a[n] \in inA THEN Append(f[n - 1], a[n])
                                         ELSE f[n - 1]
    BY <1>0, KeptRows
<1>2. PICK g : /\ Where(b, inB) = g[m]
               /\ \A n \in 0..m : g[n] = IF n = 0 THEN << >>
                                         ELSE IF b[n] \in inB THEN Append(g[n - 1], b[n])
                                         ELSE g[n - 1]
    BY <1>0, KeptRows
<1> DEFINE Bad == {n \in 0..m : ~Alike(f[n], g[n])}
<1>3. Bad = {}
    <2> SUFFICES ASSUME Bad # {} PROVE FALSE
        OBVIOUS
    <2>1. PICK k \in Bad : \A y \in Bad : ~(<<y, k>> \in OpToRel(<, Nat))
        <3>1. Bad \subseteq Nat
            BY <1>0
        <3> HIDE DEF Bad
        <3> QED
            BY <3>1, WFMin, NatLessThanWellFounded
    <2>2. k \in 0..m /\ \A y \in Bad : ~(y < k)
        <3>1. k \in 0..m /\ Bad \subseteq Nat
            BY <1>0
        <3> HIDE DEF Bad
        <3> QED
            BY <2>1, <3>1, <1>0 DEF OpToRel
    <2>3. k # 0
        <3>1. f[0] = << >> /\ g[0] = << >>
            BY <1>0, <1>1, <1>2
        <3>2. Alike(<< >>, << >>)
            BY DEF Alike
        <3> QED
            BY <2>1, <3>1, <3>2
    <2>4. k - 1 \in 0..m /\ Alike(f[k - 1], g[k - 1]) /\ k \in 1..m
        BY <2>2, <2>3, <1>0
    <2>5. a[k] \in ShareRow /\ b[k] \in ShareRow /\ a[k].repo = b[k].repo /\ a[k].perm = b[k].perm
        BY <2>4, <1>0 DEF Alike
    <2>6. Alike(f[k], g[k])
        <3>1. CASE a[k] \in inA
            <4>1. f[k] = Append(f[k - 1], a[k]) /\ g[k] = Append(g[k - 1], b[k])
                BY <3>1, <2>2, <2>3, <2>4, <1>1, <1>2
            <4> QED
                BY <4>1, <2>4, <2>5, AppendAlike
        <3>2. CASE a[k] \notin inA
            <4>1. f[k] = f[k - 1] /\ g[k] = g[k - 1]
                BY <3>2, <2>2, <2>3, <2>4, <1>1, <1>2
            <4> QED
                BY <4>1, <2>4
        <3> QED
            BY <3>1, <3>2
    <2> QED
        BY <2>1, <2>6
<1> QED
    BY <1>0, <1>1, <1>2, <1>3

LEMMA FirstAlike == ASSUME NEW a, NEW b, Alike(a, b) PROVE FirstPerm(a) = FirstPerm(b)
<1>1. CASE a = << >>
    BY <1>1 DEF Alike, FirstPerm
<1>2. CASE a # << >>
    <2>1. Len(a) \in Nat /\ Len(a) >= 1 /\ b # << >>
        BY <1>2 DEF Alike
    <2>2. Head(a) = a[1] /\ Head(b) = b[1] /\ a[1].perm = b[1].perm
        BY <1>2, <2>1 DEF Alike
    <2> QED
        BY <1>2, <2>1, <2>2 DEF FirstPerm
<1> QED
    BY <1>1, <1>2

LEMMA LastAlike == ASSUME NEW a, NEW b, Alike(a, b) PROVE LastPerm(a) = LastPerm(b)
<1>1. CASE a = << >>
    BY <1>1 DEF Alike, LastPerm
<1>2. CASE a # << >>
    <2>1. Len(a) \in Nat /\ Len(a) >= 1 /\ b # << >>
        BY <1>2 DEF Alike
    <2>2. Last(a) = a[Len(a)] /\ Last(b) = b[Len(b)] /\ a[Len(a)].perm = b[Len(b)].perm
        BY <1>2, <2>1 DEF Alike, Last
    <2> QED
        BY <1>2, <2>1, <2>2 DEF LastPerm
<1> QED
    BY <1>1, <1>2

\* The shares of a user, where a table has them under the other id.
LEMMA ShareAlike ==
    ASSUME Alike(shared, shared'), NEW s1, NEW s2, UNCHANGED vinfo,
           \A i \in 1..Len(shared) : shared'[i].to = s2 <=> shared[i].to = s1
    PROVE  /\ \A q : SharePerm(q, s2)' = SharePerm(q, s1)
           /\ \A l, p : UserDirPerm(l, s2, p)' = UserDirPerm(l, s1, p)
<1>0. /\ shared \in Seq(ShareRow) /\ shared' \in Seq(ShareRow) /\ Len(shared) = Len(shared')
      /\ \A i \in 1..Len(shared) : shared[i].repo = shared'[i].repo
      /\ DOMAIN shared = 1..Len(shared) /\ DOMAIN shared' = 1..Len(shared)
    BY DEF Alike
<1>1. ASSUME NEW q PROVE SharePerm(q, s2)' = SharePerm(q, s1)
    <2> DEFINE inA == {s \in Range(shared) : s.repo = q /\ s.to = s1}
               inB == {s \in Range(shared') : s.repo = q /\ s.to = s2}
    <2>1. \A i \in 1..Len(shared) : shared[i] \in inA <=> shared'[i] \in inB
        BY <1>0 DEF Range
    <2> HIDE DEF inA, inB
    <2>2. Alike(Where(shared, inA), Where(shared', inB))
        BY <2>1, WhereAlike
    <2>3. FirstPerm(Where(shared, inA)) = FirstPerm(Where(shared', inB))
        BY <2>2, FirstAlike
    <2> QED
        BY <2>3 DEF SharePerm, inA, inB, FirstPerm, Where
<1>2. ASSUME NEW l, NEW p PROVE UserDirPerm(l, s2, p)' = UserDirPerm(l, s1, p)
    <2> DEFINE a == Where(shared, {s \in Range(shared) : s.to = s1})
               b == Where(shared', {s \in Range(shared') : s.to = s2})
               a2 == DirsOf(a, l)
               b2 == DirsOf(b, l)
               a3 == AtPath(a2, p)
               b3 == AtPath(b2, p)
    <2>1. Alike(a, b)
        <3> DEFINE inA == {s \in Range(shared) : s.to = s1}
                   inB == {s \in Range(shared') : s.to = s2}
        <3>1. \A i \in 1..Len(shared) : shared[i] \in inA <=> shared'[i] \in inB
            BY <1>0 DEF Range
        <3> HIDE DEF inA, inB
        <3>2. Alike(Where(shared, inA), Where(shared', inB))
            BY <3>1, WhereAlike
        <3> QED
            BY <3>2 DEF inA, inB
    <2> HIDE DEF a, b
    <2>2. Alike(a2, b2)
        <3> DEFINE inA == {s \in Range(a) : IsVirtual(s.repo) /\ vinfo[s.repo].origin = l}
                   inB == {s \in Range(b) : IsVirtual(s.repo) /\ vinfo[s.repo].origin = l}
        <3>1. \A i \in 1..Len(a) : a[i] \in inA <=> b[i] \in inB
            <4>1. /\ a \in Seq(ShareRow) /\ b \in Seq(ShareRow) /\ Len(a) = Len(b)
                  /\ \A i \in 1..Len(a) : a[i].repo = b[i].repo
                  /\ DOMAIN a = 1..Len(a) /\ DOMAIN b = 1..Len(a)
                BY <2>1 DEF Alike
            <4> QED
                BY <4>1 DEF Range
        <3> HIDE DEF inA, inB
        <3>2. Alike(Where(a, inA), Where(b, inB))
            BY <2>1, <3>1, WhereAlike
        <3> QED
            BY <3>2 DEF inA, inB, DirsOf
    <2> HIDE DEF a2, b2
    <2>3. Alike(a3, b3)
        <3> DEFINE inA == {s \in Range(a2) : vinfo[s.repo].path = p}
                   inB == {s \in Range(b2) : vinfo[s.repo].path = p}
        <3>1. \A i \in 1..Len(a2) : a2[i] \in inA <=> b2[i] \in inB
            <4>1. /\ a2 \in Seq(ShareRow) /\ b2 \in Seq(ShareRow) /\ Len(a2) = Len(b2)
                  /\ \A i \in 1..Len(a2) : a2[i].repo = b2[i].repo
                  /\ DOMAIN a2 = 1..Len(a2) /\ DOMAIN b2 = 1..Len(a2)
                BY <2>2 DEF Alike
            <4> QED
                BY <4>1 DEF Range
        <3> HIDE DEF inA, inB
        <3>2. Alike(Where(a2, inA), Where(b2, inB))
            BY <2>2, <3>1, WhereAlike
        <3> QED
            BY <3>2 DEF inA, inB, AtPath
    <2> HIDE DEF a3, b3
    <2>4. LastPerm(a3) = LastPerm(b3)
        BY <2>3, LastAlike
    <2>5. UserDirPerm(l, s1, p) = LastPerm(a3)
        BY DEF UserDirPerm, SharedDirs, a3, a2, a
    <2>6. UserDirPerm(l, s2, p)' = LastPerm(b3)
        BY DEF UserDirPerm, SharedDirs, b3, b2, b, DirsOf, AtPath, IsVirtual, LastPerm, Where
    <2> QED
        BY <2>4, <2>5, <2>6
<1> QED
    BY <1>1, <1>2

\* What steps there are, for the change of an id.
LEMMA KindsOfSteps ==
    ASSUME SharingAssumption, TaskOK, GroupTypes, [SharingNext]_sharingVars
    PROVE  \/ UNCHANGED sharingVars
           \/ requests' = requests + 1 /\ change' = change /\ GroupTypes'
           \/ change.kind # "id" /\ change'.kind # "id" /\ GroupTypes'
           \/ \E old, new \in Accounts : UpdateEmailUserId(old, new)
           \/ IdFrom \/ IdTo \/ IdMembers \/ IdAccount \/ IdFails
<1> DEFINE Asks == requests' = requests + 1 /\ change' = change
           Goal == \/ UNCHANGED sharingVars
                   \/ Asks /\ GroupTypes'
                   \/ change.kind # "id" /\ change'.kind # "id" /\ GroupTypes'
                   \/ \E old, new \in Accounts : UpdateEmailUserId(old, new)
                   \/ IdFrom \/ IdTo \/ IdMembers \/ IdAccount \/ IdFails
<1>0. requests \in Nat /\ member \subseteq Accounts \X Groups \X BOOLEAN /\ \A g \in group : g.id \in Groups
    BY DEF GroupTypes
<1>a. Asks /\ UNCHANGED <<group, member>> => Goal
    BY <1>0 DEF GroupTypes
<1>b. ASSUME change.kind # "id", change'.kind # "id", UNCHANGED <<group, member>>, requests' \in Nat
      PROVE  Goal
    BY <1>0, <1>b DEF GroupTypes
<1>c. NoChange.kind # "id" /\ NoChange.kind # "owner"
    BY DEF NoChange, SharingAssumption
<1>1. CASE \E r \in Repos, u \in Accounts, p \in Rights :
          \/ AddShare(r, u, p)
          \/ RemoveShare(r, owner[r], u)
          \/ SetSharePermission(r, owner[r], u, p)
    <2>1. Asks /\ UNCHANGED <<group, member>>
        BY <1>1 DEF AddShare, RemoveShare, SetSharePermission, Request, OnShares, people
    <2> QED
        BY <2>1, <1>a
<1>2. CASE \E r \in Repos, g \in Groups, p \in Rights :
          \/ GroupShareRepo(r, g, p)
          \/ GroupUnshareRepo(r, g)
          \/ SetGroupRepoPermission(r, g, p)
    <2>1. Asks /\ UNCHANGED <<group, member>>
        BY <1>2 DEF GroupShareRepo, GroupUnshareRepo, SetGroupRepoPermission, Request, OnGroupShares, people
    <2> QED
        BY <2>1, <1>a
<1>3. CASE \E l \in Libs, dir \in Dirs, u \in Accounts, p \in Rights :
          \/ ShareSubdirToUser(l, dir, u, p)
          \/ UnshareSubdir(l, dir, owner[l], u)
          \/ SetSubdirPermission(l, dir, owner[l], u, p)
    <2>1. Asks /\ UNCHANGED <<group, member>>
        BY <1>3 DEF ShareSubdirToUser, UnshareSubdir, SetSubdirPermission, Request, OnShares, people
    <2> QED
        BY <2>1, <1>a
<1>4. CASE \E l \in Libs, dir \in Dirs, g \in Groups, p \in Rights :
          \/ ShareSubdirToGroup(l, dir, g, p)
          \/ UnshareSubdirForGroup(l, dir, owner[l], g)
          \/ SetSubdirGroupPermission(l, dir, owner[l], g, p)
    <2>1. Asks /\ UNCHANGED <<group, member>>
        BY <1>4 DEF ShareSubdirToGroup, UnshareSubdirForGroup, SetSubdirGroupPermission, Request,
                    OnGroupShares, people
    <2> QED
        BY <2>1, <1>a
<1>5. CASE \E g \in Groups, u \in Accounts : RemoveRepoGroup(g, u) \/ RemoveRepoGroup(g, Nothing)
    <2>1. Asks /\ UNCHANGED <<group, member>>
        BY <1>5 DEF RemoveRepoGroup, Request, OnGroupShares, people
    <2> QED
        BY <2>1, <1>a
<1>6. CASE \E g \in Groups, u \in Accounts, h \in Groups \cup {Nothing} : CreateGroup(g, u, h)
    <2>1. PICK g \in Groups, u \in Accounts :
             /\ Asks /\ member' = member \cup {<<u, g, TRUE>>}
             /\ \E h : group' = group \cup {h} /\ h.id = g
        BY <1>6 DEF CreateGroup, Request
    <2>2. member' \subseteq Accounts \X Groups \X BOOLEAN
        <3>1. <<u, g, TRUE>> \in Accounts \X Groups \X BOOLEAN
            OBVIOUS
        <3> QED
            BY <2>1, <3>1, <1>0
    <2>3. \A h \in group' : h.id \in Groups
        BY <2>1, <1>0, Zenon
    <2> QED
        <3>1. requests' \in Nat
            BY <2>1, <1>0
        <3>2. GroupTypes'
            BY <2>2, <2>3, <3>1 DEF GroupTypes
        <3> QED
            BY <2>1, <3>2
<1>7. CASE \E g \in Groups, u \in Accounts :
          \/ AddMember(g, u) \/ QuitGroup(g, u)
          \/ \E by \in Accounts : RemoveMember(g, by, u)
          \/ \E s \in BOOLEAN : SetStaff(g, u, s)
    <2>1. PICK g \in Groups, u \in Accounts :
             Asks /\ UNCHANGED group
             /\ \/ member' = member \cup {<<u, g, FALSE>>}
                \/ member' = WithoutMember(u, g)
                \/ \E s \in BOOLEAN : member' = WithoutMember(u, g) \cup {<<u, g, s>>}
        BY <1>7 DEF AddMember, QuitGroup, RemoveMember, SetStaff, OnMembers, Request
    <2>2. WithoutMember(u, g) \subseteq member
        BY DEF WithoutMember
    <2>3. member' \subseteq Accounts \X Groups \X BOOLEAN
        <3>1. \A s \in BOOLEAN : <<u, g, s>> \in Accounts \X Groups \X BOOLEAN
            OBVIOUS
        <3>2. <<u, g, FALSE>> \in Accounts \X Groups \X BOOLEAN
            OBVIOUS
        <3> QED
            BY <2>1, <2>2, <3>1, <3>2, <1>0
    <2> QED
        BY <2>1, <2>3, <1>0 DEF GroupTypes
<1>8. CASE \E g \in Groups, anyway \in BOOLEAN : RemoveGroup(g, anyway)
    <2>1. Asks /\ group' \subseteq group /\ member' \subseteq member
        BY <1>8 DEF RemoveGroup, Request
    <2> QED
        BY <2>1, <1>0 DEF GroupTypes
<1>9. CASE \/ \E l \in Libs, p \in Rights \cup {Nothing} : SetInnerPubRepo(l, p)
           \/ \E u \in Accounts : AddEmailUser(u) \/ RemoveEmailUser(u)
    <2>1. Asks /\ UNCHANGED <<group, member>>
        BY <1>9 DEF SetInnerPubRepo, AddEmailUser, RemoveEmailUser, Request, people
    <2> QED
        BY <2>1, <1>a
<1>10. CASE \E l \in Libs, u \in Accounts : SetRepoOwner(l, u)
    <2>1. /\ change = NoChange /\ change'.kind = "owner" /\ UNCHANGED <<group, member>>
          /\ requests' = requests + 2
        BY <1>10 DEF SetRepoOwner, TaskRequest, people
    <2> QED
        BY <2>1, <1>b, <1>c, <1>0
<1>11. CASE \/ OwnerDelShares \/ OwnerDelGroups \/ OwnerDelPublic
            \/ OwnerListVirtual \/ OwnerRemoveVirtual \/ OwnerDelVirtualRows
    <2>1. change.kind = "owner" /\ UNCHANGED <<group, member, requests>>
        BY <1>11 DEF OwnerDelShares, OwnerDelGroups, OwnerDelPublic, OwnerListVirtual,
                     OwnerRemoveVirtual, OwnerDelVirtualRows, OwnerStep, people
    <2>2. change = [kind |-> "owner", pc |-> change.pc, repo |-> change.repo,
                    vrepos |-> change.vrepos]
        BY <2>1, <1>c DEF TaskOK
    <2>3. \/ \E pc : change' = [change EXCEPT !.pc = pc]
          \/ \E pc, vs : change' = [change EXCEPT !.pc = pc, !.vrepos = vs]
          \/ change' = NoChange
        BY <1>11 DEF OwnerDelShares, OwnerDelGroups, OwnerDelPublic, OwnerListVirtual,
                     OwnerRemoveVirtual, OwnerDelVirtualRows, OwnerStep
    <2>4. change'.kind # "id"
        <3>1. CASE \E pc : change' = [change EXCEPT !.pc = pc]
            <4>1. PICK pc : change' = [change EXCEPT !.pc = pc]
                BY <3>1
            <4> QED
                BY <2>2, <4>1
        <3>2. CASE \E pc, vs : change' = [change EXCEPT !.pc = pc, !.vrepos = vs]
            <4>1. PICK pc, vs : change' = [change EXCEPT !.pc = pc, !.vrepos = vs]
                BY <3>2
            <4> QED
                BY <2>2, <4>1
        <3> QED
            BY <2>3, <3>1, <3>2, <1>c
    <2> QED
        BY <2>1, <2>4, <1>b, <1>0
<1>12. CASE \/ UNCHANGED sharingVars
            \/ \E old, new \in Accounts : UpdateEmailUserId(old, new)
            \/ IdFrom \/ IdTo \/ IdMembers \/ IdAccount \/ IdFails
    BY <1>12
<1> QED
    BY <1>1, <1>2, <1>3, <1>4, <1>5, <1>6, <1>7, <1>8, <1>9, <1>10, <1>11, <1>12 DEF SharingNext

\* No id is being changed at the beginning.
LEMMA MoveStart == SharingAssumption /\ SharingInit => MoveInv
<1> SUFFICES ASSUME SharingAssumption, SharingInit PROVE MoveInv
    OBVIOUS
<1>1. change.kind # "id" /\ requests = 0
    BY DEF SharingInit, NoChange, SharingAssumption
<1>2. member \subseteq Accounts \X Groups \X BOOLEAN
    <2>1. InitMembers \subseteq Accounts \X Groups \X BOOLEAN /\ member \subseteq InitMembers
        BY DEF SharingInit, SharingAssumption
    <2> QED
        BY <2>1
<1>3. \A g \in group : g.id \in Groups
    BY DEF SharingInit, SharingAssumption
<1> QED
    BY <1>1, <1>2, <1>3 DEF MoveInv, GroupTypes, Alone

\* UPDATE RepoOwner: the first statement
LEMMA MoveBegins ==
    ASSUME SharingAssumption, OwnersInv, MoveInv, NEW old \in Accounts, NEW new \in Accounts,
           UpdateEmailUserId(old, new)
    PROVE  MoveInv'
<1>0. requests \in Nat /\ Types /\ Nothing \notin Accounts
    BY DEF MoveInv, GroupTypes, OwnersInv, SharingAssumption
<1>1. /\ old # new /\ requests' = requests + 2
      /\ owner' = [r \in Repos |-> Renamed(owner[r], old, new)]
      /\ change' = [kind |-> "id", pc |-> "from", old |-> old, new |-> new,
                at |-> requests', had |-> [r \in Repos |-> CheckPermission(r, old)],
                fresh |-> Unknown(new)]
      /\ UNCHANGED <<vinfo, live, shared, groupShared, public, group, member>>
    BY DEF UpdateEmailUserId, TaskRequest, people
<1>2. GroupTypes' /\ change'.at = requests' /\ requests' \in Nat
    BY <1>0, <1>1 DEF MoveInv, GroupTypes
<1>3. /\ change'.kind = "id" /\ change'.pc = "from" /\ change'.old = old /\ change'.new = new
      /\ change'.had = [r \in Repos |-> CheckPermission(r, old)]
      /\ change'.fresh = Unknown(new)
    BY <1>1
<1>4. ASSUME Unknown(new) PROVE Moved'
    <2>1. /\ \A r \in Repos : owner[r] # new
          /\ \A s \in Range(shared) : s.to # new
          /\ \A g \in Groups : ~IsMember(new, g)
        BY <1>4 DEF Unknown
    <2>2. NoOwner(old)' /\ NoShareTo(new)' /\ NoMember(new)'
        BY <1>1, <2>1 DEF NoOwner, NoShareTo, NoMember, Renamed, IsMember
    <2>3. ASSUME NEW r \in Repos PROVE change'.had[r] = CheckFor(r, new, old, old)'
        <3>1. \A q \in Repos : owner'[q] = new <=> owner[q] = old
            BY <1>1, <2>1 DEF Renamed
        <3>2. \A q \in Repos : owner'[q] = Nothing <=> owner[q] = Nothing
            BY <1>0, <1>1 DEF Renamed
        <3>3. /\ \A q : SharePerm(q, old)' = SharePerm(q, old)
              /\ \A l, p : UserDirPerm(l, old, p)' = UserDirPerm(l, old, p)
              /\ GroupsOf(old)' = GroupsOf(old)
            BY <1>1 DEF SharePerm, UserDirPerm, SharedDirs, DirsOf, AtPath, IsVirtual, Where,
                        FirstPerm, LastPerm, GroupsOf, OwnGroups
        <3>4. CheckFor(r, new, old, old)' = CheckFor(r, old, old, old)
            BY <1>0, <1>1, <3>1, <3>2, <3>3, SameCheck
        <3> QED
            BY <1>3, <3>4, CheckIsFor
    <2> QED
        BY <1>3, <2>2, <2>3 DEF Moved
<1>5. Alone' => Unknown(new)
    BY <1>3 DEF Alone
<1> QED
    BY <1>2, <1>4, <1>5, <1>3, <1>0, <1>1 DEF MoveInv

\* The statements after it: what the change of an id still knows
LEMMA IdGoesOn ==
    ASSUME SharingAssumption, TaskOK, NEW pc, NEW next, IdStep(pc, next)
    PROVE  /\ change.kind = "id" /\ change'.kind = "id" /\ change.pc = pc /\ change'.pc = next
           /\ UNCHANGED <<change.old, change.new, change.had, change.at, change.fresh, requests>>
           /\ UNCHANGED <<owner, vinfo, groupShared, public, group>>
           /\ change.old \in Accounts /\ change.new \in Accounts /\ change.old # change.new
<1>1. change = [kind |-> "id", pc |-> change.pc, old |-> change.old, new |-> change.new,
                at |-> change.at, had |-> change.had, fresh |-> change.fresh]
      /\ change.old \in Accounts /\ change.new \in Accounts /\ change.old # change.new
    BY DEF TaskOK, IdStep, NoChange, SharingAssumption
<1>2. change' = [change EXCEPT !.pc = next]
    BY DEF IdStep
<1>3. change' = [kind |-> "id", pc |-> next, old |-> change.old, new |-> change.new,
                at |-> change.at, had |-> change.had, fresh |-> change.fresh]
    BY <1>1, <1>2
<1> QED
    BY <1>1, <1>3 DEF IdStep

\* UPDATE SharedRepo, from_email: only the owners of the shares change
LEMMA IdFromMoves ==
    ASSUME SharingAssumption, OwnersInv, Types', MoveInv, IdFrom
    PROVE  MoveInv'
<1> DEFINE old == change.old
           new == change.new
<1>0. requests \in Nat /\ Types /\ TaskOK
    BY DEF MoveInv, GroupTypes, OwnersInv
<1>1. /\ change.kind = "id" /\ change'.kind = "id" /\ change.pc = "from" /\ change'.pc = "to"
      /\ UNCHANGED <<change.old, change.new, change.had, change.at, change.fresh, requests>>
      /\ UNCHANGED <<owner, vinfo, groupShared, public, group>>
    BY <1>0, IdGoesOn DEF IdFrom
<1>2. /\ UNCHANGED member
      /\ shared' = [i \in DOMAIN shared |-> [shared[i] EXCEPT !.from = Renamed(@, old, new)]]
    BY DEF IdFrom
<1>3. GroupTypes' /\ change'.at \in Nat /\ change'.at <= requests'
    BY <1>1, <1>2 DEF MoveInv, GroupTypes
<1>4. ASSUME Alone' PROVE Moved'
    <2>1. Moved
        BY <1>1, <1>4 DEF MoveInv, Alone
    <2>2. /\ NoOwner(old) /\ NoShareTo(new) /\ NoMember(new)
          /\ \A r \in Repos : change.had[r] = CheckFor(r, new, old, old)
        BY <2>1, <1>1 DEF Moved
    <2>3. /\ shared \in Seq(ShareRow) /\ shared' \in Seq(ShareRow)
          /\ Len(shared) \in Nat /\ DOMAIN shared = 1..Len(shared)
          /\ Len(shared') \in Nat /\ DOMAIN shared' = 1..Len(shared')
        BY <1>0 DEF Types
    <2>4. Len(shared') = Len(shared)
        BY <2>3, <1>2
    <2>5. \A i \in 1..Len(shared) : /\ shared'[i].repo = shared[i].repo
                                    /\ shared'[i].perm = shared[i].perm
                                    /\ shared'[i].to = shared[i].to
        <3> TAKE i \in 1..Len(shared)
        <3>1. shared[i] \in ShareRow
            BY <2>3
        <3>2. shared'[i] = [shared[i] EXCEPT !.from = Renamed(@, old, new)]
            BY <1>2, <2>3
        <3> QED
            BY <3>1, <3>2 DEF ShareRow
    <2>6. Alike(shared, shared')
        BY <2>3, <2>4, <2>5 DEF Alike
    <2>7. /\ \A q : SharePerm(q, old)' = SharePerm(q, old)
          /\ \A l, p : UserDirPerm(l, old, p)' = UserDirPerm(l, old, p)
        BY <2>6, <2>5, <1>1, ShareAlike
    <2>8. GroupsOf(old)' = GroupsOf(old)
        BY <1>1, <1>2 DEF GroupsOf, OwnGroups
    <2>9. \A r \in Repos : CheckFor(r, new, old, old)' = CheckFor(r, new, old, old)
        BY <1>0, <1>1, <2>7, <2>8, SameCheck
    <2>10. NoOwner(old)' /\ NoShareTo(new)' /\ NoMember(new)'
        <3>1. \A i \in 1..Len(shared) : shared[i].to # new
            BY <2>2, <2>3 DEF NoShareTo, Range
        <3>2. \A s \in Range(shared') : s.to # new
            BY <3>1, <2>3, <2>4, <2>5 DEF Range
        <3> QED
            BY <3>2, <2>2, <1>1, <1>2 DEF NoOwner, NoShareTo, NoMember, IsMember
    <2> QED
        BY <1>1, <2>2, <2>9, <2>10 DEF Moved
<1> QED
    BY <1>3, <1>4 DEF MoveInv

\* UPDATE SharedRepo, to_email: the shares are the new id's
LEMMA IdToMoves ==
    ASSUME SharingAssumption, OwnersInv, Types', MoveInv, IdTo
    PROVE  MoveInv'
<1> DEFINE old == change.old
           new == change.new
<1>0. requests \in Nat /\ Types /\ TaskOK
    BY DEF MoveInv, GroupTypes, OwnersInv
<1>1. /\ change.kind = "id" /\ change'.kind = "id" /\ change.pc = "to" /\ change'.pc = "member"
      /\ UNCHANGED <<change.old, change.new, change.had, change.at, change.fresh, requests>>
      /\ UNCHANGED <<owner, vinfo, groupShared, public, group>> /\ old # new
    BY <1>0, IdGoesOn DEF IdTo
<1>2. /\ UNCHANGED member
      /\ shared' = [i \in DOMAIN shared |-> [shared[i] EXCEPT !.to = Renamed(@, old, new)]]
    BY DEF IdTo
<1>3. GroupTypes' /\ change'.at \in Nat /\ change'.at <= requests'
    BY <1>1, <1>2 DEF MoveInv, GroupTypes
<1>4. ASSUME Alone' PROVE Moved'
    <2>1. Moved
        BY <1>1, <1>4 DEF MoveInv, Alone
    <2>2. /\ NoOwner(old) /\ NoShareTo(new) /\ NoMember(new)
          /\ \A r \in Repos : change.had[r] = CheckFor(r, new, old, old)
        BY <2>1, <1>1 DEF Moved
    <2>3. /\ shared \in Seq(ShareRow) /\ shared' \in Seq(ShareRow)
          /\ Len(shared) \in Nat /\ DOMAIN shared = 1..Len(shared)
          /\ Len(shared') \in Nat /\ DOMAIN shared' = 1..Len(shared')
        BY <1>0 DEF Types
    <2>4. Len(shared') = Len(shared)
        BY <2>3, <1>2
    <2>5. \A i \in 1..Len(shared) : /\ shared'[i].repo = shared[i].repo
                                    /\ shared'[i].perm = shared[i].perm
                                    /\ shared'[i].to = Renamed(shared[i].to, old, new)
        <3> TAKE i \in 1..Len(shared)
        <3>1. shared[i] \in ShareRow
            BY <2>3
        <3>2. shared'[i] = [shared[i] EXCEPT !.to = Renamed(@, old, new)]
            BY <1>2, <2>3
        <3> QED
            BY <3>1, <3>2 DEF ShareRow
    <2>6. Alike(shared, shared')
        BY <2>3, <2>4, <2>5 DEF Alike
    <2>7. \A i \in 1..Len(shared) : shared[i].to # new
        BY <2>2, <2>3 DEF NoShareTo, Range
    <2>8. \A i \in 1..Len(shared) : shared'[i].to = new <=> shared[i].to = old
        BY <2>5, <2>7 DEF Renamed
    <2>9. /\ \A q : SharePerm(q, new)' = SharePerm(q, old)
          /\ \A l, p : UserDirPerm(l, new, p)' = UserDirPerm(l, old, p)
        <3>1. PICK s1, s2 : s1 = old /\ s2 = new
            OBVIOUS
        <3>2. \A i \in 1..Len(shared) : shared'[i].to = s2 <=> shared[i].to = s1
            BY <3>1, <2>8, <1>1
        <3>3. /\ \A q : SharePerm(q, s2)' = SharePerm(q, s1)
              /\ \A l, p : UserDirPerm(l, s2, p)' = UserDirPerm(l, s1, p)
            BY <2>6, <3>2, <1>1, ShareAlike
        <3> QED
            BY <3>1, <3>3, <1>1
    <2>10. GroupsOf(old)' = GroupsOf(old)
        BY <1>1, <1>2 DEF GroupsOf, OwnGroups
    <2>11. \A r \in Repos : CheckFor(r, new, new, old)' = CheckFor(r, new, old, old)
        BY <1>0, <1>1, <2>9, <2>10, SameCheck
    <2>12. NoOwner(old)' /\ NoShareTo(old)' /\ NoMember(new)'
        <3>1. \A i \in 1..Len(shared) : shared'[i].to # old
            BY <2>5, <1>1 DEF Renamed
        <3>2. \A s \in Range(shared') : s.to # old
            BY <3>1, <2>3, <2>4 DEF Range
        <3> QED
            BY <3>2, <2>2, <1>1, <1>2 DEF NoOwner, NoShareTo, NoMember, IsMember
    <2> QED
        BY <1>1, <2>2, <2>11, <2>12 DEF Moved
<1> QED
    BY <1>3, <1>4 DEF MoveInv

\* UPDATE GroupUser: the memberships are the new id's
LEMMA IdMembersMoves ==
    ASSUME SharingAssumption, OwnersInv, MoveInv, IdMembers
    PROVE  MoveInv'
<1> DEFINE old == change.old
           new == change.new
<1>0. /\ requests \in Nat /\ Types /\ TaskOK
      /\ member \subseteq Accounts \X Groups \X BOOLEAN /\ \A g \in group : g.id \in Groups
    BY DEF MoveInv, GroupTypes, OwnersInv
<1>1. /\ change.kind = "id" /\ change'.kind = "id" /\ change.pc = "member" /\ change'.pc = "account"
      /\ UNCHANGED <<change.old, change.new, change.had, change.at, change.fresh, requests>>
      /\ UNCHANGED <<owner, vinfo, groupShared, public, group>> /\ old # new
      /\ old \in Accounts /\ new \in Accounts
    BY <1>0, IdGoesOn DEF IdMembers
<1>2. /\ UNCHANGED shared
      /\ member' = {<<Renamed(m[1], old, new), m[2], m[3]>> : m \in member}
    BY DEF IdMembers
<1>3. member' \subseteq Accounts \X Groups \X BOOLEAN
    BY <1>0, <1>1, <1>2 DEF Renamed
<1>4. GroupTypes' /\ change'.at \in Nat /\ change'.at <= requests'
    BY <1>1, <1>2, <1>3 DEF MoveInv, GroupTypes
<1>5. ASSUME Alone' PROVE Moved'
    <2>1. Moved
        BY <1>1, <1>5 DEF MoveInv, Alone
    <2>2. /\ NoOwner(old) /\ NoShareTo(old) /\ NoMember(new)
          /\ \A r \in Repos : change.had[r] = CheckFor(r, new, new, old)
        BY <2>1, <1>1 DEF Moved
    <2>3. ASSUME NEW g \in Groups, NEW s \in BOOLEAN
          PROVE  <<new, g, s>> \in member' <=> <<old, g, s>> \in member
        <3>1. <<new, g, s>> \notin member
            BY <2>2 DEF NoMember, IsMember
        <3>2. ASSUME <<new, g, s>> \in member' PROVE <<old, g, s>> \in member
            <4>1. PICK m \in member : <<new, g, s>> = <<Renamed(m[1], old, new), m[2], m[3]>>
                BY <1>2, <3>2
            <4>2. m \in Accounts \X Groups \X BOOLEAN
                BY <1>0
            <4>3. m = <<m[1], m[2], m[3]>> /\ m[2] = g /\ m[3] = s /\ new = Renamed(m[1], old, new)
                BY <4>1, <4>2
            <4>4. m[1] # new
                BY <4>3, <3>1
            <4>5. m[1] = old
                BY <4>3, <4>4 DEF Renamed
            <4> QED
                BY <4>3, <4>5
        <3>3. ASSUME <<old, g, s>> \in member PROVE <<new, g, s>> \in member'
            <4>1. <<Renamed(<<old, g, s>>[1], old, new), <<old, g, s>>[2], <<old, g, s>>[3]>> \in member'
                BY <1>2, <3>3
            <4> QED
                BY <4>1 DEF Renamed
        <3> QED
            BY <3>2, <3>3
    <2>4. GroupsOf(new)' = GroupsOf(old)
        <3>1. OwnGroups(new)' = OwnGroups(old)
            BY <1>0, <1>1, <2>3 DEF OwnGroups
        <3> QED
            BY <3>1, <1>1 DEF GroupsOf
    <2>5. /\ \A q : SharePerm(q, new)' = SharePerm(q, new)
          /\ \A l, p : UserDirPerm(l, new, p)' = UserDirPerm(l, new, p)
        BY <1>1, <1>2 DEF SharePerm, UserDirPerm, SharedDirs, DirsOf, AtPath, IsVirtual, Where,
                          FirstPerm, LastPerm
    <2>6. \A r \in Repos : CheckFor(r, new, new, new)' = CheckFor(r, new, new, old)
        BY <1>0, <1>1, <2>4, <2>5, SameCheck
    <2>7. NoOwner(old)' /\ NoShareTo(old)' /\ NoMember(old)'
        <3>1. ASSUME NEW g \in Groups, NEW s \in BOOLEAN PROVE <<old, g, s>> \notin member'
            BY <1>1, <1>2 DEF Renamed
        <3> QED
            BY <3>1, <2>2, <1>1, <1>2 DEF NoOwner, NoShareTo, NoMember, IsMember
    <2> QED
        BY <1>1, <2>2, <2>6, <2>7 DEF Moved
<1> QED
    BY <1>4, <1>5 DEF MoveInv

\* Every step keeps what the change of an id has moved so far.
LEMMA MoveStep == SharingAssumption /\ OwnersInv /\ MoveInv /\ [SharingNext]_sharingVars => MoveInv'
<1> SUFFICES ASSUME SharingAssumption, OwnersInv, MoveInv, [SharingNext]_sharingVars PROVE MoveInv'
    OBVIOUS
<1>0. Types' /\ TaskOK /\ GroupTypes /\ OwnersInv' /\ requests \in Nat
    BY OwnersStep DEF OwnersInv, MoveInv, GroupTypes
<1>1. CASE UNCHANGED sharingVars
    <2>1. UNCHANGED <<owner, vinfo, shared, groupShared, public, group, member, change, requests>>
        BY <1>1 DEF sharingVars, shareTables, people
    <2>2. ASSUME Moved PROVE Moved'
        <3>1. \A r \in Repos : \A o, s, m : CheckFor(r, o, s, m)' = CheckFor(r, o, s, m)
            <4>1. /\ \A q, s : SharePerm(q, s)' = SharePerm(q, s)
                  /\ \A l, s, p : UserDirPerm(l, s, p)' = UserDirPerm(l, s, p)
                  /\ \A m : GroupsOf(m)' = GroupsOf(m)
                BY <2>1 DEF SharePerm, UserDirPerm, SharedDirs, DirsOf, AtPath, IsVirtual, Where,
                        FirstPerm, LastPerm, GroupsOf, OwnGroups
            <4> QED
                BY <4>1, <2>1, SameCheck DEF OwnersInv
        <3> QED
            BY <2>1, <2>2, <3>1 DEF Moved, NoOwner, NoShareTo, NoMember, IsMember
    <2> QED
        BY <2>1, <2>2 DEF MoveInv, Alone, GroupTypes
<1>2. CASE requests' = requests + 1 /\ change' = change /\ GroupTypes'
    BY <1>2, <1>0 DEF MoveInv, Alone
<1>3. CASE change.kind # "id" /\ change'.kind # "id" /\ GroupTypes'
    BY <1>3 DEF MoveInv, Alone
<1>4. CASE \E old, new \in Accounts : UpdateEmailUserId(old, new)
    BY <1>4, MoveBegins
<1>5. CASE IdFrom
    BY <1>5, <1>0, IdFromMoves
<1>6. CASE IdTo
    BY <1>6, <1>0, IdToMoves
<1>7. CASE IdMembers
    BY <1>7, IdMembersMoves
<1>8. CASE IdAccount
    <2>1. change'.kind # "id" /\ UNCHANGED <<group, member, requests>>
        BY <1>8 DEF IdAccount, NoChange, SharingAssumption
    <2> QED
        BY <2>1, <1>0 DEF MoveInv, Alone, GroupTypes
<1>9. CASE IdFails
    <2>1. /\ change.kind = "id" /\ change'.pc = "failed"
          /\ UNCHANGED <<change.at, requests, group>>
        BY <1>9, <1>0, IdGoesOn DEF IdFails
    <2>2. UNCHANGED member
        BY <1>9 DEF IdFails
    <2> QED
        BY <2>1, <2>2, <1>0 DEF MoveInv, GroupTypes, Moved
<1> QED
    BY <1>0, <1>1, <1>2, <1>3, <1>4, <1>5, <1>6, <1>7, <1>8, <1>9, KindsOfSteps

\* What an id that no row names may open: what is public.
LEMMA NobodyOpens ==
    ASSUME SharingAssumption, Types, PermTypes, GroupTypes, NEW u \in Accounts, NEW r \in Repos,
           NoOwner(u), NoShareTo(u), NoMember(u)
    PROVE  CheckPermission(r, u) \in {Nothing, public[LibOf(r)]}
<1>1. OwnGroups(u) = {}
    BY DEF OwnGroups, GroupTypes, NoMember, IsMember
<1>2. GroupsOf(u) = {}
    BY <1>1 DEF GroupsOf
<1>3. ASSUME NEW q PROVE CheckRepoShare(q, u) \in {Nothing, public[q]}
    <2>1. SharePerm(q, u) = Nothing
        BY SharePermRow DEF NoShareTo
    <2>2. GroupPerm(q, GroupsOf(u)) = Nothing
        BY <1>2, GroupPermRow
    <2> QED
        BY <2>1, <2>2 DEF CheckRepoShare
<1>4. CASE IsVirtual(r)
    <2>1. r \in VRepos /\ vinfo[r].origin \in Repos
        BY <1>4 DEF IsVirtual, Types, Repos
    <2>2. ~OpensByDir(r, u)
        BY <1>2 DEF OpensByDir, NoShareTo
    <2>3. CheckOnParent(vinfo[r].origin, u, vinfo[r].path) = Nothing
        BY <1>4, <2>1, <2>2, ParentPerm
    <2>4. owner[vinfo[r].origin] # u
        BY <2>1 DEF NoOwner
    <2>5. CheckPermission(r, u) = CheckRepoShare(vinfo[r].origin, u)
        BY <1>4, <2>3, <2>4 DEF CheckPermission, CheckVirtual
    <2> QED
        BY <1>3, <1>4, <2>5 DEF LibOf
<1>5. CASE ~IsVirtual(r)
    <2>1. owner[r] # u
        BY DEF NoOwner
    <2>2. CheckPermission(r, u) \in {Nothing, CheckRepoShare(r, u)}
        BY <1>5, <2>1 DEF CheckPermission
    <2> QED
        BY <1>3, <1>5, <2>2 DEF LibOf
<1> QED
    BY <1>4, <1>5

\* CheckIsFor, for every state.
LEMMA ChecksAreFor == \A q, u : CheckPermission(q, u) = CheckFor(q, u, u, u)
BY CheckIsFor

\* Where the change of an id ends well, the permissions have moved.
LEMMA IdEnds ==
    ASSUME SharingAssumption, OwnersInv, PermTypes, MoveInv, [SharingNext]_sharingVars
    PROVE  IdMoved
<1> SUFFICES ASSUME change.kind = "id", change' = NoChange, requests = change.at, change.fresh,
                    NEW r \in Repos, NEW old \in Accounts, NEW new \in Accounts,
                    old = change.old, new = change.new
             PROVE  /\ CheckPermission(r, new)' = change.had[r]
                    /\ CheckPermission(r, old)' \in {Nothing, public[LibOf(r)]}
    BY DEF IdMoved
<1>0. Types /\ TaskOK /\ GroupTypes /\ Moved /\ requests \in Nat
    BY DEF OwnersInv, MoveInv, GroupTypes, Alone
<1>1. NoChange.kind # "id"
    BY DEF NoChange, SharingAssumption
<1>2. IdAccount
    <2>1. ~UNCHANGED sharingVars /\ change' # change
        BY <1>1 DEF sharingVars
    <2>2. ~\E o, n \in Accounts : UpdateEmailUserId(o, n)
        BY <1>1 DEF UpdateEmailUserId, TaskRequest
    <2>3. ~(IdFrom \/ IdTo \/ IdMembers \/ IdFails)
        BY <1>0, <1>1, IdGoesOn DEF IdFrom, IdTo, IdMembers, IdFails
    <2> QED
        BY <1>0, <2>1, <2>2, <2>3, KindsOfSteps
<1>3. /\ change.pc = "account"
      /\ UNCHANGED <<owner, vinfo, shared, groupShared, public, group, member>>
    BY <1>2 DEF IdAccount, shareTables
<1>4. /\ NoOwner(old) /\ NoShareTo(old) /\ NoMember(old)
      /\ change.had[r] = CheckFor(r, new, new, new)
    BY <1>0, <1>3 DEF Moved
<1>5. \A u : CheckPermission(r, u)' = CheckPermission(r, u)
    <2>1. \A u : CheckFor(r, u, u, u)' = CheckFor(r, u, u, u)
        <3>1. /\ \A q, s : SharePerm(q, s)' = SharePerm(q, s)
              /\ \A l, s, p : UserDirPerm(l, s, p)' = UserDirPerm(l, s, p)
              /\ \A m : GroupsOf(m)' = GroupsOf(m)
            BY <1>3 DEF SharePerm, UserDirPerm, SharedDirs, DirsOf, AtPath, IsVirtual, Where,
                    FirstPerm, LastPerm, GroupsOf, OwnGroups
        <3> QED
            BY <3>1, <1>0, <1>3, SameCheck
    <2>2. \A u : CheckPermission(r, u) = CheckFor(r, u, u, u)
        BY CheckIsFor
    <2>3. (\A q, u : CheckPermission(q, u) = CheckFor(q, u, u, u))'
        BY ChecksAreFor, PTL
    <2> QED
        BY <2>1, <2>2, <2>3
<1>6. CheckPermission(r, old) \in {Nothing, public[LibOf(r)]}
    BY <1>0, <1>4, NobodyOpens
<1> QED
    BY <1>4, <1>5, <1>6, CheckIsFor

----------------------------------------------------------------------------
\* The theorems

\* When a change of an owner or of an id has run to its end, no share to a user is left
\* that the owner does not see, whatever requests came in between its statements
\* (seaf_repo_manager_set_repo_owner(), ccnet_user_manager_update_emailuser_id()).
THEOREM OwnersSeeShares ==
    ASSUME SharingAssumption
    PROVE  SharingSpec => []OwnerSeesShares
<1>1. SharingInit => OwnersInv
    BY OwnersStart
<1>2. OwnersInv /\ [SharingNext]_sharingVars => OwnersInv'
    BY OwnersStep
<1>3. OwnersInv => OwnerSeesShares
    <2> SUFFICES ASSUME OwnersInv, change = NoChange, NEW s \in Range(shared), s.repo \in live
                 PROVE  s.to \in SharedTo(owner[s.repo], s.repo)
        BY DEF OwnerSeesShares
    <2>1. change.kind = Nothing /\ Nothing \notin {"owner", "id"}
        BY DEF NoChange, SharingAssumption
    <2>2. s.from = owner[s.repo]
        BY <2>1 DEF OwnersInv, RowsOK, Excused, OwnerName, Failed
    <2> QED
        BY <2>2 DEF SharedTo
<1> QED
    BY <1>1, <1>2, <1>3, PTL DEF SharingSpec

\* Both invariants together.
LEMMA Sharings == ASSUME SharingAssumption PROVE SharingSpec => [](OwnersInv /\ PermTypes)
<1>1. SharingInit => OwnersInv /\ PermTypes
    BY OwnersStart, PermStart
<1>2. (OwnersInv /\ PermTypes) /\ [SharingNext]_sharingVars => (OwnersInv /\ PermTypes)'
    BY OwnersStep, PermStep
<1> QED
    BY <1>1, <1>2, PTL DEF SharingSpec

\* Whatever the list for a sync client names, the permission check lets the user open, a
\* library with the very permission listed (get_accessible_repo_list_cb()).
THEOREM ListedCanBeOpened == ASSUME SharingAssumption PROVE SharingSpec => []ListedIsAccessible
<1>1. OwnersInv /\ PermTypes => ListedIsAccessible
    BY ListedPerm DEF OwnersInv
<1> QED
    BY <1>1, Sharings, PTL

\* A shared directory opens for whom the library opens, and for whom it or one above it is
\* shared, and for nobody else (check_virtual_repo_permission()).
THEOREM DirectoriesOpen == ASSUME SharingAssumption PROVE SharingSpec => []DirectoryAccess
<1>1. OwnersInv /\ PermTypes => DirectoryAccess
    BY DirectoryPerm DEF OwnersInv
<1> QED
    BY <1>1, Sharings, PTL

\* The Go server's check agrees with the C server's or never returns, where the user's
\* groups have none above and a path is shared to them in one way (CheckPerm() in share.go).
THEOREM ServersAgree == ASSUME SharingAssumption PROVE SharingSpec => []GoAgrees
<1>1. OwnersInv /\ PermTypes => GoAgrees
    BY GoPermission DEF OwnersInv
<1> QED
    BY <1>1, Sharings, PTL

\* All of them decide alike: the lists of libraries, the shared directories and the Go server
\* (get_accessible_repo_list_cb(), check_virtual_repo_permission(), CheckPerm() in share.go).
THEOREM ChecksAgree == ASSUME SharingAssumption PROVE SharingSpec => []PermissionsAgree
BY ListedCanBeOpened, DirectoriesOpen, ServersAgree, PTL DEF PermissionsAgree

\* A change of an id that ends well, with no request between its statements, moves every
\* permission of the old id to a new one that no row named, and leaves the old id what is
\* public (ccnet_user_manager_update_emailuser_id()).
THEOREM IdsMove == ASSUME SharingAssumption PROVE SharingSpec => IdChangeMoves
<1>1. SharingInit => OwnersInv /\ PermTypes /\ MoveInv
    BY OwnersStart, PermStart, MoveStart
<1>2. (OwnersInv /\ PermTypes /\ MoveInv) /\ [SharingNext]_sharingVars
      => (OwnersInv /\ PermTypes /\ MoveInv)'
    BY OwnersStep, PermStep, MoveStep
<1>3. (OwnersInv /\ PermTypes /\ MoveInv) /\ [SharingNext]_sharingVars => IdMoved
    BY IdEnds
<1> QED
    BY <1>1, <1>2, <1>3, PTL DEF SharingSpec, IdChangeMoves
=============================================================================
