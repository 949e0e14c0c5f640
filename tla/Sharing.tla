------------------------------ MODULE Sharing ------------------------------
(***************************************************************************)
(* Who may do what with a library: the tables RepoOwner, SharedRepo,          *)
(* RepoGroup, InnerPubRepo, VirtualRepo, GroupUser and Group, the requests of *)
(* common/rpc-service.c that change them, the check of a permission in        *)
(* server/repo-perm.c and in fileserver/share/share.go, and the list of the   *)
(* libraries that a user may open, which sync clients ask for.                *)
(*                                                                            *)
(* A request is one SQL statement on one table, and so one step.  Two         *)
(* requests consist of many statements outside a transaction, and others may  *)
(* come in between: the change of a library's owner, and the change of a      *)
(* user's id.  SQL returns rows in the order of their insertion here: the     *)
(* queries have no ORDER BY, and both database engines use the row id.        *)
(***************************************************************************)
EXTENDS Integers, FiniteSets, Sequences, SequencesExt, TLC

CONSTANTS
    Accounts,       \* ids of accounts
    Libs, VRepos,   \* libraries, and ids for virtual repos
    Dirs,           \* paths of directories, as sequences of names
    Groups,
    InitOwner,      \* the owner of each library,
    InitMembers,    \* the members of groups <<user, group, is_staff>>,
    InitGroups,     \* rows of Group and GroupStructure that may be there,
    InitShares,     \* rows of SharedRepo that may be there, and
    InitAccounts,   \* the accounts at the beginning
    CloudMode,      \* seaf->cloud_mode
    Nothing,
    MaxRequests     \* bound: requests; a change of an owner or an id counts for two

Rights == {"r", "rw"}
Repos == Libs \cup VRepos

\* The rows of SharedRepo and RepoGroup
ShareRow == [repo : Repos, from : Accounts \cup {Nothing}, to : Accounts, perm : Rights]
GroupRow == [repo : Repos, group : Groups, user : Accounts \cup {Nothing}, perm : Rights]

\* Libraries and virtual repos have different ids, the paths of directories are not
\* the root's, the shares there are at the beginning are the owners', and Nothing is no other value.
SharingAssumption ==
    /\ Libs \cap VRepos = {}
    /\ Nothing \notin Accounts \cup Rights \cup {"owner", "id", "hangs"}
    /\ \A dir \in Dirs : dir \in Seq(Range(dir)) /\ dir # << >>
    /\ Nothing \notin [origin : Libs, path : Dirs]
    /\ InitOwner \in [Libs -> Accounts]
    /\ \A rows \in InitShares :
          /\ rows \in Seq(ShareRow)
          /\ \A s \in Range(rows) : s.repo \in Libs /\ s.from = InitOwner[s.repo]
    /\ InitMembers \subseteq Accounts \X Groups \X BOOLEAN
    /\ \A rows \in InitGroups : \A g \in rows : g.id \in Groups

VARIABLES
    owner,          \* RepoOwner
    vinfo,          \* VirtualRepo: the origin and the path of a virtual repo
    live,           \* the repos that have a row in Branch
    shared,         \* SharedRepo
    groupShared,    \* RepoGroup
    public,         \* InnerPubRepo
    group,          \* Group, with the path in GroupStructure
    used,           \* the ids that groups have had: they are not used again
    member,         \* GroupUser
    account,        \* EmailUser
    change,         \* the change of an owner or of an id that is under way
    requests

shareTables == <<owner, vinfo, live, shared, groupShared, public>>
people == <<group, used, member, account>>
sharingVars == <<shareTables, people, change, requests>>

NoChange == [kind |-> Nothing]

SharingInit ==
    /\ owner = [r \in Repos |-> IF r \in Libs THEN InitOwner[r] ELSE Nothing]
    /\ vinfo = [v \in VRepos |-> Nothing]
    /\ live = Libs
    /\ shared \in InitShares
    /\ groupShared = << >>
    /\ public = [r \in Repos |-> Nothing]
    /\ group \in InitGroups
    /\ used = {g.id : g \in group}
    /\ member = {m \in InitMembers : m[2] \in used}
    /\ account = InitAccounts
    /\ change = NoChange
    /\ requests = 0

IsVirtual(r) == r \in VRepos /\ vinfo[r] # Nothing

----------------------------------------------------------------------------
\* Tables: SELECT, UPDATE and DELETE of some rows

Where(rows, those) ==
    LET kept[n \in 0..Len(rows)] ==
            IF n = 0 THEN << >>
            ELSE IF rows[n] \in those THEN Append(kept[n - 1], rows[n])
            ELSE kept[n - 1]
    IN  kept[Len(rows)]

Without(rows, these) == Where(rows, Range(rows) \ these)

Updated(rows, these, p) ==
    [i \in DOMAIN rows |-> IF rows[i] \in these THEN [rows[i] EXCEPT !.perm = p] ELSE rows[i]]

----------------------------------------------------------------------------
\* The check of a permission

\* the first row of a query and the best permission among rows
FirstPerm(rows) == IF rows = << >> THEN Nothing ELSE Head(rows).perm

Best(perms) ==
    IF "rw" \in perms THEN "rw" ELSE IF "r" \in perms THEN "r" ELSE Nothing

\* A group has a path in GroupStructure if it is a department.
OwnGroups(u) == {g \in group : \E s \in BOOLEAN : <<u, g.id, s>> \in member}

GroupsOf(u) ==
    {g.id : g \in OwnGroups(u)}
    \cup {g.id : g \in {h \in group : \E m \in OwnGroups(u) : h.id \in Range(m.path)}}

SharePerm(r, u) ==
    FirstPerm(Where(shared, {s \in Range(shared) : s.repo = r /\ s.to = u}))

GroupPerm(r, groups) ==
    Best({s.perm : s \in {t \in Range(groupShared) : t.repo = r /\ t.group \in groups}})

CheckRepoShare(r, u) ==
    IF SharePerm(r, u) # Nothing THEN SharePerm(r, u)
    ELSE IF GroupPerm(r, GroupsOf(u)) # Nothing THEN GroupPerm(r, GroupsOf(u))
    ELSE IF CloudMode THEN Nothing ELSE public[r]

\* The directories of a library that are shared to a user, or to groups: of
\* several rows for a path the last one counts, or the one that allows more.
DirsOf(rows, l) ==
    Where(rows, {s \in Range(rows) : IsVirtual(s.repo) /\ vinfo[s.repo].origin = l})

AtPath(rows, path) == Where(rows, {s \in Range(rows) : vinfo[s.repo].path = path})

SharedDirs(l, u) == DirsOf(Where(shared, {s \in Range(shared) : s.to = u}), l)
GroupDirs(l, groups) ==
    DirsOf(Where(groupShared, {s \in Range(groupShared) : s.group \in groups}), l)

LastPerm(rows) == IF rows = << >> THEN Nothing ELSE Last(rows).perm

UserDirPerm(l, u, path) == LastPerm(AtPath(SharedDirs(l, u), path))

GroupDirPerm(l, u, path) ==
    Best({s.perm : s \in Range(AtPath(GroupDirs(l, GroupsOf(u)), path))})

\* get_dir_perm() goes from a path up to the one below the root.
Above(path) == {SubSeq(path, 1, n) : n \in 1..Len(path)}

Deepest(perm) ==
    LET found == {p \in DOMAIN perm : perm[p] # Nothing}
    IN  IF found = {} THEN Nothing
        ELSE perm[CHOOSE p \in found : \A q \in found : Len(q) <= Len(p)]

CheckOnParent(l, u, path) ==
    LET mine == Deepest([p \in Above(path) |-> UserDirPerm(l, u, p)])
    IN  IF mine # Nothing THEN mine
        ELSE Deepest([p \in Above(path) |-> GroupDirPerm(l, u, p)])

\* Mutant: the shares of the whole library are not asked for
CheckVirtualByDir(v, u) ==
    IF owner[vinfo[v].origin] = u THEN "rw"
    ELSE CheckOnParent(vinfo[v].origin, u, vinfo[v].path)

CheckVirtual(v, u) ==
    LET l == vinfo[v].origin
        dir == CheckOnParent(l, u, vinfo[v].path)
    IN  IF owner[l] = u THEN "rw"
        ELSE IF dir # Nothing THEN dir
        ELSE CheckRepoShare(l, u)

CheckPermission(r, u) ==
    IF IsVirtual(r) THEN CheckVirtual(r, u)
    ELSE IF owner[r] = Nothing THEN Nothing
    ELSE IF owner[r] = u THEN "rw"
    ELSE CheckRepoShare(r, u)

----------------------------------------------------------------------------
\* The same check in the file server written in Go

GoGroupsOf(u) == {g.id : g \in OwnGroups(u)}

GoCheckRepoShare(r, u) ==
    IF owner[r] = u THEN "rw"
    ELSE IF SharePerm(r, u) # Nothing THEN SharePerm(r, u)
    ELSE IF GroupPerm(r, GoGroupsOf(u)) # Nothing THEN GroupPerm(r, GoGroupsOf(u))
    ELSE IF CloudMode THEN Nothing ELSE public[r]

\* filepath.Dir("/") is "/": a walk up that finds nothing does not end.
GoDirPerm(rows, path) ==
    LET found == Deepest([p \in Above(path) |-> LastPerm(AtPath(rows, p))])
    IN  IF rows # << >> /\ found = Nothing THEN "hangs" ELSE found

GoCheckOnParent(l, u, path) ==
    LET mine == GoDirPerm(SharedDirs(l, u), path)
    IN  IF mine # Nothing THEN mine
        ELSE GoDirPerm(GroupDirs(l, GoGroupsOf(u)), path)

GoCheckVirtual(v, u) ==
    LET l == vinfo[v].origin
        dir == GoCheckOnParent(l, u, vinfo[v].path)
    IN  IF owner[l] = u THEN "rw"
        ELSE IF dir # Nothing THEN dir
        ELSE GoCheckRepoShare(l, u)

GoCheckPerm(r, u) ==
    IF IsVirtual(r) THEN GoCheckVirtual(r, u) ELSE GoCheckRepoShare(r, u)

----------------------------------------------------------------------------
\* The list of the libraries of a user: of entries for the same repo the first
\* one counts, in the order own, shared, of groups, public.

OwnRepos(u) == {[repo |-> r, perm |-> "rw"] :
                  r \in {s \in live : owner[s] = u /\ ~IsVirtual(s)}}

SharedRepos(u) == {[repo |-> r, perm |-> SharePerm(r, u)] :
                     r \in {s \in live : SharePerm(s, u) # Nothing}}

GroupRepos(u) ==
    {[repo |-> r, perm |-> GroupPerm(r, GroupsOf(u))] :
       r \in {s \in live : GroupPerm(s, GroupsOf(u)) # Nothing}}

PublicRepos == {[repo |-> r, perm |-> public[r]] : r \in {s \in live : public[s] # Nothing}}

Adding(list, more) ==
    list \cup {e \in more : \A f \in list : f.repo # e.repo}

AccessibleList(u) ==
    Adding(Adding(Adding(OwnRepos(u), SharedRepos(u)), GroupRepos(u)), PublicRepos)

\* What the owner of a library sees of its shares
SharedTo(u, r) == {s.to : s \in {t \in Range(shared) : t.from = u /\ t.repo = r}}

----------------------------------------------------------------------------
\* Requests on shares

Request == requests < MaxRequests /\ requests' = requests + 1
TaskRequest == requests + 2 <= MaxRequests /\ requests' = requests + 2 /\ change = NoChange

OnShares(rows) ==
    /\ shared' = rows
    /\ UNCHANGED <<owner, vinfo, live, groupShared, public, people, change>>

OnGroupShares(rows) ==
    /\ groupShared' = rows
    /\ UNCHANGED <<owner, vinfo, live, shared, public, people, change>>

SharesOf(r, from, to) == {s \in Range(shared) : s.repo = r /\ s.from = from /\ s.to = to}
GroupSharesOf(r, g) == {s \in Range(groupShared) : s.repo = r /\ s.group = g}

\* add_share() leaves a row alone that is there already
WithShare(r, from, to, p) ==
    IF \E s \in Range(shared) : s.repo = r /\ s.from = from /\ s.to = to THEN shared
    ELSE Append(shared, [repo |-> r, from |-> from, to |-> to, perm |-> p])

\* Seahub lets only the owner of a library share it.
AddShare(r, to, p) ==
    /\ Request
    /\ r \in live /\ owner[r] # to
    /\ OnShares(WithShare(r, owner[r], to, p))

RemoveShare(r, from, to) ==
    /\ Request
    /\ OnShares(Without(shared, SharesOf(r, from, to)))

SetSharePermission(r, from, to, p) ==
    /\ Request
    /\ OnShares(Updated(shared, SharesOf(r, from, to), p))

OfDir(r, l, dir) == IsVirtual(r) /\ vinfo[r] = [origin |-> l, path |-> dir]

SubdirShares(l, dir, from, to) ==
    {s \in Range(shared) : OfDir(s.repo, l, dir) /\ s.from = from /\ s.to = to}
SubdirGroupShares(l, dir, u, g) ==
    {s \in Range(groupShared) : OfDir(s.repo, l, dir) /\ s.user = u /\ s.group = g}

UnshareSubdir(l, dir, from, to) ==
    /\ Request
    /\ OnShares(Without(shared, SubdirShares(l, dir, from, to)))

SetSubdirPermission(l, dir, from, to, p) ==
    /\ Request
    /\ OnShares(Updated(shared, SubdirShares(l, dir, from, to), p))

\* (group_id, repo_id) is unique in RepoGroup
WithGroupShare(r, g, u, p) ==
    Append(groupShared, [repo |-> r, group |-> g, user |-> u, perm |-> p])

NotShared(r, g) == \A s \in Range(groupShared) : ~(s.repo = r /\ s.group = g)

GroupShareRepo(r, g, p) ==
    /\ Request
    /\ r \in live /\ NotShared(r, g)
    /\ OnGroupShares(WithGroupShare(r, g, owner[r], p))

GroupUnshareRepo(r, g) ==
    /\ Request
    /\ OnGroupShares(Without(groupShared, GroupSharesOf(r, g)))

SetGroupRepoPermission(r, g, p) ==
    /\ Request
    /\ OnGroupShares(Updated(groupShared, GroupSharesOf(r, g), p))

UnshareSubdirForGroup(l, dir, u, g) ==
    /\ Request
    /\ OnGroupShares(Without(groupShared, SubdirGroupShares(l, dir, u, g)))

SetSubdirGroupPermission(l, dir, u, g, p) ==
    /\ Request
    /\ OnGroupShares(Updated(groupShared, SubdirGroupShares(l, dir, u, g), p))

RemoveRepoGroup(g, u) ==
    /\ Request
    /\ OnGroupShares(Without(groupShared,
             {s \in Range(groupShared) : s.group = g /\ u \in {Nothing, s.user}}))

\* A directory is shared as a virtual repo of its own, which belongs to the
\* owner of the library; there is at most one for a path.
VirtualFor(l, dir) ==
    LET there == {v \in VRepos : OfDir(v, l, dir)}
    IN  IF there # {} THEN there ELSE {v \in VRepos : vinfo[v] = Nothing /\ v \notin live}

CreateVirtualRepo(v, l, dir) ==
    /\ v \in VirtualFor(l, dir)
    /\ vinfo' = [vinfo EXCEPT ![v] = [origin |-> l, path |-> dir]]
    /\ live' = live \cup {v}
    /\ owner' = [owner EXCEPT ![v] = IF v \in live THEN @ ELSE owner[l]]

ShareSubdirToUser(l, dir, to, p) ==
    /\ Request
    /\ owner[l] # to
    /\ \E v \in VRepos :
          /\ CreateVirtualRepo(v, l, dir)
          /\ shared' = WithShare(v, owner[l], to, p)
    /\ UNCHANGED <<groupShared, public, people, change>>

ShareSubdirToGroup(l, dir, g, p) ==
    /\ Request
    /\ \E v \in VRepos :
          /\ CreateVirtualRepo(v, l, dir)
          /\ groupShared' = IF NotShared(v, g) THEN WithGroupShare(v, g, owner[l], p)
                            ELSE groupShared
    /\ UNCHANGED <<shared, public, people, change>>

\* Only whole libraries are made public: the check of a virtual repo does not
\* look at its own row of InnerPubRepo.
SetInnerPubRepo(r, p) ==
    /\ Request
    /\ r \in live
    /\ public' = [public EXCEPT ![r] = p]
    /\ UNCHANGED <<owner, vinfo, live, shared, groupShared, people, change>>

----------------------------------------------------------------------------
\* Groups.  A department cannot be made: for parent -1 the SQL text is wrong
\* ("INSERT INOT"), and the transaction is rolled back.

CreateGroup(g, u, parent) ==
    /\ Request
    /\ g \notin used
    /\ used' = used \cup {g}
    /\ \/ parent = Nothing /\ group' = group \cup {[id |-> g, path |-> << >>]}
       \/ \E h \in group :
             /\ h.id = parent /\ h.path # << >>
             /\ group' = group \cup {[id |-> g, path |-> Append(h.path, g)]}
    /\ member' = member \cup {<<u, g, TRUE>>}
    /\ UNCHANGED <<shareTables, account, change>>

ParentOf(g) == IF Len(g.path) > 1 THEN g.path[Len(g.path) - 1] ELSE Nothing

\* the rows of RepoGroup stay
RemoveGroup(g, anyway) ==
    /\ Request
    /\ anyway \/ \A h \in group : ParentOf(h) # g
    /\ group' = {h \in group : h.id # g}
    /\ member' = {m \in member : m[2] # g}
    /\ UNCHANGED <<shareTables, used, account, change>>

OnMembers(rows) ==
    /\ member' = rows
    /\ UNCHANGED <<shareTables, group, used, account, change>>

GroupExists(g) == \E h \in group : h.id = g
IsMember(u, g) == \E s \in BOOLEAN : <<u, g, s>> \in member
WithoutMember(u, g) == {m \in member : ~(m[1] = u /\ m[2] = g)}

AddMember(g, u) ==
    /\ Request
    /\ GroupExists(g) /\ ~IsMember(u, g)
    /\ OnMembers(member \cup {<<u, g, FALSE>>})

RemoveMember(g, by, u) ==
    /\ Request
    /\ GroupExists(g) /\ by # u
    /\ OnMembers(WithoutMember(u, g))

QuitGroup(g, u) ==
    /\ Request
    /\ <<u, g, TRUE>> \notin member
    /\ GroupExists(g)
    /\ OnMembers(WithoutMember(u, g))

SetStaff(g, u, staff) ==
    /\ Request
    /\ IsMember(u, g)
    /\ OnMembers(WithoutMember(u, g) \cup {<<u, g, staff>>})

----------------------------------------------------------------------------
\* The change of the owner of a library, one step for each statement

SetRepoOwner(r, u) ==
    /\ TaskRequest
    /\ r \in live /\ owner[r] # u
    /\ owner' = [owner EXCEPT ![r] = u]
    /\ change' = [kind |-> "owner", pc |-> "shares", repo |-> r, vrepos |-> {}]
    /\ UNCHANGED <<vinfo, live, shared, groupShared, public, people>>

OwnerStep(pc, next) ==
    /\ change.kind = "owner" /\ change.pc = pc
    /\ change' = [change EXCEPT !.pc = next]
    /\ UNCHANGED <<people, requests>>

\* Mutant: the shares of the former owner stay
OwnerKeepsShares ==
    /\ OwnerStep("shares", "groups")
    /\ UNCHANGED <<owner, vinfo, live, shared, groupShared, public>>

OwnerDelShares ==
    /\ OwnerStep("shares", "groups")
    /\ shared' = Without(shared, {s \in Range(shared) : s.repo = change.repo})
    /\ UNCHANGED <<owner, vinfo, live, groupShared, public>>

OwnerDelGroups ==
    /\ OwnerStep("groups", "public")
    /\ groupShared' = Without(groupShared, {s \in Range(groupShared) : s.repo = change.repo})
    /\ UNCHANGED <<owner, vinfo, live, shared, public>>

OwnerDelPublic ==
    /\ OwnerStep("public", "list")
    /\ public' = IF CloudMode THEN public ELSE [public EXCEPT ![change.repo] = Nothing]
    /\ UNCHANGED <<owner, vinfo, live, shared, groupShared>>

OwnerListVirtual ==
    /\ change.kind = "owner" /\ change.pc = "list"
    /\ change' = [change EXCEPT !.pc = "remove",
                  !.vrepos = {v \in VRepos : IsVirtual(v) /\ vinfo[v].origin = change.repo}]
    /\ UNCHANGED <<shareTables, people, requests>>

\* remove_virtual_repo_ondisk(), without the row of VirtualRepo
OwnerRemoveVirtual ==
    /\ OwnerStep("remove", "rows")
    /\ owner' = [r \in Repos |-> IF r \in change.vrepos THEN Nothing ELSE owner[r]]
    /\ live' = live \ change.vrepos
    /\ shared' = Without(shared, {s \in Range(shared) : s.repo \in change.vrepos})
    /\ groupShared' = Without(groupShared, {s \in Range(groupShared) : s.repo \in change.vrepos})
    /\ public' = IF CloudMode THEN public
                 ELSE [r \in Repos |-> IF r \in change.vrepos THEN Nothing ELSE public[r]]
    /\ UNCHANGED vinfo

OwnerDelVirtualRows ==
    /\ change.kind = "owner" /\ change.pc = "rows"
    /\ vinfo' = [v \in VRepos |->
          IF vinfo[v] # Nothing /\ (v = change.repo \/ vinfo[v].origin = change.repo)
          THEN Nothing ELSE vinfo[v]]
    /\ change' = NoChange
    /\ UNCHANGED <<owner, live, shared, groupShared, public, people, requests>>

----------------------------------------------------------------------------
\* Accounts, and the change of a user's id: a statement for each column that
\* holds ids, but RepoGroup.user_name is left out.  An error ends the request
\* and undoes nothing.

AddEmailUser(u) ==
    /\ Request
    /\ account' = account \cup {u}
    /\ u \notin account
    /\ UNCHANGED <<shareTables, group, used, member, change>>

\* the rows that name the user stay
RemoveEmailUser(u) ==
    /\ Request
    /\ u \in account
    /\ account' = account \ {u}
    /\ UNCHANGED <<shareTables, group, used, member, change>>

Renamed(u, old, new) == IF u = old THEN new ELSE u

\* history: an id that no row names yet
Unknown(u) ==
    /\ \A r \in Repos : owner[r] # u
    /\ \A s \in Range(shared) : s.to # u
    /\ \A g \in Groups : ~IsMember(u, g)

UpdateEmailUserId(old, new) ==
    /\ TaskRequest
    /\ old \in account /\ old # new
    /\ owner' = [r \in Repos |-> Renamed(owner[r], old, new)]
    /\ change' = [kind |-> "id", pc |-> "from", old |-> old, new |-> new,
                at |-> requests', had |-> [r \in Repos |-> CheckPermission(r, old)],
                fresh |-> Unknown(new)]
    /\ UNCHANGED <<vinfo, live, shared, groupShared, public, people>>

IdStep(pc, next) ==
    /\ change.kind = "id" /\ change.pc = pc
    /\ change' = [change EXCEPT !.pc = next]
    /\ UNCHANGED <<owner, vinfo, live, groupShared, public, group, used, requests>>

IdFrom ==
    /\ IdStep("from", "to")
    /\ shared' = [i \in DOMAIN shared |->
                    [shared[i] EXCEPT !.from = Renamed(@, change.old, change.new)]]
    /\ UNCHANGED <<member, account>>

IdTo ==
    /\ IdStep("to", "member")
    /\ shared' = [i \in DOMAIN shared |->
                    [shared[i] EXCEPT !.to = Renamed(@, change.old, change.new)]]
    /\ UNCHANGED <<member, account>>

\* Mutant: memberships keep the old id
IdMembersForgotten ==
    /\ IdStep("member", "account")
    /\ UNCHANGED <<shared, member, account>>

\* (group_id, user_name) is unique in GroupUser, and so are emails
IdMembers ==
    /\ IdStep("member", "account")
    /\ \A g \in Groups : ~(IsMember(change.old, g) /\ IsMember(change.new, g))
    /\ member' = {<<Renamed(m[1], change.old, change.new), m[2], m[3]>> : m \in member}
    /\ UNCHANGED <<shared, account>>

IdAccount ==
    /\ change.kind = "id" /\ change.pc = "account"
    /\ change.new \notin account
    /\ account' = {Renamed(u, change.old, change.new) : u \in account}
    /\ change' = NoChange
    /\ UNCHANGED <<shareTables, group, used, member, requests>>

IdFails ==
    /\ change.kind = "id" /\ change.pc # "failed"
    /\ IdStep(change.pc, "failed")
    /\ UNCHANGED <<shared, member, account>>

----------------------------------------------------------------------------

SharingNext ==
    \/ \E r \in Repos, u \in Accounts, p \in Rights :
          \/ AddShare(r, u, p)
          \/ RemoveShare(r, owner[r], u)
          \/ SetSharePermission(r, owner[r], u, p)
    \/ \E r \in Repos, g \in Groups, p \in Rights :
          \/ GroupShareRepo(r, g, p)
          \/ GroupUnshareRepo(r, g)
          \/ SetGroupRepoPermission(r, g, p)
    \/ \E l \in Libs, dir \in Dirs, u \in Accounts, p \in Rights :
          \/ ShareSubdirToUser(l, dir, u, p)
          \/ UnshareSubdir(l, dir, owner[l], u)
          \/ SetSubdirPermission(l, dir, owner[l], u, p)
    \/ \E l \in Libs, dir \in Dirs, g \in Groups, p \in Rights :
          \/ ShareSubdirToGroup(l, dir, g, p)
          \/ UnshareSubdirForGroup(l, dir, owner[l], g)
          \/ SetSubdirGroupPermission(l, dir, owner[l], g, p)
    \/ \E g \in Groups, u \in Accounts :
          \/ RemoveRepoGroup(g, u) \/ RemoveRepoGroup(g, Nothing)
          \/ \E h \in Groups \cup {Nothing} : CreateGroup(g, u, h)
          \/ AddMember(g, u) \/ QuitGroup(g, u)
          \/ \E by \in Accounts : RemoveMember(g, by, u)
          \/ \E s \in BOOLEAN : SetStaff(g, u, s)
    \/ \E g \in Groups, anyway \in BOOLEAN : RemoveGroup(g, anyway)
    \/ \E l \in Libs : \/ \E u \in Accounts : SetRepoOwner(l, u)
                       \/ \E p \in Rights \cup {Nothing} : SetInnerPubRepo(l, p)
    \/ OwnerDelShares \/ OwnerDelGroups \/ OwnerDelPublic
    \/ OwnerListVirtual \/ OwnerRemoveVirtual \/ OwnerDelVirtualRows
    \/ \E u \in Accounts : AddEmailUser(u) \/ RemoveEmailUser(u)
    \/ \E old, new \in Accounts : UpdateEmailUserId(old, new)
    \/ IdFrom \/ IdTo \/ IdMembers \/ IdAccount \/ IdFails

SharingSpec == SharingInit /\ [][SharingNext]_sharingVars

----------------------------------------------------------------------------
\* Whatever the list that get_accessible_repo_list_cb() sends to a sync client
\* names, the permission check lets the user open, and a library that is not
\* virtual with the very permission listed.  The two walk different tables in
\* different orders.
ListedIsAccessible ==
    ~CloudMode =>
        \A u \in Accounts : \A e \in AccessibleList(u) :
            /\ CheckPermission(e.repo, u) # Nothing
            /\ ~IsVirtual(e.repo) => CheckPermission(e.repo, u) = e.perm

\* check_virtual_repo_permission(): who may open a library may open the virtual
\* repos of its directories; anyone else only by a share of the directory or of
\* one above it, to the user or to a group at or above one of the user's.
OpensByDir(v, u) ==
    \/ \E s \in Range(shared) :
          /\ s.to = u /\ IsVirtual(s.repo)
          /\ vinfo[s.repo].origin = vinfo[v].origin
          /\ IsPrefix(vinfo[s.repo].path, vinfo[v].path)
    \/ \E s \in Range(groupShared) :
          /\ s.group \in GroupsOf(u) /\ IsVirtual(s.repo)
          /\ vinfo[s.repo].origin = vinfo[v].origin
          /\ IsPrefix(vinfo[s.repo].path, vinfo[v].path)

DirectoryAccess ==
    \A v \in VRepos, u \in Accounts : IsVirtual(v) =>
        (CheckPermission(v, u) # Nothing
            <=> CheckPermission(vinfo[v].origin, u) # Nothing \/ OpensByDir(v, u))

\* When a change of an owner or of an id has run to its end, no share to a user
\* is left that the repo's owner does not see in list_repo_shared_to(), and so
\* cannot withdraw.
OwnerSeesShares ==
    change = NoChange =>
        \A s \in Range(shared) : s.repo \in live => s.to \in SharedTo(owner[s.repo], s.repo)

LibOf(r) == IF IsVirtual(r) THEN vinfo[r].origin ELSE r

IdMoved ==
    change.kind = "id" /\ change' = NoChange /\ requests = change.at /\ change.fresh =>
        \A r \in Repos, old, new \in Accounts :
            old = change.old /\ new = change.new =>
               /\ CheckPermission(r, new)' = change.had[r]
               /\ CheckPermission(r, old)' \in {Nothing, public[LibOf(r)]}

\* A change of an id that ends well moves every permission of the old id to the
\* new one, if no row named the new id before and nothing happened in between.
IdChangeMoves == [][IdMoved]_sharingVars

\* The check of the Go server agrees with the one of the C server, or never
\* returns: if the library has an owner, the user's groups are no departments
\* with others above, and a path is shared to the user's groups in one way.
OneWay(l, u) ==
    \A s, t \in Range(GroupDirs(l, GroupsOf(u))) :
        vinfo[s.repo].path = vinfo[t.repo].path => s.perm = t.perm

GoAgrees ==
    \A r \in live, u \in Accounts :
        /\ owner[r] # Nothing
        /\ GroupsOf(u) = GoGroupsOf(u)
        /\ IsVirtual(r) => OneWay(vinfo[r].origin, u)
        => GoCheckPerm(r, u) \in {CheckPermission(r, u), "hangs"}

\* The lists of libraries (get_accessible_repo_list_cb), virtual repos
\* (check_virtual_repo_permission) and the Go server decide as the permission check does.
PermissionsAgree == ListedIsAccessible /\ DirectoryAccess /\ GoAgrees

=============================================================================
