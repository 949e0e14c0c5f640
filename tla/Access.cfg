\* Shares of a library and its directories; the caches of tokens and permissions.
CONSTANTS
    a = a  b = b  L = L  top = top  sub = sub
    user = user  q = q  None = None
    Users = {user}  Tokens = {t1}  Peers = {device}  Procs = {p, q}
    Accounts = {a, b, c}  Libs = {L}  VRepos = {v1, v2}  Groups = {top, sub}  Nothing = Nothing
    Dirs <- Directories  InitOwner <- FirstOwner  InitMembers <- FirstMembers
    InitGroups <- FirstGroups  InitShares <- FirstShares  InitAccounts = {a, b}
    CloudMode = FALSE  MaxRequests = 3
    TokenExpire = 1  PermExpire = 1  Interval = 1  MaxTime = 2  MaxOps = 2
SPECIFICATION AccessSpec
CHECK_DEADLOCK FALSE
INVARIANTS PermissionsAgree OwnerSeesShares AccessEnds
PROPERTIES IdChangeMoves
