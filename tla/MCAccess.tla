------------------------------ MODULE MCAccess ------------------------------
(***************************************************************************)
(* Who may open a library. In "shares" a has a library with the directories d *)
(* and d/e and a department top, with or without a subgroup of b; the library *)
(* may be shared to b. In "threads" two requests of a new device of a user      *)
(* meet, in "device" there is one at a time, and more changes.                 *)
(***************************************************************************)
EXTENDS SyncAccess, Sharing

CONSTANTS a, b, L, top, sub, user, q

VARIABLE side

Top == [id |-> top, path |-> <<top>>]
Sub == [id |-> sub, path |-> <<top, sub>>]

Directories == {<<"d">>, <<"d", "e">>}
FirstOwner == L :> a
FirstMembers == {<<b, sub, FALSE>>, <<a, top, TRUE>>}
FirstGroups == {{Top}, {Top, Sub}}
FirstShares == {<< >>, <<[repo |-> L, from |-> a, to |-> b, perm |-> "r"]>>}

Device == INSTANCE SyncAccess WITH MaxOps <- 3

ASSUME Bounds == AccessAssumption /\ SharingAssumption

AccessInit ==
    /\ side \in {"shares", "threads", "device"}
    /\ SharingInit
    /\ Init
    /\ side # "device" => issued = {} /\ perm[user] = "rw"
    /\ side # "shares" => shared = << >> /\ used = {top}

AccessNext ==
    /\ UNCHANGED side
    /\ \/ side = "shares" /\ SharingNext /\ UNCHANGED vars
       \/ side = "threads" /\ Next /\ UNCHANGED sharingVars
       \/ side = "device" /\ Device!Next /\ req'[q] = Idle /\ UNCHANGED sharingVars

AccessSpec == AccessInit /\ [][AccessNext]_<<side, sharingVars, vars>>
=============================================================================
