----------------------------- MODULE MCTransfers -----------------------------
(***************************************************************************)
(* What goes to and from the server. In "down" there are downloads with one   *)
(* token over two connections: a file of three blocks, directories of two and *)
(* of three files, of which two are allowed, and offsets of 4 bits. In "up"   *)
(* there is an upload of a form, or of a file of three chunks, twice, with     *)
(* two troubles on the way. In "lists" two sync clients, one of which fetches *)
(* only directories, ask for the objects of a library.                         *)
(***************************************************************************)
EXTENDS Uploads, Downloads, TLC

CONSTANTS r1, r2, t1, t2, t3, fname, subdir, f1, f2, b1, b2, c1, c2, Empty

VARIABLES side,
    latest, present, table, tasks, clients, pushes, troubles, unloadable

Suffix(n) == [kind |-> "suffix", n |-> n]
From(n) == [kind |-> "from", n |-> n]
FromTo(n, m) == [kind |-> "both", n |-> n, m |-> m]

ThreeBlocks == {<<2, 2, 1>>}
Headers == {Suffix(0), Suffix(2), Suffix(7), From(1), FromTo(1, 3), FromTo(2, 9), FromTo(3, 1)}

File(data) == [kind |-> "file", data |-> data]
FieldOf(data) == [kind |-> "field", data |-> data]

TwoForms == {<<FieldOf(<<"v", "w">>), File(<<"d", "CR", "LF">>)>>,
             <<File(<<"CR", "LF", "d", "CR">>), File(<< >>)>>}

Dir(file) == (fname :> file)
Both(file, below) == fname :> file @@ subdir :> Dir(below)

Lists == INSTANCE SyncObjects WITH
    Blocks <- {b1, b2}, Files <- {f1, f2}, BlocksOf <- f1 :> {b1} @@ f2 :> {b1, b2},
    Roots <- {Both(f1, f1), Both(f1, f2), Empty}, FirstHead <- Both(f1, f1),
    Clients <- {c1, c2}, DirOnly <- {c2}, Tokens <- {t1}, Nothing <- None,
    MaxPushes <- 2, MaxTroubles <- 1, client <- clients

ASSUME Bounds == UploadsAssumption /\ DownloadsAssumption

listVars == <<latest, present, table, tasks, clients, pushes, troubles, unloadable>>

TransfersInit ==
    /\ side \in {"down", "up", "lists"}
    /\ DownloadsInit /\ Init /\ Lists!Init
    /\ side # "down" => ~encrypted /\ dir = 2
    /\ side # "up" => form = None

TransfersNext ==
    /\ UNCHANGED side
    /\ \/ side = "down" /\ DownloadsNext /\ UNCHANGED <<vars, listVars>>
       \/ side = "up" /\ Next /\ UNCHANGED <<downVars, listVars>>
       \/ side = "lists" /\ Lists!Next /\ UNCHANGED <<downVars, vars>>

TransfersSpec == TransfersInit /\ [][TransfersNext]_<<side, downVars, vars, listVars>>

----------------------------------------------------------------------------
\* The objects of clients that have taken a list (calculate_send_object_list).
ClientWhole == side = "lists" => Lists!ClientWhole

\* The tokens of lists that are not done (compute_fs_obj_id).
ListsEnd == side = "lists" => Lists!ListsEnd
=============================================================================
