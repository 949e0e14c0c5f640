---------------------------- MODULE SyncObjects -----------------------------
(***************************************************************************)
(* Downloads of sync clients (server/http-server.c). A client that is to go   *)
(* from one commit to a later one asks for the list of the fs objects it       *)
(* lacks. A worker of a pool computes it, and the client polls for it with a   *)
(* token; older clients get it at once. Then the client fetches the objects,   *)
(* in packs of limited size, and the blocks of the files.                      *)
(*                                                                          *)
(* What the client itself does is outside this repository: here it takes its  *)
(* list, fetches everything on it that it does not have, and starts anew after *)
(* an error.                                                                *)
(***************************************************************************)
EXTENDS StoredTrees, Integers, FiniteSets

CONSTANTS
    Roots, FirstHead,   \* the roots the library may have, and its first one
    Clients, DirOnly,   \* clients, and those that fetch only directories
    Tokens, Nothing,
    MaxPushes, MaxTroubles  \* bounds: new heads; restarts, errors, deletions and restores

VARIABLES
    latest, present,    \* the root of the library, and whether it can be loaded
    table, tasks,       \* fs_obj_ids, and the tasks of the pool
    client,             \* clients: where they are and what they are doing
    pushes, troubles,   \* how often the bounded steps were taken
    unloadable          \* history: tokens whose library a worker could not load

vars == <<latest, present, table, tasks, client, pushes, troubles, unloadable>>

Resting(c) == [pc |-> "idle", at |-> c.at, have |-> c.have]

Init ==
    /\ latest = FirstHead /\ present = TRUE
    /\ table = [t \in Tokens |-> Nothing] /\ tasks = {}
    /\ client = [c \in Clients |-> [pc |-> "idle", at |-> Empty, have |-> {}]]
    /\ pushes = 0 /\ troubles = 0
    /\ unloadable = {}

----------------------------------------------------------------------------
\* The list

EntryAt(d, n) == IF d # Nothing /\ Inner(d) /\ n \in DOMAIN d THEN d[n] ELSE Nothing

\* What differs in two directories, by name; a directory is entered when it differs.
RECURSIVE Differing(_, _)
Differing(new, old) ==
    LET differ == {n \in DOMAIN new : new[n] # EntryAt(old, n) /\ new[n] # Empty}
    IN {new[n] : n \in differ} \cup
       UNION {Differing(new[n], EntryAt(old, n)) : n \in {m \in differ : Inner(new[m])}}

\* Mutant of SendList, against ClientWhole: the root is taken for one of the differing objects.
SendListBelow(new, old, dirs) ==
    LET all == IF new = Empty THEN {} ELSE Differing(new, old)
    IN IF dirs THEN all \ Files ELSE all

\* The diff does not visit the root itself.
SendList(new, old, dirs) ==
    LET all == IF new \in {Empty, old} THEN {} ELSE {new} \cup Differing(new, old)
    IN IF dirs THEN all \ Files ELSE all

----------------------------------------------------------------------------
\* The server

Push(r) ==
    /\ present /\ r # latest
    /\ pushes < MaxPushes /\ pushes' = pushes + 1
    /\ latest' = r
    /\ UNCHANGED <<present, table, tasks, client, troubles, unloadable>>

Trouble == troubles < MaxTroubles /\ troubles' = troubles + 1

\* The library is deleted or damaged, or restored.
Vanish ==
    /\ Trouble
    /\ present' = ~present
    /\ UNCHANGED <<latest, table, tasks, client, pushes, unloadable>>

Restart ==
    /\ Trouble
    /\ table' = [t \in Tokens |-> Nothing] /\ tasks' = {}
    /\ unloadable' = {}
    /\ UNCHANGED <<latest, present, client, pushes>>

\* A client that is polling has its token; no other has it.
Fresh(t) ==
    /\ table[t] = Nothing
    /\ \A task \in tasks : task.token # t
    /\ \A c \in Clients : client[c].pc \in {"poll", "retrieve"} => client[c].token # t

Start(c, t) ==
    /\ client[c].pc = "idle" /\ Fresh(t)
    /\ table' = [table EXCEPT ![t] = [done |-> FALSE, list |-> {}]]
    /\ tasks' = tasks \cup {[token |-> t, new |-> latest, old |-> client[c].at, dirs |-> c \in DirOnly]}
    /\ client' = [client EXCEPT ![c] = [pc |-> "poll", at |-> @.at, have |-> @.have,
                                        to |-> latest, token |-> t]]
    /\ UNCHANGED <<latest, present, pushes, troubles, unloadable>>

Listed(c, list) == [pc |-> "fetch", at |-> client[c].at, have |-> client[c].have,
                    to |-> IF client[c].pc = "idle" THEN latest ELSE client[c].to, list |-> list]

AskAtOnce(c) ==
    /\ client[c].pc = "idle" /\ present
    /\ client' = [client EXCEPT ![c] = Listed(c, SendList(latest, @.at, c \in DirOnly))]
    /\ UNCHANGED <<latest, present, table, tasks, pushes, troubles, unloadable>>

Compute(task) ==
    /\ table[task.token] # Nothing /\ present
    /\ table' = [table EXCEPT ![task.token] =
                     [done |-> TRUE, list |-> SendList(task.new, task.old, task.dirs)]]
    /\ tasks' = tasks \ {task}
    /\ UNCHANGED <<latest, present, client, pushes, troubles, unloadable>>

\* Mutant of Unlisted, against ListsEnd: the entry stays when a commit or a directory cannot be read.
UnlistedYet(t) == table

Unlisted(t) == [table EXCEPT ![t] = Nothing]

ComputeFails(task) ==
    /\ table[task.token] # Nothing /\ present
    /\ Trouble
    /\ table' = Unlisted(task.token)
    /\ tasks' = tasks \ {task}
    /\ UNCHANGED <<latest, present, client, pushes, unloadable>>

\* The entry stays as it is, and the client polls on.
ComputeWithoutLibrary(task) ==
    /\ table[task.token] # Nothing /\ ~present
    /\ tasks' = tasks \ {task}
    /\ unloadable' = unloadable \cup {task.token}
    /\ UNCHANGED <<latest, present, table, client, pushes, troubles>>

\* The token is not known any more, or its list is there to be retrieved.
Query(c) ==
    /\ client[c].pc = "poll"
    /\ LET known == table[client[c].token]
       IN \/ known = Nothing /\ client' = [client EXCEPT ![c] = Resting(@)]
          \/ known # Nothing /\ known.done /\ client' = [client EXCEPT ![c].pc = "retrieve"]
    /\ UNCHANGED <<latest, present, table, tasks, pushes, troubles, unloadable>>

\* The list is forgotten with the reply, which may be lost.
Retrieve(c) ==
    /\ client[c].pc = "retrieve"
    /\ LET t == client[c].token
       IN /\ \/ table[t] = Nothing /\ client' = [client EXCEPT ![c] = Resting(@)] /\ UNCHANGED troubles
             \/ table[t] # Nothing /\ client' = [client EXCEPT ![c] = Listed(c, table[t].list)] /\ UNCHANGED troubles
             \/ table[t] # Nothing /\ Trouble /\ UNCHANGED client
          /\ table' = Unlisted(t)
    /\ UNCHANGED <<latest, present, tasks, pushes, unloadable>>

\* A client asks no more.
GiveUp(c) ==
    /\ client[c].pc # "idle"
    /\ Trouble
    /\ client' = [client EXCEPT ![c] = Resting(@)]
    /\ UNCHANGED <<latest, present, table, tasks, pushes, unloadable>>

\* A pack holds the first objects that were asked for, as many as fit in.
PackFs(c) ==
    /\ client[c].pc = "fetch"
    /\ \E pack \in SUBSET (client[c].list \ client[c].have) :
           /\ pack # {}
           /\ client' = [client EXCEPT ![c].have = @ \cup pack]
    /\ UNCHANGED <<latest, present, table, tasks, pushes, troubles, unloadable>>

BlocksToFetch(c) ==
    UNION {BlocksOf[f] : f \in client[c].list \cap Files} \ client[c].have

GetBlock(c) ==
    /\ client[c].pc = "fetch" /\ client[c].list \subseteq client[c].have
    /\ \E b \in BlocksToFetch(c) : client' = [client EXCEPT ![c].have = @ \cup {b}]
    /\ UNCHANGED <<latest, present, table, tasks, pushes, troubles, unloadable>>

Finish(c) ==
    /\ client[c].pc = "fetch"
    /\ client[c].list \subseteq client[c].have /\ BlocksToFetch(c) = {}
    /\ client' = [client EXCEPT ![c] = [pc |-> "idle", at |-> @.to, have |-> @.have]]
    /\ UNCHANGED <<latest, present, table, tasks, pushes, troubles, unloadable>>

Next ==
    \/ \E r \in Roots : Push(r)
    \/ Vanish \/ Restart
    \/ \E c \in Clients :
           \/ \E t \in Tokens : Start(c, t)
           \/ AskAtOnce(c) \/ Query(c) \/ Retrieve(c) \/ GiveUp(c) \/ PackFs(c) \/ GetBlock(c) \/ Finish(c)
    \/ \E task \in tasks : Compute(task) \/ ComputeFails(task) \/ ComputeWithoutLibrary(task)

Spec == Init /\ [][Next]_vars

----------------------------------------------------------------------------
\* A client that took what a list names has every object of the commit it then is at, whatever
\* heads, errors and lost replies came between (calculate_send_object_list, collect_dir_ids).
ClientWhole ==
    \A c \in Clients :
        IF c \in DirOnly THEN {o \in Objects(client[c].at) : o \notin Blocks \cup Files} \subseteq client[c].have
        ELSE Objects(client[c].at) \subseteq client[c].have

\* A token that is in the table has a list, or a worker will still see to it; else its client
\* polls for ever, as it does when the library cannot be loaded (compute_fs_obj_id).
ListsEnd ==
    \A t \in Tokens \ unloadable :
        table[t] = Nothing \/ table[t].done \/ \E task \in tasks : task.token = t
=============================================================================
