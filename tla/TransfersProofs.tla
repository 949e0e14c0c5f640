--------------------------- MODULE TransfersProofs ---------------------------
(***************************************************************************)
(* Proofs about Uploads, for any number of chunks, of threads and of names    *)
(* of temporary files: what is posted from a large file is whole. Then about  *)
(* Downloads, for any blocks, Range headers, directories and connections: a   *)
(* complete reply has the bytes that were asked for.                           *)
(***************************************************************************)
EXTENDS Uploads, Downloads, SequenceTheorems, WellFoundedInduction, TLAPS

Chunks == 0..LastChunk

Request ==
    [pc : {"open", "copy", "post", "finish"}, c : Chunks, temp : Temps \cup {None}, waited : BOOLEAN]

Clients == [pc : {"none", "ask", "send", "wait", "done"}, at : Nat, tries : Nat]

UploadTypes ==
    /\ row \in Seq(Temps)
    /\ temp \in [Temps -> {None} \cup SUBSET Chunks]
    /\ chunk \in [Requests -> Request \cup {NoReq}]
    /\ \A r \in Requests : chunk[r].pc \in {"copy", "post", "finish"} => chunk[r].temp \in Temps
    /\ client \in Clients
    /\ saved \in Seq([chunks : SUBSET Chunks, split : BOOLEAN])
    /\ split \in BOOLEAN

\* A temporary file that is still there has the first n chunks.
HasBefore(t, n) == temp[t] # None => 0..(n - 1) \subseteq temp[t]

NoHoles == \A t \in Temps : temp[t] # None => \A c \in temp[t] : 0..c \subseteq temp[t]

Busy(r) == chunk[r].pc # "idle"
Waits(r) == Busy(r) /\ chunk[r].waited

\* What is before the chunk of a request, given up or not, is in its temporary file; the
\* client's own request knows the only row.
RequestOK(r) ==
    LET q == chunk[r] IN
    /\ q.temp # None => HasBefore(q.temp, q.c)
    /\ q.pc = "post" => q.c = LastChunk /\ (temp[q.temp] # None => LastChunk \in temp[q.temp])
    /\ q.waited =>
         /\ client.pc = "wait" /\ q.pc # "finish"
         /\ IF q.temp = None THEN row = << >> /\ q.c = 0 ELSE row = <<q.temp>>

\* A client that is about to send a chunk has sent those before it.
ClientOK ==
    client.pc = "send" => IF row = << >> THEN client.at = 0 ELSE HasBefore(Head(row), client.at)

\* There is one temporary file, as long as no request that was given up has changed the rows.
OneFile ==
    /\ Len(row) <= 1
    /\ NoHoles
    /\ \A r \in Requests : Busy(r) => RequestOK(r)
    /\ \A r, o \in Requests : Waits(r) /\ Waits(o) => r = o
    /\ ClientOK

UploadInv == UploadTypes /\ UploadsWhole /\ (split \/ OneFile)

-----------------------------------------------------------------------------
(* Chunks and temporary files                                              *)

\* A set of chunks that is not empty has a last one.
LEMMA LastOne ==
  ASSUME UploadsAssumption, NEW S \in SUBSET Chunks, S # {}
  PROVE  \E c \in S : \A d \in S : d <= c
<1> DEFINE Bounds == {n \in Nat : \A d \in S : d <= n}
<1>1. LastChunk \in Nat
  BY DEF LastChunk, UploadsAssumption
<1>2. LastChunk \in Bounds
  BY <1>1 DEF Chunks
<1>3. PICK x \in Bounds : \A y \in Bounds : ~(<<y, x>> \in OpToRel(<, Nat))
  <2>1. Bounds \subseteq Nat /\ Bounds # {}
    BY <1>2
  <2> QED
    BY <2>1, WFMin, NatLessThanWellFounded
<1>4. \A y \in Bounds : ~(y < x)
  BY <1>3 DEF OpToRel
<1>5. x \in S
  <2> SUFFICES ASSUME x \notin S PROVE FALSE
    OBVIOUS
  <2>1. PICK d \in S : TRUE
    OBVIOUS
  <2>2. \A e \in S : e \in Nat /\ e <= x /\ e # x
    BY <1>1 DEF Chunks
  <2>3. x \in Nat /\ x - 1 \in Nat
    BY <2>1, <2>2
  <2>4. \A e \in S : e <= x - 1
    BY <2>2, <2>3
  <2> QED
    BY <1>4, <2>3, <2>4
<1> QED
  BY <1>5

\* The size of a temporary file without holes tells which chunks it has.
LEMMA SizeTells ==
  ASSUME UploadsAssumption, NEW S \in SUBSET Chunks
  PROVE  Size(S) \in Nat /\ ((\A c \in S : 0..c \subseteq S) => 0..(Size(S) - 1) \subseteq S)
<1>1. CASE S = {}
  BY <1>1 DEF Size
<1>2. CASE S # {}
  <2> DEFINE m == CHOOSE c \in S : \A d \in S : d <= c
  <2>1. m \in S
    BY <1>2, LastOne
  <2>2. LastChunk \in Nat
    BY DEF LastChunk, UploadsAssumption
  <2>3. Size(S) = 1 + m
    BY <1>2 DEF Size
  <2> HIDE DEF m
  <2>4. m \in Nat
    BY <2>1, <2>2 DEF Chunks
  <2> QED
    BY <2>1, <2>3, <2>4
<1> QED
  BY <1>1, <1>2

-----------------------------------------------------------------------------
(* Steps                                                                   *)

\* Numbers and values that the steps compute with
LEMMA Numbers ==
  ASSUME UploadsAssumption
  PROVE  LastChunk \in Nat /\ None \notin Temps /\ \A S \in SUBSET Chunks : S # None
  BY DEF UploadsAssumption, LastChunk, Chunks

\* A request on its way is a record of the right form.
LEMMA BusyType ==
  ASSUME UploadTypes, NEW r \in Requests, Busy(r) PROVE chunk[r] \in Request
  BY DEF UploadTypes, Busy, NoReq

\* A temporary file that grows, or goes
Grows(t) == temp'[t] = None \/ (temp[t] # None /\ temp[t] \subseteq temp'[t])

\* A sequence of one row is its head.
LEMMA OneRow ==
  ASSUME NEW S, NEW s \in Seq(S), Len(s) <= 1, s # << >>
  PROVE  Head(s) \in S /\ s = <<Head(s)>>
<1>1. Len(s) = 1 /\ s[1] \in S
  <2>1. Len(s) \in Nat \ {0}
    BY EmptySeq
  <2>2. ASSUME NEW n \in Nat \ {0}, n <= 1 PROVE n = 1 /\ 1 \in 1..n
    BY <2>2
  <2>3. Len(s) = 1 /\ 1 \in 1..Len(s)
    BY <2>1, <2>2
  <2> QED
    BY <2>3, ElementOfSeq
<1>2. Head(s) = s[1] /\ <<s[1]>> \in Seq(S) /\ Len(<<s[1]>>) = 1 /\ <<s[1]>>[1] = s[1]
  BY <1>1
<1> QED
  BY <1>1, <1>2, SeqEqual

\* One request moves, at most: the client's, or one that leaves the rows and the client alone.
LEMMA OneMoves ==
  ASSUME UploadsAssumption, UploadTypes, OneFile, NEW r \in Requests,
         \A o \in Requests \ {r} : chunk'[o] = chunk[o],
         \A o \in Requests \ {r} : Busy(o) /\ chunk[o].temp # None => Grows(chunk[o].temp),
         Waits(r)' => Waits(r) \/ \A o \in Requests : ~Waits(o),
         \/ Waits(r)
         \/ client.pc # "wait"
         \/ row' = row /\ client' = client,
         Len(row') <= 1, NoHoles', Busy(r)' => RequestOK(r)', ClientOK'
  PROVE  OneFile'
<1>1. ASSUME NEW o \in Requests, o # r, Busy(o)' PROVE RequestOK(o)'
  <2>1. Busy(o) /\ chunk'[o] = chunk[o] /\ RequestOK(o)
    BY <1>1 DEF Busy, OneFile
  <2>2. chunk[o].temp # None => (HasBefore(chunk[o].temp, chunk[o].c))'
    BY <1>1, <2>1 DEF RequestOK, HasBefore, Grows
  <2>3. chunk[o].pc = "post" =>
          chunk[o].c = LastChunk /\ (temp'[chunk[o].temp] # None => LastChunk \in temp'[chunk[o].temp])
    <3>1. chunk[o].pc = "post" => chunk[o].temp # None
      BY <2>1, BusyType DEF UploadTypes, UploadsAssumption
    <3> QED
      BY <1>1, <2>1, <3>1 DEF RequestOK, Grows
  <2>4. chunk[o].waited => /\ client'.pc = "wait" /\ chunk[o].pc # "finish"
                           /\ IF chunk[o].temp = None THEN row' = << >> /\ chunk[o].c = 0
                              ELSE row' = <<chunk[o].temp>>
    <3>1. chunk[o].waited => Waits(o) /\ ~Waits(r) /\ client.pc = "wait"
      BY <1>1, <2>1 DEF Waits, OneFile, RequestOK
    <3> QED
      BY <2>1, <3>1 DEF RequestOK
  <2> QED
    BY <2>1, <2>2, <2>3, <2>4 DEF RequestOK
<1>2. ASSUME NEW a \in Requests, NEW b \in Requests, Waits(a)', Waits(b)' PROVE a = b
  <2>1. \A o \in Requests \ {r} : Waits(o)' => Waits(o)
    BY DEF Waits, Busy
  <2> QED
    BY <1>2, <2>1 DEF OneFile
<1> QED
  BY <1>1, <1>2 DEF OneFile

\* Nobody waits any more; the rows may go.
LEMMA NobodyWaits ==
  ASSUME UploadTypes, OneFile, Len(row') <= 1,
         \A r \in Requests : Busy(r)' =>
             Busy(r) /\ chunk'[r] = [chunk[r] EXCEPT !.waited = FALSE],
         \A t \in Temps : Grows(t) \/ temp'[t] = temp[t],
         NoHoles', ClientOK'
  PROVE  OneFile'
<1>1. ASSUME NEW r \in Requests, Busy(r)' PROVE RequestOK(r)' /\ ~Waits(r)'
  <2>1. Busy(r) /\ RequestOK(r) /\ chunk[r] \in Request
    BY <1>1, BusyType DEF OneFile
  <2>2. /\ chunk'[r].pc = chunk[r].pc /\ chunk'[r].c = chunk[r].c
        /\ chunk'[r].temp = chunk[r].temp /\ ~chunk'[r].waited
    BY <1>1, <2>1 DEF Request
  <2>3. chunk[r].temp \in Temps \cup {None} /\ (chunk[r].pc = "post" => chunk[r].temp \in Temps)
    BY <2>1 DEF Request, UploadTypes
  <2> QED
    BY <2>1, <2>2, <2>3 DEF RequestOK, HasBefore, Grows, Waits
<1>2. \A r \in Requests : Waits(r)' => Busy(r)'
  BY DEF Waits
<1> QED
  BY <1>1, <1>2 DEF OneFile

\* The client asks for what the server has.
LEMMA AskKeeps == ASSUME UploadsAssumption, UploadInv, AskOffset PROVE UploadInv'
<1> DEFINE found == row # << >> /\ temp[Head(row)] # None
<1>1. /\ UNCHANGED <<temp, chunk, saved, split>> /\ client.pc = "ask"
      /\ client' = [client EXCEPT !.pc = "send", !.at = IF found THEN Size(temp[Head(row)]) ELSE 0]
      /\ row' = IF found THEN row ELSE << >>
  BY DEF AskOffset
<1>2. row # << >> => Head(row) \in Temps
  BY DEF UploadInv, UploadTypes
<1>3. UploadTypes'
  <2>1. found => Size(temp[Head(row)]) \in Nat
    BY <1>2, SizeTells DEF UploadInv, UploadTypes
  <2>2. row' \in Seq(Temps)
    BY <1>1 DEF UploadInv, UploadTypes
  <2>3. client' \in Clients
    BY <1>1, <2>1 DEF UploadInv, UploadTypes, Clients
  <2> QED
    BY <1>1, <2>2, <2>3 DEF UploadInv, UploadTypes, Clients
<1>4. UploadsWhole'
  BY <1>1 DEF UploadInv, UploadsWhole
<1>5. ASSUME OneFile PROVE OneFile'
  <2>1. \A r \in Requests : ~Waits(r)
    BY <1>1, <1>5 DEF OneFile, Waits, RequestOK
  <2>2. ASSUME NEW r \in Requests, Busy(r)' PROVE RequestOK(r)'
    <3>1. RequestOK(r) /\ Busy(r) /\ ~chunk[r].waited
      BY <1>1, <1>5, <2>1, <2>2 DEF OneFile, Busy, Waits
    <3> QED
      BY <1>1, <3>1 DEF RequestOK, HasBefore
  <2>3. ClientOK'
    <3>1. client'.at = IF found THEN Size(temp[Head(row)]) ELSE 0
      BY <1>1 DEF UploadInv, UploadTypes
    <3>2. found => HasBefore(Head(row), Size(temp[Head(row)]))
      BY <1>2, <1>5, SizeTells DEF UploadInv, UploadTypes, OneFile, NoHoles, HasBefore
    <3> QED
      BY <1>1, <3>1, <3>2 DEF ClientOK, HasBefore
  <2>4. Len(row') <= 1 /\ NoHoles'
    BY <1>1, <1>5 DEF OneFile, NoHoles
  <2> QED
    BY <1>1, <2>1, <2>2, <2>3, <2>4 DEF OneFile, Waits, Busy
<1> QED
  BY <1>1, <1>3, <1>4, <1>5 DEF UploadInv

\* The client sends the next chunk, or the last one once more.
LEMMA SendKeeps ==
  ASSUME UploadsAssumption, UploadInv, NEW r \in Requests, SendChunk(r) PROVE UploadInv'
<1> DEFINE n == IF client.at > LastChunk THEN LastChunk ELSE client.at
           q == [pc |-> "open", c |-> n, temp |-> IF row = << >> THEN None ELSE Head(row),
                 waited |-> TRUE]
<1>1. /\ UNCHANGED <<row, temp, saved, split>> /\ client.pc = "send" /\ chunk[r].pc = "idle"
      /\ chunk' = [chunk EXCEPT ![r] = q] /\ client' = [client EXCEPT !.pc = "wait"]
  BY DEF SendChunk
<1>2. n \in Chunks /\ n <= client.at /\ client.at \in Nat
  BY Numbers DEF UploadInv, UploadTypes, Chunks, Clients
<1>3. /\ q.pc = "open" /\ q.c = n /\ q.waited
      /\ q.temp = (IF row = << >> THEN None ELSE Head(row))
  OBVIOUS
<1>4. q \in Request
  BY <1>2 DEF Request, UploadInv, UploadTypes
<1> HIDE DEF n, q
<1>5. UploadTypes'
  BY <1>1, <1>3, <1>4 DEF UploadInv, UploadTypes, Clients
<1>6. UploadsWhole'
  BY <1>1 DEF UploadInv, UploadsWhole
<1>7. ASSUME OneFile PROVE OneFile'
  <2>1. \A o \in Requests : ~Waits(o)
    BY <1>1, <1>7 DEF OneFile, Waits, RequestOK
  <2>2. chunk'[r] = q /\ \A o \in Requests \ {r} : chunk'[o] = chunk[o]
    BY <1>1 DEF UploadInv, UploadTypes
  <2>3. RequestOK(r)'
    <3>1. client'.pc = "wait"
      BY <1>1 DEF UploadInv, UploadTypes
    <3>2. row = << >> => n = 0
      BY <1>1, <1>2, <1>7 DEF OneFile, ClientOK, Chunks
    <3>3. row # << >> => Head(row) \in Temps /\ Head(row) # None /\ row = <<Head(row)>>
      BY <1>7, Numbers, OneRow DEF OneFile, UploadInv, UploadTypes
    <3>4. row # << >> => HasBefore(Head(row), n)
      <4>1. row # << >> => HasBefore(Head(row), client.at)
        BY <1>1, <1>7 DEF OneFile, ClientOK
      <4>2. 0..(n - 1) \subseteq 0..(client.at - 1)
        BY <1>2 DEF Chunks
      <4> QED
        BY <4>1, <4>2 DEF HasBefore
    <3> QED
      BY <1>1, <1>3, <2>2, <3>1, <3>2, <3>3, <3>4 DEF RequestOK, HasBefore
  <2>4. \A o \in Requests \ {r} : Busy(o) /\ chunk[o].temp # None => Grows(chunk[o].temp)
    BY <1>1 DEF Grows
  <2>5. Len(row') <= 1 /\ NoHoles' /\ ClientOK'
    BY <1>1, <1>7 DEF OneFile, NoHoles, ClientOK, UploadInv, UploadTypes
  <2> QED
    BY <1>1, <1>7, <2>1, <2>2, <2>3, <2>4, <2>5, OneMoves DEF UploadInv
<1> QED
  BY <1>1, <1>5, <1>6, <1>7 DEF UploadInv

\* What an answer does to the request and to the client
LEMMA AnswerDoes ==
  ASSUME UploadTypes, NEW r \in Requests, Busy(r), NEW ok \in BOOLEAN, NEW pc \in {"idle", "finish"},
         Answer(r, ok, pc)
  PROVE  /\ \A o \in Requests \ {r} : chunk'[o] = chunk[o]
         /\ chunk' \in [Requests -> Request \cup {NoReq}]
         /\ pc = "idle" => ~Busy(r)'
         /\ pc = "finish" => chunk'[r] = [chunk[r] EXCEPT !.pc = "finish", !.waited = FALSE]
         /\ ~Waits(r)'
         /\ ~Waits(r) => client' = client
         /\ Waits(r) /\ ~ok => client' = [client EXCEPT !.pc = "ask"]
         /\ Waits(r) /\ ok /\ chunk[r].c = LastChunk => client' = [client EXCEPT !.pc = "done"]
         /\ Waits(r) /\ ok /\ chunk[r].c # LastChunk =>
               client' = [client EXCEPT !.pc = "send", !.at = chunk[r].c + 1]
         /\ client'.pc = "send" => client' = client \/ (Waits(r) /\ ok /\ chunk[r].c # LastChunk)
<1> DEFINE q == IF pc = "idle" THEN NoReq ELSE [chunk[r] EXCEPT !.pc = pc, !.waited = FALSE]
<1>1. /\ chunk' = [chunk EXCEPT ![r] = q]
      /\ client' = IF ~chunk[r].waited THEN client
                   ELSE IF ~ok THEN [client EXCEPT !.pc = "ask"]
                   ELSE IF chunk[r].c = LastChunk THEN [client EXCEPT !.pc = "done"]
                   ELSE [client EXCEPT !.pc = "send", !.at = chunk[r].c + 1]
  BY DEF Answer, UploadTypes
<1>2. chunk[r] \in Request
  BY BusyType
<1>3. /\ q \in Request \cup {NoReq} /\ (pc = "idle" => q.pc = "idle")
      /\ pc = "finish" => q = [chunk[r] EXCEPT !.pc = "finish", !.waited = FALSE] /\ ~q.waited
  BY <1>2 DEF Request, NoReq
<1> HIDE DEF q
<1>4. chunk'[r] = q /\ chunk' \in [Requests -> Request \cup {NoReq}]
      /\ \A o \in Requests \ {r} : chunk'[o] = chunk[o]
  BY <1>1, <1>3 DEF UploadTypes
<1>5. (Waits(r) <=> chunk[r].waited)
  BY DEF Waits
<1>6. ~Waits(r)'
  BY <1>3, <1>4 DEF Waits, Busy
<1>7. pc = "idle" => ~Busy(r)'
  BY <1>3, <1>4 DEF Busy
<1>8. client'.pc = "send" => client' = client \/ (Waits(r) /\ ok /\ chunk[r].c # LastChunk)
  BY <1>1, <1>5 DEF UploadTypes
<1>9. /\ ~Waits(r) => client' = client
      /\ Waits(r) /\ ~ok => client' = [client EXCEPT !.pc = "ask"]
      /\ Waits(r) /\ ok /\ chunk[r].c = LastChunk => client' = [client EXCEPT !.pc = "done"]
      /\ Waits(r) /\ ok /\ chunk[r].c # LastChunk =>
            client' = [client EXCEPT !.pc = "send", !.at = chunk[r].c + 1]
  BY <1>1, <1>5
<1> QED
  BY <1>3, <1>4, <1>6, <1>7, <1>8, <1>9

\* A request that leaves the temporary files alone, and keeps the chunk it has
LEMMA FilesStay ==
  ASSUME UploadsAssumption, UploadTypes, OneFile, NEW r \in Requests, Busy(r), temp' = temp,
         \A o \in Requests \ {r} : chunk'[o] = chunk[o],
         Waits(r)' => Waits(r),
         Waits(r) \/ (row' = row /\ client' = client),
         Len(row') <= 1, Busy(r)' => RequestOK(r)', ClientOK'
  PROVE  OneFile'
<1>1. \A o \in Requests \ {r} : Busy(o) /\ chunk[o].temp # None => Grows(chunk[o].temp)
  BY DEF Grows, UploadTypes
<1>2. NoHoles'
  BY DEF OneFile, NoHoles
<1> QED
  BY <1>1, <1>2, OneMoves

\* The temporary file is opened, or found to be gone.
LEMMA OpenKeeps ==
  ASSUME UploadsAssumption, UploadInv, NEW r \in Requests, OpenTemp(r) PROVE UploadInv'
<1>1. /\ chunk[r].pc = "open" /\ chunk[r].temp # None /\ UNCHANGED <<temp, saved>>
      /\ Busy(r)
  BY DEF OpenTemp, Busy
<1>2. chunk[r] \in Request /\ chunk[r].temp \in Temps
  BY <1>1, BusyType DEF UploadInv, Request
<1>3. CASE temp[chunk[r].temp] # None
  <2>1. /\ chunk' = [chunk EXCEPT ![r] = [chunk[r] EXCEPT !.pc = "copy"]]
        /\ UNCHANGED <<client, row, split>>
    BY <1>3 DEF OpenTemp, UploadInv, UploadTypes
  <2>2. chunk'[r] = [chunk[r] EXCEPT !.pc = "copy"] /\ \A o \in Requests \ {r} : chunk'[o] = chunk[o]
    BY <2>1 DEF UploadInv, UploadTypes
  <2>3. /\ chunk'[r].pc = "copy" /\ chunk'[r].c = chunk[r].c /\ chunk'[r].temp = chunk[r].temp
        /\ chunk'[r].waited = chunk[r].waited /\ chunk'[r] \in Request
    BY <1>2, <2>2 DEF Request
  <2>4. UploadTypes'
    <3>1. chunk' \in [Requests -> Request \cup {NoReq}]
      BY <2>1, <2>2, <2>3 DEF UploadInv, UploadTypes
    <3> QED
      BY <1>1, <1>2, <2>1, <2>2, <2>3, <3>1 DEF UploadInv, UploadTypes
  <2>5. UploadsWhole'
    BY <1>1 DEF UploadInv, UploadsWhole
  <2>6. ASSUME OneFile PROVE OneFile'
    <3>1. RequestOK(r)'
      BY <1>1, <2>1, <2>3, <2>6 DEF OneFile, RequestOK, HasBefore
    <3>2. ClientOK' /\ Len(row') <= 1 /\ (Waits(r)' => Waits(r))
      BY <1>1, <2>1, <2>3, <2>6 DEF OneFile, ClientOK, HasBefore, Waits
    <3> QED
      BY <1>1, <2>1, <2>2, <2>6, <3>1, <3>2, FilesStay DEF UploadInv
  <2> QED
    BY <2>1, <2>4, <2>5, <2>6 DEF UploadInv
<1>4. CASE temp[chunk[r].temp] = None
  <2>1. Answer(r, FALSE, "idle") /\ row' = << >> /\ split' = (split \/ (~chunk[r].waited /\ << >> # row))
    BY <1>4 DEF OpenTemp, SetRows
  <2>2. /\ \A o \in Requests \ {r} : chunk'[o] = chunk[o]
        /\ chunk' \in [Requests -> Request \cup {NoReq}]
        /\ ~Busy(r)' /\ ~Waits(r)'
        /\ ~Waits(r) => client' = client
        /\ Waits(r) => client' = [client EXCEPT !.pc = "ask"]
    BY <1>1, <2>1, AnswerDoes DEF UploadInv
  <2>3. UploadTypes'
    <3>1. client' \in Clients
      BY <2>2 DEF UploadInv, UploadTypes, Clients
    <3>2. split' \in BOOLEAN /\ row' \in Seq(Temps)
      BY <2>1 DEF UploadInv, UploadTypes, Clients
    <3>3. \A o \in Requests : chunk'[o].pc \in {"copy", "post", "finish"} => chunk'[o].temp \in Temps
      BY <2>2 DEF UploadInv, UploadTypes, Busy
    <3> QED
      BY <1>1, <2>2, <3>1, <3>2, <3>3 DEF UploadInv, UploadTypes
  <2>4. UploadsWhole'
    BY <1>1 DEF UploadInv, UploadsWhole
  <2>5. ASSUME OneFile, ~split' PROVE OneFile'
    <3>1. Waits(r) \/ row' = row
      BY <1>1, <2>1, <2>5 DEF Waits
    <3>2. ClientOK'
      <4>1. CASE Waits(r)
        BY <2>2, <4>1 DEF ClientOK, UploadInv, UploadTypes, Clients
      <4>2. CASE ~Waits(r)
        <5>1. row' = row /\ client' = client
          BY <2>2, <3>1, <4>2
        <5> QED
          BY <1>1, <2>5, <5>1 DEF OneFile, ClientOK, HasBefore
      <4> QED
        BY <4>1, <4>2
    <3>3. Len(row') <= 1
      BY <2>1
    <3> QED
      BY <1>1, <2>1, <2>2, <2>5, <3>1, <3>2, <3>3, FilesStay DEF UploadInv
  <2>6. split' \/ ~split
    BY <2>1 DEF UploadInv, UploadTypes
  <2> QED
    BY <2>3, <2>4, <2>5, <2>6 DEF UploadInv
<1> QED
  BY <1>3, <1>4

\* What fails, and is not tried again, leaves the rest as it is.
LEMMA FailureKeeps ==
  ASSUME UploadsAssumption, UploadInv, NEW r \in Requests, Busy(r), NEW pc \in {"idle", "finish"},
         Answer(r, FALSE, pc), UNCHANGED <<row, temp, saved, split>>,
         pc = "finish" => chunk[r].temp \in Temps
  PROVE  UploadInv'
<1>1. /\ \A o \in Requests \ {r} : chunk'[o] = chunk[o]
      /\ chunk' \in [Requests -> Request \cup {NoReq}]
      /\ pc = "idle" => ~Busy(r)'
      /\ pc = "finish" => chunk'[r] = [chunk[r] EXCEPT !.pc = "finish", !.waited = FALSE]
      /\ ~Waits(r)'
      /\ ~Waits(r) => client' = client
      /\ Waits(r) => client' = [client EXCEPT !.pc = "ask"]
  BY AnswerDoes DEF UploadInv
<1>2. chunk[r] \in Request
  BY BusyType DEF UploadInv
<1>3. pc = "finish" => /\ chunk'[r].pc = "finish" /\ ~chunk'[r].waited
                       /\ chunk'[r].temp = chunk[r].temp /\ chunk'[r].c = chunk[r].c
  BY <1>1, <1>2 DEF Request
<1>4. UploadTypes'
  <2>1. client' \in Clients
    BY <1>1 DEF UploadInv, UploadTypes, Clients
  <2>2. \A o \in Requests : chunk'[o].pc \in {"copy", "post", "finish"} => chunk'[o].temp \in Temps
    BY <1>1, <1>3 DEF UploadInv, UploadTypes, Busy
  <2> QED
    BY <1>1, <2>1, <2>2 DEF UploadInv, UploadTypes, Clients
<1>5. UploadsWhole'
  BY DEF UploadInv, UploadsWhole
<1>6. ASSUME OneFile PROVE OneFile'
  <2>1. Busy(r)' => RequestOK(r)'
    BY <1>1, <1>3, <1>6 DEF OneFile, RequestOK, HasBefore
  <2>2. ClientOK'
    BY <1>1, <1>6 DEF OneFile, ClientOK, HasBefore, UploadInv, UploadTypes, Clients
  <2>3. Len(row') <= 1
    BY <1>6 DEF OneFile
  <2> QED
    BY <1>1, <1>6, <2>1, <2>2, <2>3, FilesStay DEF UploadInv
<1> QED
  BY <1>4, <1>5, <1>6 DEF UploadInv

\* A new temporary file is made for the client's own request, or by one that was given up,
\* which adds a row.
LEMMA CreateKeeps ==
  ASSUME UploadsAssumption, UploadInv, NEW r \in Requests, CreateTemp(r) PROVE UploadInv'
<1>1. chunk[r].pc = "open" /\ chunk[r].temp = None /\ saved' = saved /\ Busy(r)
  BY DEF CreateTemp, Busy
<1>2. chunk[r] \in Request
  BY <1>1, BusyType DEF UploadInv
<1>3. CASE Answer(r, FALSE, "idle") /\ UNCHANGED <<row, temp, split>>
  BY <1>1, <1>3, FailureKeeps
<1>4. ASSUME NEW t \in NewTemps, temp' = [temp EXCEPT ![t] = {}], SetRows(r, Append(row, t)),
             chunk' = [chunk EXCEPT ![r].pc = "copy", ![r].temp = t], client' = client
      PROVE  UploadInv'
  <2>1. /\ t \in Temps /\ temp[t] = None /\ t # None
        /\ \A o \in Requests : Busy(o) => chunk[o].temp # t
    BY <1>4, Numbers DEF NewTemps, Busy
  <2>2. row' = Append(row, t) /\ split' = (split \/ (~chunk[r].waited /\ Append(row, t) # row))
    BY <1>4 DEF SetRows
  <2>3. /\ chunk'[r] = [chunk[r] EXCEPT !.pc = "copy", !.temp = t]
        /\ \A o \in Requests \ {r} : chunk'[o] = chunk[o]
        /\ chunk' = [chunk EXCEPT ![r] = [chunk[r] EXCEPT !.pc = "copy", !.temp = t]]
    BY <1>4 DEF UploadInv, UploadTypes
  <2>4. /\ chunk'[r].pc = "copy" /\ chunk'[r].c = chunk[r].c /\ chunk'[r].temp = t
        /\ chunk'[r].waited = chunk[r].waited /\ chunk'[r] \in Request
    <3>1. ASSUME NEW q \in Request
          PROVE  LET n == [q EXCEPT !.pc = "copy", !.temp = t]
                 IN n.pc = "copy" /\ n.c = q.c /\ n.temp = t /\ n.waited = q.waited /\ n \in Request
      BY <2>1 DEF Request
    <3> QED
      BY <1>2, <2>3, <3>1
  <2>5. UploadTypes'
    <3>1. chunk' \in [Requests -> Request \cup {NoReq}]
      BY <2>3, <2>4 DEF UploadInv, UploadTypes
    <3>2. \A o \in Requests : chunk'[o].pc \in {"copy", "post", "finish"} => chunk'[o].temp \in Temps
      BY <2>1, <2>3, <2>4 DEF UploadInv, UploadTypes
    <3>3. row' \in Seq(Temps) /\ temp' \in [Temps -> {None} \cup SUBSET Chunks] /\ split' \in BOOLEAN
      BY <1>4, <2>1, <2>2 DEF UploadInv, UploadTypes
    <3> QED
      BY <1>1, <1>4, <3>1, <3>2, <3>3 DEF UploadInv, UploadTypes
  <2>6. UploadsWhole'
    BY <1>1 DEF UploadInv, UploadsWhole
  <2>7. Append(row, t) # row
    <3>1. Len(Append(row, t)) = Len(row) + 1 /\ Len(row) \in Nat
      BY <2>1, AppendProperties, LenProperties DEF UploadInv, UploadTypes
    <3>2. \A n \in Nat : n + 1 # n
      OBVIOUS
    <3> QED
      BY <3>1, <3>2
  <2>8. ASSUME OneFile, ~split' PROVE OneFile'
    <3>1. Waits(r)
      BY <1>1, <2>2, <2>7, <2>8 DEF Waits
    <3>2. row = << >> /\ chunk[r].c = 0 /\ client.pc = "wait"
      BY <1>1, <2>8, <3>1 DEF OneFile, RequestOK, Waits
    <3>3. row' = <<t>> /\ Len(row') <= 1
      BY <2>2, <3>2
    <3>4. temp'[t] = {} /\ \A o \in Temps \ {t} : temp'[o] = temp[o]
      BY <1>4, <2>1 DEF UploadInv, UploadTypes
    <3>5. RequestOK(r)'
      <4>1. 0..(chunk[r].c - 1) = {}
        BY <3>2
      <4>2. HasBefore(t, chunk[r].c)'
        BY <1>4, <2>3, <2>4, <3>4, <4>1 DEF HasBefore
      <4>3. client'.pc = "wait" /\ t # None
        BY <1>4, <2>1, <3>2
      <4> QED
        BY <2>4, <3>3, <4>1, <4>2, <4>3 DEF RequestOK, HasBefore
    <3>6. \A o \in Requests \ {r} : Busy(o) /\ chunk[o].temp # None => Grows(chunk[o].temp)
      <4>1. ASSUME NEW o \in Requests, Busy(o), chunk[o].temp # None
            PROVE  chunk[o].temp \in Temps \ {t}
        BY <2>1, <4>1, BusyType DEF Request, UploadInv
      <4> QED
        BY <3>4, <4>1 DEF Grows
    <3>7. NoHoles'
      BY <2>8, <3>4 DEF OneFile, NoHoles
    <3>8. ClientOK'
      BY <1>4, <3>2 DEF ClientOK
    <3> QED
      BY <2>3, <2>8, <3>1, <3>3, <3>5, <3>6, <3>7, <3>8, OneMoves DEF UploadInv
  <2>9. split' \/ ~split
    BY <2>2 DEF UploadInv, UploadTypes
  <2> QED
    BY <2>5, <2>6, <2>8, <2>9 DEF UploadInv
<1> QED
  BY <1>3, <1>4 DEF CreateTemp

\* A chunk is written after those before it.
LEMMA WriteFits ==
  ASSUME UploadsAssumption, UploadTypes, NEW r \in Requests, chunk[r].pc = "copy",
         Write(r) \/ temp' = temp
  PROVE  /\ temp' \in [Temps -> {None} \cup SUBSET Chunks]
         /\ \A t \in Temps : Grows(t)
         /\ OneFile => NoHoles'
         /\ OneFile /\ Write(r) /\ temp'[chunk[r].temp] # None =>
               /\ 0..chunk[r].c \subseteq temp'[chunk[r].temp]
               /\ chunk[r].c \in temp'[chunk[r].temp]
<1> DEFINE t == chunk[r].temp
           c == chunk[r].c
<1>1. Busy(r) /\ t \in Temps /\ c \in Chunks /\ c \in Nat /\ chunk[r] \in Request
  BY BusyType, Numbers DEF Busy, UploadTypes, Request, Chunks
<1>2. OneFile => HasBefore(t, c)
  BY <1>1, Numbers DEF OneFile, RequestOK
<1>3. CASE ~Write(r)
  <2>1. temp' = temp
    BY <1>3
  <2> QED
    BY <1>3, <2>1 DEF UploadTypes, Grows, OneFile, NoHoles
<1>4. CASE Write(r)
  <2>1. /\ temp' = [temp EXCEPT ![t] = IF temp[t] = None THEN None ELSE temp[t] \cup {c}]
        /\ \A k \in Temps \ {t} : temp'[k] = temp[k]
        /\ temp'[t] = IF temp[t] = None THEN None ELSE temp[t] \cup {c}
    BY <1>1, <1>4 DEF Write, UploadTypes
  <2> HIDE DEF t, c
  <2>2. temp' \in [Temps -> {None} \cup SUBSET Chunks]
    BY <1>1, <2>1 DEF UploadTypes
  <2>3. \A k \in Temps : Grows(k)
    BY <1>1, <2>1 DEF Grows
  <2>4. OneFile /\ temp'[t] # None => 0..c \subseteq temp'[t] /\ c \in temp'[t]
    <3>1. 0..c = 0..(c - 1) \cup {c}
      BY <1>1
    <3> QED
      BY <1>2, <2>1, <3>1 DEF HasBefore
  <2>5. OneFile => NoHoles'
    <3>1. ASSUME OneFile, NEW k \in Temps, temp'[k] # None, NEW d \in temp'[k] PROVE 0..d \subseteq temp'[k]
      <4>1. CASE k = t /\ d = c
        BY <2>4, <3>1, <4>1
      <4>2. CASE ~(k = t /\ d = c)
        <5>1. temp[k] # None /\ d \in temp[k] /\ temp[k] \subseteq temp'[k]
          BY <2>1, <3>1, <4>2
        <5> QED
          BY <3>1, <5>1 DEF OneFile, NoHoles
      <4> QED
        BY <4>1, <4>2
    <3> QED
      BY <3>1 DEF NoHoles
  <2> QED
    BY <2>2, <2>3, <2>4, <2>5 DEF t, c
<1> QED
  BY <1>3, <1>4

\* A client that does nothing is as right as before when files grow.
LEMMA ClientStays ==
  ASSUME UploadTypes, ClientOK, client' = client, row' = row, \A t \in Temps : Grows(t)
  PROVE  ClientOK'
<1>1. row # << >> => Head(row) \in Temps
  BY DEF UploadTypes
<1> QED
  BY <1>1 DEF ClientOK, HasBefore, Grows

\* A chunk is copied to the end of what is there, or over what was there.
LEMMA CopyKeeps ==
  ASSUME UploadsAssumption, UploadInv, NEW r \in Requests, CopyChunk(r) PROVE UploadInv'
<1> DEFINE t == chunk[r].temp
           c == chunk[r].c
<1>1. chunk[r].pc = "copy" /\ UNCHANGED <<row, saved, split>> /\ Busy(r)
  BY DEF CopyChunk, Busy
<1>2. /\ chunk[r] \in Request /\ t \in Temps /\ c \in Chunks /\ c \in Nat /\ t # None
  BY <1>1, BusyType, Numbers DEF UploadInv, UploadTypes, Request, Chunks
<1>3. Write(r) \/ temp' = temp
  BY DEF CopyChunk
<1>4. /\ temp' \in [Temps -> {None} \cup SUBSET Chunks]
      /\ \A k \in Temps : Grows(k)
      /\ OneFile => NoHoles'
      /\ OneFile /\ Write(r) /\ temp'[t] # None => 0..c \subseteq temp'[t] /\ c \in temp'[t]
  BY <1>1, <1>3, WriteFits DEF UploadInv
<1>5. \A o \in Requests \ {r} : Busy(o) /\ chunk[o].temp # None => Grows(chunk[o].temp)
  BY <1>4, BusyType DEF Request, UploadInv
<1>6. UploadsWhole'
  BY <1>1 DEF UploadInv, UploadsWhole
<1>7. CASE Write(r) /\ c = LastChunk /\ chunk' = [chunk EXCEPT ![r].pc = "post"] /\ client' = client
  <2>1. /\ chunk'[r] = [chunk[r] EXCEPT !.pc = "post"]
        /\ \A o \in Requests \ {r} : chunk'[o] = chunk[o]
        /\ chunk' = [chunk EXCEPT ![r] = [chunk[r] EXCEPT !.pc = "post"]]
    BY <1>7 DEF UploadInv, UploadTypes
  <2>2. /\ chunk'[r].pc = "post" /\ chunk'[r].c = c /\ chunk'[r].temp = t
        /\ chunk'[r].waited = chunk[r].waited /\ chunk'[r] \in Request
    BY <1>2, <2>1 DEF Request
  <2>3. UploadTypes'
    <3>1. chunk' \in [Requests -> Request \cup {NoReq}]
      BY <2>1, <2>2 DEF UploadInv, UploadTypes
    <3> QED
      BY <1>1, <1>2, <1>4, <1>7, <2>1, <2>2, <3>1 DEF UploadInv, UploadTypes
  <2>4. ASSUME OneFile PROVE OneFile'
    <3>1. RequestOK(r)'
      <4>1. temp'[t] # None => 0..(c - 1) \subseteq temp'[t] /\ LastChunk \in temp'[t]
        <5>1. 0..(c - 1) \subseteq 0..c
          BY <1>2
        <5> QED
          BY <1>4, <1>7, <2>4, <5>1
      <4>2. RequestOK(r)
        BY <1>1, <2>4 DEF OneFile
      <4> QED
        BY <1>1, <1>2, <1>7, <2>2, <4>1, <4>2 DEF RequestOK, HasBefore
    <3>2. ClientOK'
      BY <1>1, <1>4, <1>7, <2>4, ClientStays DEF OneFile, UploadInv
    <3>3. (Waits(r)' => Waits(r)) /\ Len(row') <= 1
      BY <1>1, <2>2, <2>4 DEF Waits, OneFile
    <3> QED
      BY <1>1, <1>4, <1>5, <1>7, <2>1, <2>4, <3>1, <3>2, <3>3, OneMoves DEF UploadInv
  <2> QED
    BY <1>1, <1>6, <2>3, <2>4 DEF UploadInv
<1>8. ASSUME NEW ok \in BOOLEAN, Answer(r, ok, "idle"), ok => Write(r) /\ c # LastChunk
      PROVE  UploadInv'
  <2>1. /\ \A o \in Requests \ {r} : chunk'[o] = chunk[o]
        /\ chunk' \in [Requests -> Request \cup {NoReq}]
        /\ ~Busy(r)' /\ ~Waits(r)'
        /\ ~Waits(r) => client' = client
        /\ Waits(r) /\ ~ok => client' = [client EXCEPT !.pc = "ask"]
        /\ Waits(r) /\ ok => client' = [client EXCEPT !.pc = "send", !.at = c + 1]
    BY <1>1, <1>8, AnswerDoes DEF UploadInv
  <2>2. UploadTypes'
    <3>1. client' \in Clients
      <4>1. ASSUME NEW k \in Clients,
                   NEW n \in Nat
            PROVE  /\ [k EXCEPT !.pc = "ask"] \in Clients
                   /\ [k EXCEPT !.pc = "send", !.at = n] \in
                         Clients
        BY DEF Clients
      <4>2. c + 1 \in Nat /\ client \in Clients
        BY <1>2 DEF UploadInv, UploadTypes, Clients
      <4> HIDE DEF c
      <4> QED
        BY <2>1, <4>1, <4>2
    <3>2. \A o \in Requests : chunk'[o].pc \in {"copy", "post", "finish"} => chunk'[o].temp \in Temps
      BY <2>1 DEF UploadInv, UploadTypes, Busy
    <3> QED
      BY <1>1, <1>4, <2>1, <3>1, <3>2 DEF UploadInv, UploadTypes
  <2>3. ASSUME OneFile PROVE OneFile'
    <3>1. ClientOK'
      <4>1. CASE ~Waits(r)
        BY <1>1, <1>4, <2>1, <2>3, <4>1, ClientStays DEF OneFile, UploadInv
      <4>2. CASE Waits(r) /\ ~ok
        BY <2>1, <4>2 DEF ClientOK, UploadInv, UploadTypes, Clients
      <4>3. CASE Waits(r) /\ ok
        <5>1. row' = <<t>>
          BY <1>1, <1>2, <2>3, <4>3 DEF OneFile, RequestOK, Waits
        <5>2. client'.at = c + 1
          BY <2>1, <4>3 DEF UploadInv, UploadTypes, Clients
        <5>3. temp'[t] # None => 0..((c + 1) - 1) \subseteq temp'[t]
          <6>1. (c + 1) - 1 = c
            BY <1>2
          <6> QED
            BY <1>4, <1>8, <2>3, <4>3, <6>1
        <5>4. row' # << >> /\ Head(row') = t
          BY <5>1
        <5> QED
          BY <5>2, <5>3, <5>4 DEF ClientOK, HasBefore
      <4> QED
        BY <4>1, <4>2, <4>3
    <3>2. Len(row') <= 1
      BY <1>1, <2>3 DEF OneFile
    <3> QED
      BY <1>1, <1>4, <1>5, <2>1, <2>3, <3>1, <3>2, OneMoves DEF UploadInv
  <2> QED
    BY <1>1, <1>6, <2>2, <2>3 DEF UploadInv
<1> QED
  <2>1. \/ Write(r) /\ c = LastChunk /\ chunk' = [chunk EXCEPT ![r].pc = "post"] /\ client' = client
        \/ Write(r) /\ c # LastChunk /\ Answer(r, TRUE, "idle")
        \/ Answer(r, FALSE, "idle")
    BY DEF CopyChunk
  <2> QED
    BY <1>7, <1>8, <2>1

\* Who posts has the last chunk after all others, while there is one file.
LEMMA PostedIsWhole ==
  ASSUME UploadsAssumption, UploadTypes, OneFile, NEW r \in Requests, chunk[r].pc = "post",
         temp[chunk[r].temp] # None
  PROVE  temp[chunk[r].temp] = 0..LastChunk /\ chunk[r].c = LastChunk
<1>1. /\ chunk[r] \in Request /\ chunk[r].temp \in Temps /\ chunk[r].temp # None /\ RequestOK(r)
      /\ temp[chunk[r].temp] \in SUBSET Chunks
  BY BusyType, Numbers DEF Busy, OneFile, UploadTypes
<1>2. /\ chunk[r].c = LastChunk /\ LastChunk \in temp[chunk[r].temp]
      /\ 0..(LastChunk - 1) \subseteq temp[chunk[r].temp]
  BY <1>1 DEF RequestOK, HasBefore
<1>3. 0..LastChunk = 0..(LastChunk - 1) \cup {LastChunk}
  BY Numbers
<1> QED
  BY <1>1, <1>2, <1>3 DEF Chunks

\* The file is posted, and its rows go; or that fails.
LEMMA PostKeeps ==
  ASSUME UploadsAssumption, UploadInv, NEW r \in Requests, PostChunks(r) PROVE UploadInv'
<1> DEFINE t == chunk[r].temp
<1>1. chunk[r].pc = "post" /\ temp' = temp /\ Busy(r)
  BY DEF PostChunks, Busy
<1>2. chunk[r] \in Request /\ t \in Temps /\ t # None
  BY <1>1, BusyType, Numbers DEF UploadInv, UploadTypes, Request
<1>3. CASE Answer(r, FALSE, "finish") /\ UNCHANGED <<row, saved, split>>
  BY <1>1, <1>2, <1>3, FailureKeeps
<1>4. CASE /\ temp[t] # None /\ SetRows(r, << >>) /\ Answer(r, TRUE, "finish")
           /\ saved' = Append(saved, [chunks |-> temp[t], split |-> split'])
  <2>1. row' = << >> /\ split' = (split \/ (~chunk[r].waited /\ << >> # row))
    BY <1>4 DEF SetRows
  <2>2. /\ \A o \in Requests \ {r} : chunk'[o] = chunk[o]
        /\ chunk' \in [Requests -> Request \cup {NoReq}]
        /\ chunk'[r] = [chunk[r] EXCEPT !.pc = "finish", !.waited = FALSE]
        /\ ~Waits(r)'
        /\ ~Waits(r) => client' = client
        /\ Waits(r) /\ chunk[r].c = LastChunk => client' = [client EXCEPT !.pc = "done"]
        /\ Waits(r) /\ chunk[r].c # LastChunk =>
              client' = [client EXCEPT !.pc = "send", !.at = chunk[r].c + 1]
    BY <1>1, <1>4, AnswerDoes DEF UploadInv
  <2>3. /\ chunk'[r].pc = "finish" /\ ~chunk'[r].waited
        /\ chunk'[r].temp = t /\ chunk'[r].c = chunk[r].c
    BY <1>2, <2>2 DEF Request
  <2>4. UploadTypes'
    <3>1. client' \in Clients
      <4>1. chunk[r].c + 1 \in Nat
        BY <1>2, Numbers DEF Request, Chunks
      <4>2. ASSUME NEW k \in Clients, NEW n \in Nat
            PROVE  [k EXCEPT !.pc = "done"] \in Clients /\ [k EXCEPT !.pc = "send", !.at = n] \in Clients
        BY DEF Clients
      <4>3. client \in Clients
        BY DEF UploadInv, UploadTypes
      <4>4. \/ client' = client \/ client' = [client EXCEPT !.pc = "done"]
            \/ client' = [client EXCEPT !.pc = "send", !.at = chunk[r].c + 1]
        BY <2>2
      <4> QED
        BY <4>1, <4>2, <4>3, <4>4
    <3>2. \A o \in Requests : chunk'[o].pc \in {"copy", "post", "finish"} => chunk'[o].temp \in Temps
      BY <1>2, <2>2, <2>3 DEF UploadInv, UploadTypes
    <3>3. split' \in BOOLEAN /\ row' \in Seq(Temps)
      BY <2>1 DEF UploadInv, UploadTypes
    <3>4. saved' \in Seq([chunks : SUBSET Chunks, split : BOOLEAN])
      BY <1>2, <1>4, <3>3 DEF UploadInv, UploadTypes
    <3> QED
      BY <1>1, <2>2, <3>1, <3>2, <3>3, <3>4 DEF UploadInv, UploadTypes
  <2>5. ~split' => OneFile
    BY <2>1 DEF UploadInv
  <2>6. UploadsWhole'
    <3>1. split' \/ temp[t] = 0..LastChunk
      BY <1>1, <1>4, <2>5, PostedIsWhole DEF UploadInv
    <3>2. ASSUME NEW i \in 1..Len(saved')
          PROVE  saved'[i].chunks = 0..LastChunk \/ saved'[i].split
      <4>1. /\ Len(saved') = Len(saved) + 1 /\ Len(saved) \in Nat
            /\ i <= Len(saved) => saved'[i] = saved[i]
            /\ i = Len(saved) + 1 => saved'[i] = [chunks |-> temp[t], split |-> split']
        <5>1. saved \in Seq([chunks : SUBSET Chunks, split : BOOLEAN])
          BY DEF UploadInv, UploadTypes
        <5> QED
          BY <1>4, <5>1
      <4>2. CASE i = Len(saved) + 1
        BY <3>1, <4>1, <4>2
      <4>3. CASE i # Len(saved) + 1
        <5>1. i \in 1..Len(saved)
          BY <4>1, <4>3
        <5> QED
          BY <4>1, <5>1 DEF UploadInv, UploadsWhole
      <4> QED
        BY <4>2, <4>3
    <3> QED
      BY <3>2 DEF UploadsWhole
  <2>7. ASSUME OneFile, ~split' PROVE OneFile'
    <3>1. Waits(r) \/ row' = row
      BY <1>1, <2>1, <2>7 DEF Waits
    <3>2. chunk[r].c = LastChunk
      BY <1>1, <1>4, <2>7, PostedIsWhole DEF UploadInv
    <3>3. ClientOK'
      <4>1. CASE Waits(r)
        BY <2>2, <3>2, <4>1 DEF ClientOK, UploadInv, UploadTypes, Clients
      <4>2. CASE ~Waits(r)
        <5>1. row' = row /\ client' = client
          BY <2>2, <3>1, <4>2
        <5> QED
          BY <1>1, <2>7, <5>1 DEF OneFile, ClientOK, HasBefore
      <4> QED
        BY <4>1, <4>2
    <3>4. RequestOK(r)'
      BY <1>1, <2>3, <2>7 DEF OneFile, RequestOK, HasBefore
    <3>5. Len(row') <= 1
      BY <2>1
    <3> QED
      BY <1>1, <2>1, <2>2, <2>7, <3>1, <3>3, <3>4, <3>5, FilesStay DEF UploadInv
  <2> QED
    BY <2>4, <2>5, <2>6, <2>7 DEF UploadInv
<1> QED
  BY <1>3, <1>4 DEF PostChunks

\* The temporary file goes with the request that posted it.
LEMMA FinishKeeps ==
  ASSUME UploadsAssumption, UploadInv, NEW r \in Requests, FinishUpload(r) PROVE UploadInv'
<1>1. /\ chunk[r].pc = "finish" /\ UNCHANGED <<row, client, saved, split>> /\ Busy(r)
      /\ temp' = [temp EXCEPT ![chunk[r].temp] = None]
      /\ chunk' = [chunk EXCEPT ![r] = NoReq]
  BY DEF FinishUpload, Busy
<1>2. /\ \A t \in Temps : Grows(t) \/ temp'[t] = temp[t]
      /\ \A t \in Temps : temp'[t] # None => temp'[t] = temp[t]
      /\ temp' \in [Temps -> {None} \cup SUBSET Chunks]
  BY <1>1 DEF Grows, UploadInv, UploadTypes
<1>3. /\ ~Busy(r)' /\ \A o \in Requests \ {r} : chunk'[o] = chunk[o]
      /\ chunk' \in [Requests -> Request \cup {NoReq}]
  BY <1>1 DEF Busy, NoReq, UploadInv, UploadTypes
<1>4. UploadTypes' /\ UploadsWhole'
  BY <1>1, <1>2, <1>3 DEF UploadInv, UploadTypes, UploadsWhole, Busy
<1>5. ASSUME OneFile PROVE OneFile'
  <2>1. NoHoles'
    BY <1>2, <1>5 DEF OneFile, NoHoles
  <2>2. ClientOK'
    <3>1. row # << >> => Head(row) \in Temps
      BY DEF UploadInv, UploadTypes
    <3> QED
      BY <1>1, <1>2, <1>5, <3>1 DEF OneFile, ClientOK, HasBefore
  <2>3. \A o \in Requests \ {r} : Busy(o) /\ chunk[o].temp # None => Grows(chunk[o].temp)
    <3>1. ASSUME NEW o \in Requests, Busy(o), chunk[o].temp # None PROVE chunk[o].temp \in Temps
      BY <3>1, BusyType DEF UploadInv, Request
    <3>2. \A t \in Temps : Grows(t)
      BY <1>2 DEF Grows
    <3> QED
      BY <3>1, <3>2
  <2>4. Len(row') <= 1 /\ ~Waits(r)'
    BY <1>1, <1>3, <1>5 DEF OneFile, Waits
  <2> QED
    BY <1>1, <1>3, <1>5, <2>1, <2>2, <2>3, <2>4, OneMoves DEF UploadInv
<1> QED
  BY <1>1, <1>4, <1>5 DEF UploadInv

\* The timer removes a file that no request has, the client gives up or starts over, or
\* the server stops.
LEMMA OthersKeep ==
  ASSUME UploadsAssumption, UploadInv,
         (\E t \in Temps : CleanTemp(t)) \/ GiveUp \/ Crash \/ UploadAgain
  PROVE  UploadInv'
<1>1. ASSUME NEW t \in Temps, CleanTemp(t) PROVE UploadInv'
  <2>1. /\ UNCHANGED <<row, chunk, client, saved, split>> /\ temp' = [temp EXCEPT ![t] = None]
        /\ \A r \in Requests : Busy(r) => chunk[r].temp # t
    BY <1>1 DEF CleanTemp, Busy
  <2>2. /\ temp' \in [Temps -> {None} \cup SUBSET Chunks]
        /\ temp'[t] = None /\ \A k \in Temps \ {t} : temp'[k] = temp[k]
    BY <2>1 DEF UploadInv, UploadTypes
  <2>3. UploadTypes' /\ UploadsWhole'
    BY <2>1, <2>2 DEF UploadInv, UploadTypes, UploadsWhole
  <2>4. ASSUME OneFile PROVE OneFile'
    <3>1. ASSUME NEW r \in Requests, Busy(r)' PROVE RequestOK(r)'
      <4>1. Busy(r) /\ RequestOK(r) /\ chunk[r] \in Request /\ chunk'[r] = chunk[r]
        BY <2>1, <2>4, <3>1, BusyType DEF Busy, OneFile, UploadInv
      <4>2. chunk[r].temp # None => chunk[r].temp \in Temps /\ temp'[chunk[r].temp] = temp[chunk[r].temp]
        BY <2>1, <2>2, <4>1 DEF Request
      <4>3. chunk[r].pc = "post" => chunk[r].temp # None
        BY <4>1, Numbers DEF UploadInv, UploadTypes
      <4> QED
        BY <2>1, <4>1, <4>2, <4>3 DEF RequestOK, HasBefore
    <3>2. ClientOK'
      <4>1. row # << >> => Head(row) \in Temps
        BY DEF UploadInv, UploadTypes
      <4> QED
        BY <2>1, <2>2, <2>4, <4>1 DEF OneFile, ClientOK, HasBefore
    <3>3. NoHoles'
      BY <2>2, <2>4 DEF OneFile, NoHoles
    <3> QED
      BY <2>1, <2>4, <3>1, <3>2, <3>3 DEF OneFile, Waits, Busy
  <2> QED
    BY <2>1, <2>3, <2>4 DEF UploadInv
<1>2. CASE GiveUp
  <2>1. /\ UNCHANGED <<row, temp, saved, split>> /\ client' = [client EXCEPT !.pc = "ask"]
        /\ chunk' = [r \in Requests |-> IF chunk[r].pc = "idle" THEN NoReq
                                        ELSE [chunk[r] EXCEPT !.waited = FALSE]]
    BY <1>2 DEF GiveUp
  <2>2. \A r \in Requests : Busy(r)' =>
            Busy(r) /\ chunk'[r] = [chunk[r] EXCEPT !.waited = FALSE]
    BY <2>1 DEF Busy, NoReq
  <2>3. UploadTypes'
    <3>1. ASSUME NEW r \in Requests, Busy(r)
          PROVE  /\ [chunk[r] EXCEPT !.waited = FALSE] \in Request
                 /\ [chunk[r] EXCEPT !.waited = FALSE].pc = chunk[r].pc
                 /\ [chunk[r] EXCEPT !.waited = FALSE].temp = chunk[r].temp
      BY <3>1, BusyType DEF UploadInv, Request
    <3>2. chunk' \in [Requests -> Request \cup {NoReq}]
      BY <2>1, <3>1 DEF Busy
    <3>3. \A r \in Requests : chunk'[r].pc \in {"copy", "post", "finish"} => chunk'[r].temp \in Temps
      BY <2>2, <3>1 DEF UploadInv, UploadTypes, Busy
    <3>4. client' \in Clients
      BY <2>1 DEF UploadInv, UploadTypes, Clients
    <3> QED
      BY <2>1, <3>2, <3>3, <3>4 DEF UploadInv, UploadTypes
  <2>4. UploadsWhole'
    BY <2>1 DEF UploadInv, UploadsWhole
  <2>5. ASSUME OneFile PROVE OneFile'
    <3>1. ClientOK'
      BY <2>1 DEF ClientOK, UploadInv, UploadTypes, Clients
    <3>2. NoHoles' /\ Len(row') <= 1 /\ \A t \in Temps : temp'[t] = temp[t]
      BY <2>1, <2>5 DEF OneFile, NoHoles
    <3> QED
      BY <2>2, <2>5, <3>1, <3>2, NobodyWaits DEF UploadInv
  <2> QED
    BY <2>1, <2>3, <2>4, <2>5 DEF UploadInv
<1>3. CASE Crash
  <2>1. /\ UNCHANGED <<row, temp, saved, split>>
        /\ client' = IF client.pc = "wait" THEN [client EXCEPT !.pc = "ask"] ELSE client
        /\ chunk' = [r \in Requests |-> NoReq]
    BY <1>3 DEF Crash
  <2>2. \A r \in Requests : ~Busy(r)'
    BY <2>1 DEF Busy, NoReq
  <2>3. UploadTypes' /\ UploadsWhole'
    <3>1. client' \in Clients
      BY <2>1 DEF UploadInv, UploadTypes, Clients
    <3> QED
      BY <2>1, <3>1 DEF UploadInv, UploadTypes, UploadsWhole, NoReq
  <2>4. ASSUME OneFile PROVE OneFile'
    <3>1. client'.pc = "send" => client' = client
      BY <2>1 DEF UploadInv, UploadTypes, Clients
    <3>2. ClientOK'
      BY <2>1, <2>4, <3>1 DEF OneFile, ClientOK, HasBefore
    <3>3. NoHoles' /\ Len(row') <= 1 /\ \A t \in Temps : temp'[t] = temp[t]
      BY <2>1, <2>4 DEF OneFile, NoHoles
    <3> QED
      BY <2>2, <2>4, <3>2, <3>3, NobodyWaits DEF UploadInv
  <2> QED
    BY <2>1, <2>3, <2>4 DEF UploadInv
<1>4. CASE UploadAgain
  <2>1. /\ UNCHANGED <<row, temp, chunk, saved, split>> /\ client.pc = "done"
        /\ client' = [client EXCEPT !.pc = "ask", !.tries = client.tries + 1]
    BY <1>4 DEF UploadAgain
  <2>2. client' \in Clients /\ client'.pc = "ask"
    <3>1. client \in Clients /\ client.tries + 1 \in Nat
      BY DEF UploadInv, UploadTypes, Clients
    <3>2. ASSUME NEW n \in Nat, NEW k \in Clients
          PROVE  LET next == [k EXCEPT !.pc = "ask", !.tries = n]
                 IN next \in Clients /\ next.pc = "ask"
      BY DEF Clients
    <3> QED
      BY <2>1, <3>1, <3>2
  <2>3. UploadTypes' /\ UploadsWhole'
    BY <2>1, <2>2 DEF UploadInv, UploadTypes, UploadsWhole
  <2>4. ASSUME OneFile PROVE OneFile'
    <3>1. ASSUME NEW r \in Requests, Busy(r)' PROVE RequestOK(r)' /\ ~Waits(r)'
      <4>1. RequestOK(r) /\ Busy(r) /\ ~chunk[r].waited
        BY <2>1, <2>4, <3>1 DEF OneFile, Busy, RequestOK
      <4> QED
        BY <2>1, <4>1 DEF RequestOK, HasBefore, Waits
    <3>2. ClientOK' /\ NoHoles' /\ Len(row') <= 1
      BY <2>1, <2>2, <2>4 DEF OneFile, NoHoles, ClientOK
    <3> QED
      BY <3>1, <3>2 DEF OneFile, Waits
  <2> QED
    BY <2>1, <2>3, <2>4 DEF UploadInv
<1> QED
  BY <1>1, <1>2, <1>3, <1>4

-----------------------------------------------------------------------------
(* The whole                                                               *)

\* Forms have nothing to do with chunks.
LEMMA FormsKeep ==
  ASSUME UploadInv, UNCHANGED <<row, temp, chunk, client, saved, split>> PROVE UploadInv'
BY DEF UploadInv, UploadTypes, UploadsWhole, OneFile, NoHoles, Busy, Waits, RequestOK, ClientOK,
       HasBefore

\* There is no temporary file at first.
LEMMA UploadsStart == ASSUME UploadsAssumption, Init PROVE UploadInv
<1>1. /\ row = << >> /\ temp = [t \in Temps |-> None] /\ chunk = [r \in Requests |-> NoReq]
      /\ client = [pc |-> IF form = None THEN "ask" ELSE "none", at |-> 0, tries |-> 1]
      /\ split = FALSE /\ saved = << >>
  BY DEF Init
<1>2. client \in Clients /\ client.pc # "send"
  BY <1>1 DEF Clients
<1>3. UploadTypes
  <2>1. << >> \in Seq(Temps) /\ << >> \in Seq([chunks : SUBSET Chunks, split : BOOLEAN])
    BY EmptySeq
  <2>2. chunk \in [Requests -> Request \cup {NoReq}]
    BY <1>1
  <2>3. \A r \in Requests : chunk[r].pc \in {"copy", "post", "finish"} => chunk[r].temp \in Temps
    BY <1>1 DEF NoReq
  <2> QED
    BY <1>1, <1>2, <2>1, <2>2, <2>3 DEF UploadTypes
<1>4. \A r \in Requests : ~Busy(r)
  BY <1>1 DEF Busy, NoReq
<1>5. OneFile
  BY <1>1, <1>2, <1>4 DEF OneFile, NoHoles, ClientOK, Waits
<1>6. UploadsWhole
  BY <1>1 DEF UploadsWhole
<1> QED
  BY <1>3, <1>5, <1>6 DEF UploadInv

\* Every step keeps the invariant.
LEMMA UploadsGoOn == ASSUME UploadsAssumption, UploadInv, [Next]_vars PROVE UploadInv'
<1>1. CASE UNCHANGED vars
  BY <1>1, FormsKeep DEF vars
<1>2. CASE (\E n \in 1..Len(todo) : Receive(n)) \/ UploadDone
  BY <1>2, FormsKeep DEF Receive, UploadDone, chunkVars
<1>3. CASE RecvInit \/ RecvHeaders \/ RecvFileData \/ RecvFileDataBeyond \/ RecvFormField
  <2>1. Same
    BY <1>3 DEF RecvInit, RecvHeaders, RecvFileData, RecvFileDataBeyond, RecvFormField
  <2> QED
    BY <2>1, FormsKeep DEF Same, chunkVars
<1>4. CASE AskOffset
  BY <1>4, AskKeeps
<1>5. ASSUME NEW r \in Requests,
             SendChunk(r) \/ CreateTemp(r) \/ OpenTemp(r) \/ CopyChunk(r) \/ PostChunks(r) \/ FinishUpload(r)
      PROVE  UploadInv'
  BY <1>5, SendKeeps, CreateKeeps, OpenKeeps, CopyKeeps, PostKeeps, FinishKeeps
<1>6. CASE (\E t \in Temps : CleanTemp(t)) \/ GiveUp \/ Crash \/ UploadAgain
  BY <1>6, OthersKeep
<1> QED
  BY <1>1, <1>2, <1>3, <1>4, <1>5, <1>6 DEF Next

\* Whatever fails and however often the client starts over, what is posted from chunks is
\* whole, unless a request that was given up has changed the rows: for any number of chunks,
\* threads and names of temporary files (write_block_data_to_tmp_file).
THEOREM LargeFilesAreWhole == ASSUME UploadsAssumption PROVE Spec => []UploadsWhole
<1>1. Init => UploadInv
  BY UploadsStart
<1>2. UploadInv /\ [Next]_vars => UploadInv'
  BY UploadsGoOn
<1>3. UploadInv => UploadsWhole
  BY DEF UploadInv
<1> QED
  BY <1>1, <1>2, <1>3, PTL DEF Spec

----------------------------------------------------------------------------
\* Downloads

\* A set of numbers has a smallest one.
LEMMA Smallest ==
    ASSUME NEW S, S \subseteq Nat, S # {}
    PROVE  \E k \in S : \A y \in S : k <= y
<1>1. PICK k \in S : \A y \in S : ~(<<y, k>> \in OpToRel(<, Nat))
    BY WFMin, NatLessThanWellFounded
<1>2. \A y \in S : ~(y < k)
    BY <1>1 DEF OpToRel
<1> QED
    BY <1>2

\* The equation of the recursive function in Before()
Sums(f, bs, m) == [k \in 1..m |-> IF k = 1 THEN 0 ELSE f[k - 1] + bs[k - 1]]

\* It has a solution for every number of blocks.
LEMMA SumsExist == ASSUME NEW bs, NEW m \in Nat PROVE \E f : f = Sums(f, bs, m)
<1> DEFINE Fails == {k \in Nat : ~\E f : f = Sums(f, bs, k)}
<1>1. SUFFICES ASSUME Fails # {} PROVE FALSE
    OBVIOUS
<1>2. PICK k \in Fails : \A y \in Fails : k <= y
    <2>1. Fails \subseteq Nat
        OBVIOUS
    <2> HIDE DEF Fails
    <2> QED
        BY <1>1, <2>1, Smallest
<1>3. k # 0
    <2>1. \A f : Sums(f, bs, 0) = << >>
        BY DEF Sums
    <2>2. << >> = Sums(<< >>, bs, 0)
        BY <2>1
    <2> QED
        BY <2>2
<1>4. PICK f : f = Sums(f, bs, k - 1)
    <2>1. k - 1 \in Nat /\ ~(k <= k - 1)
        BY <1>3
    <2>2. k - 1 \notin Fails
        <3> HIDE DEF Fails
        <3> QED
            BY <1>2, <2>1
    <2> QED
        BY <2>1, <2>2
<1> DEFINE last == IF k = 1 THEN 0 ELSE f[k - 1] + bs[k - 1]
           g == [n \in 1..k |-> IF n = k THEN last ELSE f[n]]
<1>5. \A n \in 1..k : g[n] = IF n = 1 THEN 0 ELSE g[n - 1] + bs[n - 1]
    <2> SUFFICES ASSUME NEW n \in 1..k PROVE g[n] = IF n = 1 THEN 0 ELSE g[n - 1] + bs[n - 1]
        OBVIOUS
    <2>1. n # 1 => n - 1 \in 1..k /\ n - 1 # k /\ g[n - 1] = f[n - 1]
        BY <1>3
    <2>2. CASE n = k
        BY <2>1, <2>2
    <2>3. CASE n # k
        <3>1. n \in 1..(k - 1) /\ g[n] = f[n]
            BY <2>3
        <3>2. f[n] = IF n = 1 THEN 0 ELSE f[n - 1] + bs[n - 1]
            BY <1>4, <3>1 DEF Sums
        <3> HIDE DEF g
        <3> QED
            BY <2>1, <3>1, <3>2
    <2> QED
        BY <2>2, <2>3
<1>6. g = Sums(g, bs, k)
    <2>1. g = [n \in 1..k |-> g[n]]
        OBVIOUS
    <2>2. [n \in 1..k |-> g[n]] = [n \in 1..k |-> IF n = 1 THEN 0 ELSE g[n - 1] + bs[n - 1]]
        <3> HIDE DEF g
        <3> QED
            BY <1>5
    <2> HIDE DEF g
    <2> QED
        BY <2>1, <2>2 DEF Sums
<1> QED
    BY <1>6

\* The bytes before the first block, and before the next one
LEMMA BeforeNext ==
    ASSUME NEW bs \in Seq(Nat)
    PROVE  /\ Before(bs, 1) = 0
           /\ \A i \in 1..Len(bs) : Before(bs, i + 1) = Before(bs, i) + bs[i]
<1> DEFINE m == Len(bs) + 1
           sum == CHOOSE f : f = Sums(f, bs, m)
<1>1. m \in Nat /\ Len(bs) \in Nat
    OBVIOUS
<1>2. sum = Sums(sum, bs, m)
    BY <1>1, SumsExist
<1>3. \A i : Before(bs, i) = sum[i]
    BY DEF Before, Sums
<1> HIDE DEF sum
<1>4. \A k \in 1..m : sum[k] = IF k = 1 THEN 0 ELSE sum[k - 1] + bs[k - 1]
    BY <1>2 DEF Sums
<1>5. 1 \in 1..m /\ \A i \in 1..Len(bs) : i + 1 \in 1..m /\ i + 1 # 1 /\ (i + 1) - 1 = i
    BY <1>1
<1> HIDE DEF m
<1> QED
    BY <1>3, <1>4, <1>5

\* They are numbers,
LEMMA BeforeNat ==
    ASSUME NEW bs \in Seq(Nat), NEW i \in 1..(Len(bs) + 1)
    PROVE  Before(bs, i) \in Nat
<1> DEFINE Fails == {k \in 1..(Len(bs) + 1) : Before(bs, k) \notin Nat}
<1>1. SUFFICES ASSUME Fails # {} PROVE FALSE
    OBVIOUS
<1>2. PICK k \in Fails : \A y \in Fails : k <= y
    <2>1. Fails \subseteq Nat
        OBVIOUS
    <2> HIDE DEF Fails
    <2> QED
        BY <1>1, <2>1, Smallest
<1>3. k # 1
    BY BeforeNext
<1>4. k - 1 \in 1..Len(bs) /\ k - 1 \notin Fails
    <2>1. k \in 1..(Len(bs) + 1) /\ ~(k <= k - 1)
        OBVIOUS
    <2> HIDE DEF Fails
    <2> QED
        BY <1>2, <1>3, <2>1
<1>5. Before(bs, k) = Before(bs, k - 1) + bs[k - 1] /\ bs[k - 1] \in Nat
    <2>1. (k - 1) + 1 = k
        OBVIOUS
    <2>2. Before(bs, (k - 1) + 1) = Before(bs, k - 1) + bs[k - 1]
        BY <1>4, BeforeNext
    <2> QED
        BY <1>4, <2>1, <2>2
<1> QED
    BY <1>4, <1>5

\* and grow.
LEMMA BeforeGrows ==
    ASSUME NEW bs \in Seq(Nat), NEW i \in 1..(Len(bs) + 1), NEW j \in 1..(Len(bs) + 1), i <= j
    PROVE  Before(bs, i) <= Before(bs, j)
<1> DEFINE Fails == {k \in 1..(Len(bs) + 1) : i <= k /\ ~(Before(bs, i) <= Before(bs, k))}
<1>1. SUFFICES ASSUME Fails # {} PROVE FALSE
    OBVIOUS
<1>2. PICK k \in Fails : \A y \in Fails : k <= y
    <2>1. Fails \subseteq Nat
        OBVIOUS
    <2> HIDE DEF Fails
    <2> QED
        BY <1>1, <2>1, Smallest
<1>3. k # i
    BY BeforeNat
<1>4. k - 1 \in 1..Len(bs) /\ i <= k - 1 /\ k - 1 \notin Fails
    <2>1. k \in 1..(Len(bs) + 1) /\ i <= k /\ ~(k <= k - 1)
        OBVIOUS
    <2> HIDE DEF Fails
    <2> QED
        BY <1>2, <1>3, <2>1
<1>5. Before(bs, k) = Before(bs, k - 1) + bs[k - 1] /\ bs[k - 1] \in Nat
    <2>1. (k - 1) + 1 = k
        OBVIOUS
    <2>2. Before(bs, (k - 1) + 1) = Before(bs, k - 1) + bs[k - 1]
        BY <1>4, BeforeNext
    <2> QED
        BY <1>4, <2>1, <2>2
<1>6. Before(bs, i) <= Before(bs, k - 1)
    BY <1>4
<1>7. ~(Before(bs, i) <= Before(bs, k))
    OBVIOUS
<1>8. Before(bs, i) \in Nat /\ Before(bs, k - 1) \in Nat
    <2>1. k - 1 \in 1..(Len(bs) + 1)
        BY <1>4
    <2> QED
        BY <2>1, BeforeNat
<1> HIDE DEF Fails
<1> QED
    BY <1>5, <1>6, <1>7, <1>8

\* Every offset of a file is in a block.
LEMMA StartFound ==
    ASSUME NEW bs \in Seq(Nat), NEW start \in Nat, start < Total(bs)
    PROVE  /\ StartBlock(bs, start) \in 1..Len(bs)
           /\ Before(bs, StartBlock(bs, start)) <= start
           /\ start < Before(bs, StartBlock(bs, start)) + bs[StartBlock(bs, start)]
<1> DEFINE After == {i \in 1..(Len(bs) + 1) : start < Before(bs, i)}
<1>1. Len(bs) + 1 \in After
    BY DEF Total
<1>2. PICK k \in After : \A y \in After : k <= y
    <2>1. After \subseteq Nat /\ After # {}
        BY <1>1
    <2> HIDE DEF After
    <2> QED
        BY <2>1, Smallest
<1>3. k # 1
    BY BeforeNext
<1>4. k - 1 \in 1..Len(bs) /\ k - 1 \notin After
    <2>1. k \in 1..(Len(bs) + 1) /\ ~(k <= k - 1)
        OBVIOUS
    <2> HIDE DEF After
    <2> QED
        BY <1>2, <1>3, <2>1
<1>5. Before(bs, k) = Before(bs, k - 1) + bs[k - 1]
    <2>1. (k - 1) + 1 = k
        OBVIOUS
    <2> QED
        BY <1>4, <2>1, BeforeNext
<1>6. Before(bs, k - 1) <= start /\ start < Before(bs, k - 1) + bs[k - 1]
    BY <1>4, <1>5, BeforeNat
<1> QED
    BY <1>4, <1>6 DEF StartBlock

LEMMA Remainders ==
    ASSUME NEW w \in Nat, NEW x \in 0..(w - 1)
    PROVE  x % w = x /\ (w + x) % w = x /\ (x # 0 => (-x) % w = w - x)
OBVIOUS

Ops == {"file", "blk", "zip"}
Infos == [op : Ops, once : BOOLEAN]

\* The tasks of archives: those with files to write, and the others
Working == [pc : {"queued", "open", "files", "failed"}, left : Nat]
Waiting == [pc : {"new", "ask", "none", "done", "remove"}]

TaskOK(t) ==
    /\ worker[t].pc \in {"queued", "open"} => worker[t].left = dir
    /\ worker[t].pc = "files" => worker[t].left <= dir /\ zip[t] = dir - worker[t].left
    /\ worker[t].pc = "failed" => zip[t] \in Nat
    /\ worker[t].pc = "done" => zip[t] = dir + 1

\* Requests: with the entry of a token, with a file, with an archive
InfoRequest ==
    [pc : {"info"} \cup Ops, token : Tokens, info : Infos, spec : Specs \cup {Nothing}, ended : BOOLEAN]

FileRequest ==
    [pc : {"send", "sent"}, kind : {"whole", "range", "block"}, spec : Specs \cup {Nothing},
     promised : Nat, first : 1..Len(blocks), block : 1..Len(blocks), at : Nat, remain : Nat,
     sent : Seq(Nat)]

ZipRequest(r) ==
    /\ r.pc \in {"sendzip", "sentzip"} /\ r.token \in Tokens
    /\ r = [pc |-> r.pc, token |-> r.token, ended |-> r.ended, promised |-> r.promised,
            remain |-> r.remain, sent |-> r.sent]

\* Where a reply begins and what its headers promise
FirstByte(r) ==
    CASE r.kind = "whole" -> 0
      [] r.kind = "range" -> RangeStart(r.spec, Total(blocks))
      [] r.kind = "block" -> Before(blocks, r.first)

PromiseOK(r) ==
    /\ FirstByte(r) \in Nat
    /\ r.kind = "whole" => r.promised = Total(blocks)
    /\ r.kind = "range" => /\ r.spec \in Specs /\ GoodRange(r.spec, Total(blocks))
                           /\ r.promised = RangeEnd(r.spec, Total(blocks)) - FirstByte(r) + 1
                           /\ FirstByte(r) + r.promised <= Total(blocks)
    /\ r.kind = "block" => r.promised = blocks[r.first] /\ r.block = r.first

\* What has been sent, and the place where it goes on
FileOK(r) ==
    /\ PromiseOK(r)
    /\ r.at <= blocks[r.block] /\ r.remain <= r.promised
    /\ Before(blocks, r.block) + r.at = FirstByte(r) + Len(r.sent)
    /\ Len(r.sent) = r.promised - r.remain
    /\ \A k \in 1..Len(r.sent) : r.sent[k] = FirstByte(r) + k - 1
    /\ r.pc = "sent" => r.remain = 0
    /\ r.pc = "send" /\ r.kind = "range" => r.remain > 0

\* An archive that was whole before it was asked for is sent whole.
ZipOK(r) ==
    r.ended => /\ worker[r.token].pc = "done"
               /\ r.sent \in Nat /\ r.remain \in Nat /\ r.sent + r.remain = dir + 1
               /\ r.pc = "sentzip" => r.remain = 0

DownloadOK(r) ==
    \/ r = NoRequest
    \/ r \in InfoRequest /\ (r.ended => worker[r.token].pc = "done")
    \/ r \in FileRequest /\ FileOK(r)
    \/ ZipRequest(r) /\ ZipOK(r)

DownloadsInv ==
    /\ blocks \in Blocks /\ dir \in Dirs
    /\ token \in [Tokens -> {Nothing} \cup Infos]
    /\ worker \in [Tokens -> Working \cup Waiting]
    /\ zip = [t \in Tokens |-> zip[t]]
    /\ req = [p \in Procs |-> req[p]]
    /\ \A t \in Tokens : TaskOK(t)
    /\ \A p \in Procs : DownloadOK(req[p])

----------------------------------------------------------------------------

\* The assumptions, for the file of the library
LEMMA TheFile ==
    ASSUME DownloadsAssumption, blocks \in Blocks
    PROVE  /\ blocks \in Seq(Nat) /\ Len(blocks) \in Nat \ {0} /\ Total(blocks) \in 1..(Width - 1)
           /\ \A i \in 1..Len(blocks) : /\ blocks[i] \in Nat \ {0} /\ Before(blocks, i) \in Nat
                                        /\ Before(blocks, i + 1) = Before(blocks, i) + blocks[i]
                                        /\ Before(blocks, i) + blocks[i] <= Total(blocks)
           /\ Before(blocks, 1) = 0
<1>1. /\ blocks \in Seq(Nat \ {0}) /\ blocks # << >> /\ Total(blocks) < Width
    BY DEF DownloadsAssumption
<1>2. blocks \in Seq(Nat) /\ Len(blocks) \in Nat \ {0} /\ \A i \in 1..Len(blocks) : blocks[i] \in Nat \ {0}
    BY <1>1
<1>3. Before(blocks, 1) = 0
      /\ \A i \in 1..Len(blocks) : Before(blocks, i + 1) = Before(blocks, i) + blocks[i]
    BY <1>2, BeforeNext
<1>4. \A i \in 1..(Len(blocks) + 1) : Before(blocks, i) \in Nat
    BY <1>2, BeforeNat
<1>5. \A i \in 1..Len(blocks) : Before(blocks, i + 1) <= Total(blocks)
    <2> TAKE i \in 1..Len(blocks)
    <2>1. i + 1 \in 1..(Len(blocks) + 1) /\ Len(blocks) + 1 \in 1..(Len(blocks) + 1) /\ i + 1 <= Len(blocks) + 1
        BY <1>2
    <2> QED
        BY <1>2, <2>1, BeforeGrows DEF Total
<1>6. Total(blocks) \in Nat /\ Total(blocks) >= 1
    <2>1. Total(blocks) \in Nat
        BY <1>2, <1>4 DEF Total
    <2>2. 1 \in 1..Len(blocks)
        BY <1>2
    <2>3. Before(blocks, 1 + 1) = Before(blocks, 1) + blocks[1] /\ Before(blocks, 1 + 1) <= Total(blocks)
        BY <1>3, <1>5, <2>2
    <2> QED
        BY <1>2, <1>3, <2>1, <2>2, <2>3
<1>7. Total(blocks) \in 1..(Width - 1)
    BY <1>1, <1>6 DEF DownloadsAssumption
<1>8. \A i \in 1..Len(blocks) : i \in 1..(Len(blocks) + 1)
    BY <1>2
<1>9. \A i \in 1..Len(blocks) : Before(blocks, i) + blocks[i] <= Total(blocks)
    BY <1>3, <1>5
<1> QED
    BY <1>2, <1>3, <1>4, <1>7, <1>8, <1>9

\* parse_range_val(): a range that is good is the one that was asked for.
LEMMA GoodRangeIsAsked ==
    ASSUME DownloadsAssumption, NEW spec \in Specs, NEW size \in 1..(Width - 1), GoodRange(spec, size)
    PROVE  /\ RangeStart(spec, size) \in Nat /\ RangeEnd(spec, size) \in Nat
           /\ RangeStart(spec, size) <= RangeEnd(spec, size) /\ RangeEnd(spec, size) <= size - 1
           /\ Asked(spec, size) = RangeStart(spec, size)..RangeEnd(spec, size)
<1>1. /\ Width \in Nat /\ spec.kind \in HeaderKinds /\ spec.n \in 0..(Width - 1)
      /\ spec.kind = "both" => spec.m \in 0..(Width - 1)
    BY DEF DownloadsAssumption
<1>2. spec.n % Width = spec.n /\ (spec.kind = "both" => spec.m % Width = spec.m)
    BY <1>1, Remainders
<1>3. CASE spec.kind = "suffix"
    <2>1. spec.n # 0 /\ (-spec.n) % Width = Width - spec.n
        BY <1>1, <1>3, Remainders DEF GoodRange
    <2>2. RangeStart(spec, size) = (Width - spec.n + size) % Width /\ RangeEnd(spec, size) = size - 1
        BY <1>3, <2>1 DEF RangeStart, RangeEnd, W
    <2>3. CASE spec.n <= size
        <3>1. size - spec.n \in 0..(Width - 1) /\ Width - spec.n + size = Width + (size - spec.n)
            BY <1>1, <2>3
        <3>2. (Width + (size - spec.n)) % Width = size - spec.n
            BY <1>1, <3>1, Remainders
        <3>3. RangeStart(spec, size) = size - spec.n
            BY <2>2, <3>1, <3>2
        <3>4. Asked(spec, size) = {k \in 0..(size - 1) : k >= size - spec.n}
            BY <1>3 DEF Asked
        <3>5. {k \in 0..(size - 1) : k >= size - spec.n} = (size - spec.n)..(size - 1)
            BY <1>1, <2>3
        <3> QED
            BY <1>1, <2>1, <2>2, <2>3, <3>3, <3>4, <3>5
    <2>4. CASE spec.n > size
        <3>1. Width - spec.n + size \in 0..(Width - 1)
            BY <1>1, <2>4
        <3>2. RangeStart(spec, size) = Width - spec.n + size
            BY <1>1, <2>2, <3>1, Remainders
        <3>3. ~(RangeStart(spec, size) <= RangeEnd(spec, size))
            BY <1>1, <2>2, <3>2
        <3> QED
            BY <3>3 DEF GoodRange
    <2> QED
        BY <1>1, <2>3, <2>4
<1>4. CASE spec.kind = "from"
    <2>1. RangeStart(spec, size) = spec.n /\ RangeEnd(spec, size) = size - 1 /\ spec.n <= size - 1
        BY <1>2, <1>4 DEF RangeStart, RangeEnd, GoodRange, W
    <2>2. Asked(spec, size) = {k \in 0..(size - 1) : k >= spec.n}
        BY <1>4 DEF Asked
    <2>3. {k \in 0..(size - 1) : k >= spec.n} = spec.n..(size - 1)
        BY <1>1
    <2> QED
        BY <1>1, <2>1, <2>2, <2>3
<1>5. CASE spec.kind = "both"
    <2>1. /\ RangeStart(spec, size) = spec.n
          /\ RangeEnd(spec, size) = IF spec.m <= size - 1 THEN spec.m ELSE size - 1
          /\ spec.n <= RangeEnd(spec, size)
        BY <1>2, <1>5 DEF RangeStart, RangeEnd, GoodRange, W
    <2>2. Asked(spec, size) = {k \in 0..(size - 1) : k >= spec.n /\ k <= spec.m}
        BY <1>5 DEF Asked
    <2>3. RangeEnd(spec, size) \in Nat /\ RangeEnd(spec, size) <= size - 1
        BY <1>1, <1>5, <2>1
    <2>4. \A k \in 0..(size - 1) : k <= spec.m <=> k <= RangeEnd(spec, size)
        BY <1>1, <1>5, <2>1
    <2>5. {k \in 0..(size - 1) : k >= spec.n /\ k <= spec.m} = spec.n..RangeEnd(spec, size)
        BY <1>1, <2>3, <2>4
    <2> QED
        BY <1>1, <2>1, <2>2, <2>3, <2>5
<1> QED
    BY <1>1, <1>3, <1>4, <1>5 DEF HeaderKinds

\* A request that waits stays as it should be.
LEMMA StaysOK ==
    ASSUME UNCHANGED <<blocks, dir>>, NEW r, DownloadOK(r),
           \A o \in Tokens : worker[o].pc = "done" => worker'[o].pc = "done"
    PROVE  DownloadOK(r)'
<1>1. CASE r = NoRequest
    BY <1>1 DEF DownloadOK
<1>2. CASE r \in InfoRequest /\ (r.ended => worker[r.token].pc = "done")
    <2>1. r.token \in Tokens
        BY <1>2 DEF InfoRequest
    <2> QED
        BY <1>2, <2>1 DEF DownloadOK
<1>3. CASE r \in FileRequest /\ FileOK(r)
    <2>1. (r \in FileRequest)'
        BY <1>3 DEF FileRequest
    <2>2. FileOK(r)'
        BY <1>3 DEF FileOK, PromiseOK, FirstByte
    <2> QED
        BY <2>1, <2>2 DEF DownloadOK
<1>4. CASE ZipRequest(r) /\ ZipOK(r)
    <2>1. ZipRequest(r)'
        BY <1>4 DEF ZipRequest
    <2>2. ZipOK(r)'
        BY <1>4 DEF ZipOK, ZipRequest
    <2> QED
        BY <2>1, <2>2 DEF DownloadOK
<1> QED
    BY <1>1, <1>2, <1>3, <1>4 DEF DownloadOK

LEMMA OthersStayOK ==
    ASSUME DownloadsInv, UNCHANGED <<blocks, dir>>, NEW p \in Procs, req'[p] = req[p],
           \A o \in Tokens : worker[o].pc = "done" => worker'[o].pc = "done"
    PROVE  DownloadOK(req[p])'
<1>1. PICK r : r = req[p]
    OBVIOUS
<1>2. DownloadOK(r)
    BY <1>1 DEF DownloadsInv
<1>3. DownloadOK(r)'
    BY <1>2, StaysOK
<1> QED
    BY <1>1, <1>3

\* A request goes on, or a connection takes one up.
LEMMA OneRequest ==
    ASSUME DownloadsInv, UNCHANGED <<blocks, dir, worker, zip>>,
           token' \in [Tokens -> {Nothing} \cup Infos],
           NEW p \in Procs, NEW r, req' = [req EXCEPT ![p] = r], DownloadOK(req[p])'
    PROVE  DownloadsInv'
<1>1. req' = [o \in Procs |-> req'[o]] /\ \A o \in Procs : o # p => req'[o] = req[o]
    BY DEF DownloadsInv
<1>2. \A o \in Procs : DownloadOK(req[o])'
    <2> TAKE o \in Procs
    <2>1. CASE o = p
        BY <2>1
    <2>2. CASE o # p
        <3>1. req'[o] = req[o] /\ DownloadOK(req[o])
            BY <1>1, <2>2 DEF DownloadsInv
        <3> QED
            BY <3>1, OthersStayOK
    <2> QED
        BY <2>1, <2>2
<1>3. \A t \in Tokens : TaskOK(t)'
    BY DEF DownloadsInv, TaskOK
<1> QED
    BY <1>1, <1>2, <1>3 DEF DownloadsInv

LEMMA EndsKeeps ==
    ASSUME DownloadsInv, UNCHANGED <<blocks, dir, worker, zip, token>>, NEW p \in Procs, Ends(p)
    PROVE  DownloadsInv'
<1>1. req' = [req EXCEPT ![p] = NoRequest] /\ req'[p] = NoRequest
    BY DEF Ends, DownloadsInv
<1>2. DownloadOK(req[p])'
    BY <1>1 DEF DownloadOK
<1> QED
    BY <1>1, <1>2, OneRequest DEF DownloadsInv

\* A task goes on: what is done stays done.
LEMMA OneTask ==
    ASSUME DownloadsInv, UNCHANGED <<blocks, dir, req, token>>,
           NEW t \in Tokens, NEW w \in Working \cup Waiting,
           worker' = [worker EXCEPT ![t] = w],
           zip' = zip \/ \E n : zip' = [zip EXCEPT ![t] = n],
           worker[t].pc # "done", TaskOK(t)'
    PROVE  DownloadsInv'
<1>1. /\ worker' \in [Tokens -> Working \cup Waiting]
      /\ zip' = [o \in Tokens |-> zip'[o]]
      /\ \A o \in Tokens : o # t => worker'[o] = worker[o] /\ zip'[o] = zip[o]
    BY DEF DownloadsInv
<1>2. \A o \in Tokens : TaskOK(o)'
    BY <1>1 DEF DownloadsInv, TaskOK
<1>3. \A o \in Tokens : worker[o].pc = "done" => worker'[o].pc = "done"
    BY <1>1
<1>4. \A p \in Procs : DownloadOK(req[p])'
    <2> TAKE p \in Procs
    <2>1. req'[p] = req[p]
        OBVIOUS
    <2> QED
        BY <1>3, <2>1, OthersStayOK
<1> QED
    BY <1>1, <1>2, <1>4 DEF DownloadsInv

\* Nothing of it changes.
LEMMA SameDownloads ==
    ASSUME DownloadsInv, UNCHANGED <<blocks, dir, worker, zip, req>>,
           token' \in [Tokens -> {Nothing} \cup Infos]
    PROVE  DownloadsInv'
<1>1. \A p \in Procs : DownloadOK(req[p])'
    BY OthersStayOK
<1>2. \A t \in Tokens : TaskOK(t)'
    BY DEF DownloadsInv, TaskOK
<1> QED
    BY <1>1, <1>2 DEF DownloadsInv

----------------------------------------------------------------------------

\* Tokens, and the tasks up to the archive's first file
LEMMA TokensKeep ==
    ASSUME DownloadsAssumption, DownloadsInv, NEW t \in Tokens,
           \/ \E op \in Ops, once \in BOOLEAN : GetToken(t, op, once)
           \/ StartZipTask(t) \/ ZipRefused(t) \/ Expire(t)
    PROVE  DownloadsInv'
<1>0. /\ token \in [Tokens -> {Nothing} \cup Infos] /\ worker \in [Tokens -> Working \cup Waiting]
      /\ dir \in Nat
    BY DEF DownloadsInv, DownloadsAssumption
<1>1. CASE \E op \in Ops, once \in BOOLEAN : GetToken(t, op, once)
    <2>1. PICK op \in Ops, once \in BOOLEAN :
             /\ worker[t].pc = "new"
             /\ token' = [token EXCEPT ![t] = [op |-> op, once |-> once]]
             /\ worker' = [worker EXCEPT ![t].pc = IF op = "zip" THEN "ask" ELSE "none"]
             /\ UNCHANGED <<blocks, dir, zip, req>>
        BY <1>1 DEF GetToken
    <2>2. token' \in [Tokens -> {Nothing} \cup Infos]
        BY <1>0, <2>1 DEF Infos
    <2> DEFINE w == [worker[t] EXCEPT !.pc = IF op = "zip" THEN "ask" ELSE "none"]
    <2>3. w \in Waiting /\ w.pc \in {"ask", "none"}
        BY <1>0, <2>1 DEF Waiting, Working
    <2>4. /\ worker' = [worker EXCEPT ![t] = w]
          /\ worker' \in [Tokens -> Working \cup Waiting]
          /\ worker'[t] = w /\ \A o \in Tokens : o # t => worker'[o] = worker[o]
        <3>1. worker' = [worker EXCEPT ![t] = w]
            BY <2>1
        <3> HIDE DEF w
        <3> QED
            BY <1>0, <2>3, <3>1
    <2> HIDE DEF w
    <2>5. \A o \in Tokens : TaskOK(o)'
        BY <2>1, <2>3, <2>4 DEF DownloadsInv, TaskOK
    <2>6. \A p \in Procs : DownloadOK(req[p])'
        <3> TAKE p \in Procs
        <3>1. req'[p] = req[p]
            BY <2>1
        <3>2. \A o \in Tokens : worker[o].pc = "done" => worker'[o].pc = "done"
            BY <2>1, <2>4
        <3> QED
            BY <2>1, <3>1, <3>2, OthersStayOK
    <2> QED
        BY <2>1, <2>2, <2>4, <2>5, <2>6 DEF DownloadsInv
<1>2. CASE StartZipTask(t)
    <2>1. /\ worker[t].pc = "ask" /\ worker' = [worker EXCEPT ![t] = [pc |-> "queued", left |-> dir]]
          /\ UNCHANGED <<blocks, dir, req, token, zip>>
        BY <1>2 DEF StartZipTask
    <2>2. [pc |-> "queued", left |-> dir] \in Working
        BY <1>0 DEF Working
    <2>3. worker'[t] = [pc |-> "queued", left |-> dir]
        BY <1>0, <2>1
    <2>4. TaskOK(t)'
        BY <2>1, <2>3 DEF TaskOK
    <2> QED
        BY <2>1, <2>2, <2>4, OneTask
<1>3. CASE ZipRefused(t)
    <2>1. /\ worker[t].pc = "ask" /\ worker' = [worker EXCEPT ![t].pc = "none"]
          /\ token' = [token EXCEPT ![t] = Nothing]
          /\ UNCHANGED <<blocks, dir, req, zip>>
        BY <1>3 DEF ZipRefused
    <2>2. token' \in [Tokens -> {Nothing} \cup Infos]
        BY <1>0, <2>1
    <2> DEFINE w == [worker[t] EXCEPT !.pc = "none"]
    <2>3. w \in Waiting /\ w.pc = "none"
        BY <1>0, <2>1 DEF Waiting, Working
    <2>4. /\ worker' \in [Tokens -> Working \cup Waiting]
          /\ worker'[t] = w /\ \A o \in Tokens : o # t => worker'[o] = worker[o]
        <3>1. worker' = [worker EXCEPT ![t] = w]
            BY <2>1
        <3> HIDE DEF w
        <3> QED
            BY <1>0, <2>3, <3>1
    <2> HIDE DEF w
    <2>5. \A o \in Tokens : TaskOK(o)'
        BY <2>1, <2>3, <2>4 DEF DownloadsInv, TaskOK
    <2>6. \A p \in Procs : DownloadOK(req[p])'
        <3> TAKE p \in Procs
        <3>1. req'[p] = req[p]
            BY <2>1
        <3>2. \A o \in Tokens : worker[o].pc = "done" => worker'[o].pc = "done"
            BY <2>1, <2>4
        <3> QED
            BY <2>1, <3>1, <3>2, OthersStayOK
    <2> QED
        BY <2>1, <2>2, <2>4, <2>5, <2>6 DEF DownloadsInv
<1>4. CASE Expire(t)
    <2>1. UNCHANGED <<blocks, dir, worker, zip, req>> /\ token' = [token EXCEPT ![t] = Nothing]
        BY <1>4 DEF Expire
    <2>2. token' \in [Tokens -> {Nothing} \cup Infos]
        BY <1>0, <2>1
    <2> QED
        BY <2>1, <2>2, SameDownloads
<1> QED
    BY <1>1, <1>2, <1>3, <1>4

\* zip_tpool: the archive has a unit for each file that is done.
LEMMA TaskKeeps ==
    ASSUME DownloadsAssumption, DownloadsInv, NEW t \in Tokens, Task(t)
    PROVE  DownloadsInv'
<1>0. /\ worker \in [Tokens -> Working \cup Waiting] /\ dir \in Nat
      /\ zip = [o \in Tokens |-> zip[o]] /\ TaskOK(t)
    BY DEF DownloadsInv, DownloadsAssumption
<1>1. UNCHANGED <<blocks, dir, req, token>>
    BY DEF Task, CheckDir, CreateZip, AddFile, FinishZip, RemoveFailed
<1>2. ASSUME UNCHANGED zip, TaskEnds(t, FALSE), worker[t].pc # "done" PROVE DownloadsInv'
    <2>1. worker' = [worker EXCEPT ![t] = [pc |-> "none"]] /\ [pc |-> "none"] \in Waiting
        BY <1>2 DEF TaskEnds, Waiting
    <2>2. worker'[t] = [pc |-> "none"]
        BY <1>0, <2>1
    <2>3. TaskOK(t)'
        BY <2>2 DEF TaskOK
    <2> QED
        BY <1>1, <1>2, <2>1, <2>3, OneTask
<1>3. ASSUME NEW w \in Working \cup Waiting, worker' = [worker EXCEPT ![t] = w],
             worker[t].pc # "done",
             \/ zip' = zip
             \/ zip' = [zip EXCEPT ![t] = 0]
             \/ zip' = [zip EXCEPT ![t] = @ + 1],
             TaskOK(t)'
      PROVE  DownloadsInv'
    <2>1. zip' = zip \/ \E n : zip' = [zip EXCEPT ![t] = n]
        BY <1>3
    <2> QED
        BY <1>1, <1>3, <2>1, OneTask
<1>4. CASE CheckDir(t)
    <2>1. worker[t].pc = "queued" /\ UNCHANGED zip
        BY <1>4 DEF CheckDir
    <2>2. CASE ~HasKey \/ dir > MaxDir
        BY <1>2, <1>4, <2>1, <2>2 DEF CheckDir
    <2>3. CASE ~(~HasKey \/ dir > MaxDir)
        <3>1. worker' = [worker EXCEPT ![t].pc = "open"]
            BY <1>4, <2>3 DEF CheckDir
        <3> DEFINE w == [worker[t] EXCEPT !.pc = "open"]
        <3>2. w \in Working /\ w.pc = "open" /\ w.left = worker[t].left /\ worker[t].left = dir
            BY <1>0, <2>1 DEF Working, Waiting, TaskOK
        <3>3. worker' = [worker EXCEPT ![t] = w]
            BY <3>1
        <3> HIDE DEF w
        <3>4. worker'[t] = w
            BY <1>0, <3>3
        <3>5. TaskOK(t)'
            BY <1>1, <3>2, <3>4 DEF TaskOK
        <3> QED
            BY <1>3, <2>1, <3>2, <3>3, <3>5
    <2> QED
        BY <2>2, <2>3
<1>5. CASE CreateZip(t)
    <2>1. worker[t].pc = "open"
        BY <1>5 DEF CreateZip
    <2>2. CASE TaskEnds(t, FALSE) /\ UNCHANGED zip
        BY <1>2, <2>1, <2>2
    <2>3. CASE zip' = [zip EXCEPT ![t] = 0] /\ worker' = [worker EXCEPT ![t].pc = "files"]
        <3> DEFINE w == [worker[t] EXCEPT !.pc = "files"]
        <3>2. w \in Working /\ w.pc = "files" /\ w.left = dir
            BY <1>0, <2>1 DEF Working, Waiting, TaskOK
        <3>3. worker' = [worker EXCEPT ![t] = w]
            BY <2>3
        <3> HIDE DEF w
        <3>4. worker'[t] = w /\ zip'[t] = 0
            BY <1>0, <2>3, <3>3
        <3>5. TaskOK(t)'
            BY <1>0, <1>1, <3>2, <3>4 DEF TaskOK
        <3> QED
            BY <1>3, <2>1, <2>3, <3>2, <3>3, <3>5
    <2> QED
        BY <1>5, <2>2, <2>3 DEF CreateZip
<1>6. CASE AddFile(t)
    <2>1. /\ worker[t].pc = "files" /\ worker[t].left > 0 /\ worker[t] \in Working
          /\ worker[t].left \in Nat /\ worker[t].left <= dir /\ zip[t] = dir - worker[t].left
        BY <1>0, <1>6 DEF AddFile, TaskOK, Working, Waiting
    <2>2. CASE zip' = [zip EXCEPT ![t] = @ + 1] /\ worker' = [worker EXCEPT ![t].left = @ - 1]
        <3> DEFINE w == [worker[t] EXCEPT !.left = @ - 1]
        <3>2. w \in Working /\ w.pc = "files" /\ w.left = worker[t].left - 1
            BY <2>1 DEF Working
        <3>3. worker' = [worker EXCEPT ![t] = w]
            BY <2>2
        <3> HIDE DEF w
        <3>4. worker'[t] = w /\ zip'[t] = zip[t] + 1
            BY <1>0, <2>2, <3>3
        <3>5. TaskOK(t)'
            BY <1>0, <1>1, <2>1, <3>2, <3>4 DEF TaskOK
        <3> QED
            BY <1>3, <2>1, <2>2, <3>2, <3>3, <3>5
    <2>3. CASE worker' = [worker EXCEPT ![t].pc = "failed"] /\ UNCHANGED zip
        <3> DEFINE w == [worker[t] EXCEPT !.pc = "failed"]
        <3>2. w \in Working /\ w.pc = "failed"
            BY <2>1 DEF Working
        <3>3. worker' = [worker EXCEPT ![t] = w]
            BY <2>3
        <3> HIDE DEF w
        <3>4. worker'[t] = w /\ zip'[t] = zip[t] /\ zip[t] \in Nat
            BY <1>0, <2>1, <2>3, <3>3
        <3>5. TaskOK(t)'
            BY <1>0, <1>1, <3>2, <3>4 DEF TaskOK
        <3> QED
            BY <1>3, <2>1, <2>3, <3>2, <3>3, <3>5
    <2> QED
        BY <1>6, <2>2, <2>3 DEF AddFile, WriteUnit
<1>7. CASE FinishZip(t)
    <2>1. /\ worker[t].pc \in {"files", "failed"}
          /\ worker[t].pc = "files" => zip[t] = dir
          /\ zip' = [zip EXCEPT ![t] = @ + 1]
          /\ worker' = [worker EXCEPT ![t] =
                 [pc |-> IF worker[t].pc = "failed" THEN "remove" ELSE "done"]]
        BY <1>0, <1>7 DEF FinishZip, WriteUnit, TaskOK
    <2> DEFINE w == [pc |-> IF worker[t].pc = "failed" THEN "remove" ELSE "done"]
    <2>2. w \in Waiting /\ w.pc \in {"remove", "done"} /\ (w.pc = "done" => worker[t].pc = "files")
        BY <2>1 DEF Waiting
    <2>3. worker' = [worker EXCEPT ![t] = w]
        BY <2>1
    <2> HIDE DEF w
    <2>4. worker'[t] = w /\ zip'[t] = zip[t] + 1
        BY <1>0, <2>1, <2>3
    <2>5. TaskOK(t)'
        BY <1>0, <1>1, <2>1, <2>2, <2>4 DEF TaskOK
    <2> QED
        BY <1>3, <2>1, <2>2, <2>3, <2>5
<1>8. CASE RemoveFailed(t)
    BY <1>2, <1>8 DEF RemoveFailed
<1> QED
    BY <1>4, <1>5, <1>6, <1>7, <1>8 DEF Task

\* The block of an offset where a block begins
LEMMA BlockOf ==
    ASSUME DownloadsAssumption, blocks \in Blocks, NEW i \in 1..Len(blocks)
    PROVE  StartBlock(blocks, Before(blocks, i)) = i
<1> DEFINE j == StartBlock(blocks, Before(blocks, i))
<1>1. /\ blocks \in Seq(Nat) /\ Len(blocks) \in Nat
      /\ \A k \in 1..Len(blocks) : /\ blocks[k] \in Nat \ {0} /\ Before(blocks, k) \in Nat
                                   /\ Before(blocks, k + 1) = Before(blocks, k) + blocks[k]
                                   /\ Before(blocks, k) + blocks[k] <= Total(blocks)
      /\ Total(blocks) \in Nat
    BY TheFile
<1>2. Before(blocks, i) \in Nat /\ Before(blocks, i) < Total(blocks)
    BY <1>1
<1>3. /\ j \in 1..Len(blocks) /\ Before(blocks, j) <= Before(blocks, i)
      /\ Before(blocks, i) < Before(blocks, j) + blocks[j]
    BY <1>1, <1>2, StartFound
<1> HIDE DEF j
<1>4. ~(j < i)
    <2> SUFFICES ASSUME j < i PROVE FALSE
        OBVIOUS
    <2>1. j + 1 \in 1..(Len(blocks) + 1) /\ i \in 1..(Len(blocks) + 1) /\ j + 1 <= i
        BY <1>1, <1>3
    <2>2. Before(blocks, j + 1) <= Before(blocks, i)
        BY <1>1, <2>1, BeforeGrows
    <2> QED
        BY <1>1, <1>3, <2>2
<1>5. ~(i < j)
    <2> SUFFICES ASSUME i < j PROVE FALSE
        OBVIOUS
    <2>1. i + 1 \in 1..(Len(blocks) + 1) /\ j \in 1..(Len(blocks) + 1) /\ i + 1 <= j
        BY <1>1, <1>3
    <2>2. Before(blocks, i + 1) <= Before(blocks, j)
        BY <1>1, <2>1, BeforeGrows
    <2>3. Before(blocks, i + 1) = Before(blocks, i) + blocks[i] /\ blocks[i] \in Nat \ {0}
        BY <1>1
    <2>4. Before(blocks, i) \in Nat /\ Before(blocks, j) \in Nat
        BY <1>1, <1>3
    <2> QED
        BY <1>3, <2>2, <2>3, <2>4
<1> QED
    BY <1>1, <1>3, <1>4, <1>5 DEF j

\* do_file(), do_file_range(), do_block(): a reply begins in the block of its first byte.
LEMMA ReplyKeeps ==
    ASSUME DownloadsAssumption, DownloadsInv, UNCHANGED <<blocks, dir, worker, zip, token>>,
           NEW p \in Procs, req[p] \in InfoRequest,
           NEW kind \in {"whole", "range", "block"}, NEW from \in Nat, NEW to \in Nat,
           from <= to, to < Total(blocks), Reply(p, kind, from, to),
           kind = "whole" => from = 0 /\ to = Total(blocks) - 1,
           kind = "range" => /\ req[p].spec \in Specs /\ GoodRange(req[p].spec, Total(blocks))
                             /\ from = RangeStart(req[p].spec, Total(blocks))
                             /\ to = RangeEnd(req[p].spec, Total(blocks)),
           kind = "block" => \E i \in 1..Len(blocks) : /\ from = Before(blocks, i)
                                                       /\ to = Before(blocks, i) + blocks[i] - 1
    PROVE  DownloadsInv'
<1> DEFINE j == StartBlock(blocks, from)
           n == to - from + 1
           r == [pc |-> "send", kind |-> kind, spec |-> req[p].spec, promised |-> n,
                 first |-> j, block |-> j, at |-> from - Before(blocks, j),
                 remain |-> n, sent |-> << >>]
<1>0. blocks \in Blocks
    BY DEF DownloadsInv
<1>1. /\ blocks \in Seq(Nat) /\ Len(blocks) \in Nat
      /\ \A k \in 1..Len(blocks) : blocks[k] \in Nat /\ Before(blocks, k) \in Nat
      /\ Total(blocks) \in Nat
    BY <1>0, TheFile
<1>2. /\ j \in 1..Len(blocks) /\ Before(blocks, j) <= from
      /\ from < Before(blocks, j) + blocks[j]
    BY <1>1, StartFound
<1>3. kind = "block" => from = Before(blocks, j) /\ n = blocks[j]
    <2> SUFFICES ASSUME kind = "block" PROVE from = Before(blocks, j) /\ n = blocks[j]
        OBVIOUS
    <2>1. PICK i \in 1..Len(blocks) : from = Before(blocks, i) /\ to = Before(blocks, i) + blocks[i] - 1
        OBVIOUS
    <2>2. j = i
        BY <1>0, <2>1, BlockOf
    <2> QED
        BY <1>1, <2>1, <2>2
<1>4. req' = [req EXCEPT ![p] = r]
    BY DEF Reply
<1>5. req[p].spec \in Specs \cup {Nothing}
    BY DEF InfoRequest
<1>6. n \in Nat /\ n > 0 /\ from - Before(blocks, j) \in Nat /\ from - Before(blocks, j) <= blocks[j]
    BY <1>1, <1>2
<1> HIDE DEF j, n
<1>7. r \in FileRequest
    BY <1>2, <1>5, <1>6 DEF FileRequest
<1>8. /\ r.pc = "send" /\ r.kind = kind /\ r.spec = req[p].spec /\ r.promised = n /\ r.first = j
      /\ r.block = j /\ r.at = from - Before(blocks, j) /\ r.remain = n /\ r.sent = << >>
    OBVIOUS
<1> HIDE DEF r
<1>9. FirstByte(r) = from
    BY <1>3, <1>8 DEF FirstByte
<1>10. PromiseOK(r)
    <2>1. from + n <= Total(blocks) /\ n = to - from + 1
        BY <1>1 DEF n
    <2>2. kind = "whole" => n = Total(blocks)
        BY <1>1 DEF n
    <2> QED
        BY <1>3, <1>8, <1>9, <2>1, <2>2 DEF PromiseOK
<1>11. FileOK(r)
    <2>1. Before(blocks, j) + (from - Before(blocks, j)) = from + 0
        BY <1>1, <1>2
    <2> QED
        BY <1>6, <1>8, <1>9, <1>10, <2>1 DEF FileOK
<1>13. DownloadOK(req[p])'
    <2>1. PICK q : q = r
        OBVIOUS
    <2>2. DownloadOK(q)'
        <3>1. DownloadOK(q)
            BY <2>1, <1>7, <1>11 DEF DownloadOK
        <3> QED
            BY <3>1, StaysOK
    <2>3. req'[p] = q
        BY <1>4, <2>1 DEF DownloadsInv
    <2> QED
        BY <2>2, <2>3
<1>14. PICK q : q = r
    OBVIOUS
<1> QED
    BY <1>4, <1>13, <1>14, OneRequest DEF DownloadsInv

\* The place goes on to the next block,
LEMMA NextBlockKeeps ==
    ASSUME DownloadsAssumption, DownloadsInv, UNCHANGED <<blocks, dir, worker, zip, token>>,
           NEW p \in Procs, req[p] \in FileRequest, FileOK(req[p]), NextBlock(p),
           req[p].pc = "send", req[p].kind # "block",
           InBlock(p) = 0, req[p].block < Len(blocks)
    PROVE  DownloadsInv'
<1> PICK r : r = req[p]
    OBVIOUS
<1> DEFINE q == [r EXCEPT !.block = @ + 1, !.at = 0]
<1>1. /\ Len(blocks) \in Nat
      /\ \A i \in 1..Len(blocks) : /\ blocks[i] \in Nat \ {0} /\ Before(blocks, i) \in Nat
                                   /\ Before(blocks, i + 1) = Before(blocks, i) + blocks[i]
    BY TheFile DEF DownloadsInv
<1>2. /\ r \in FileRequest /\ FileOK(r) /\ r.pc = "send" /\ r.kind # "block"
      /\ r.at = blocks[r.block] /\ r.block \in 1..Len(blocks) /\ r.block + 1 \in 1..Len(blocks)
    <2>1. r \in FileRequest /\ r.block < Len(blocks) /\ blocks[r.block] - r.at = 0
        BY DEF InBlock
    <2>2. r.block \in 1..Len(blocks) /\ r.at \in Nat
        BY <2>1 DEF FileRequest
    <2>3. blocks[r.block] \in Nat
        BY <1>1, <2>2
    <2> QED
        BY <1>1, <2>1, <2>2, <2>3
<1>3. req' = [req EXCEPT ![p] = q]
    BY DEF NextBlock
<1>4. /\ q \in FileRequest
      /\ q.block = r.block + 1 /\ q.at = 0 /\ q.pc = r.pc /\ q.kind = r.kind /\ q.spec = r.spec
      /\ q.promised = r.promised /\ q.first = r.first /\ q.remain = r.remain /\ q.sent = r.sent
    BY <1>2 DEF FileRequest
<1> HIDE DEF q
<1>5. FirstByte(q) = FirstByte(r)
    BY <1>2, <1>4 DEF FirstByte, FileRequest
<1>6. FileOK(q)
    <2>1. PromiseOK(q)
        BY <1>2, <1>4, <1>5 DEF FileOK, PromiseOK
    <2>2. Before(blocks, q.block) + q.at = FirstByte(q) + Len(q.sent)
        BY <1>1, <1>2, <1>4, <1>5 DEF FileOK
    <2>3. q.at <= blocks[q.block]
        BY <1>1, <1>2, <1>4
    <2> QED
        BY <1>2, <1>4, <1>5, <2>1, <2>2, <2>3 DEF FileOK
<1>7. PICK s : s = q
    OBVIOUS
<1>8. DownloadOK(s)'
    <2>1. DownloadOK(s)
        BY <1>4, <1>6, <1>7 DEF DownloadOK
    <2> QED
        BY <2>1, StaysOK
<1>9. req'[p] = s /\ req' = [req EXCEPT ![p] = s]
    BY <1>3, <1>7 DEF DownloadsInv
<1> QED
    BY <1>8, <1>9, OneRequest DEF DownloadsInv

\* and sends some bytes of its block.
LEMMA PieceKeeps ==
    ASSUME DownloadsAssumption, DownloadsInv, UNCHANGED <<blocks, dir, worker, zip, token>>,
           NEW p \in Procs, req[p] \in FileRequest, FileOK(req[p]), NEW n \in Nat, NEW pc \in {"send", "sent"},
           Send(p, n, pc), n <= InBlock(p), n <= req[p].remain,
           pc = "sent" => n = req[p].remain,
           pc = "send" /\ req[p].kind = "range" => n # req[p].remain
    PROVE  DownloadsInv'
<1> PICK r : r = req[p]
    OBVIOUS
<1> DEFINE data == Bytes(blocks, r.block, r.at, n)
           q == [r EXCEPT !.at = @ + n, !.remain = @ - n, !.pc = pc, !.sent = @ \o data]
<1>1. /\ Len(blocks) \in Nat
      /\ \A i \in 1..Len(blocks) : blocks[i] \in Nat /\ Before(blocks, i) \in Nat
    BY TheFile DEF DownloadsInv
<1>2. /\ r \in FileRequest /\ FileOK(r) /\ r.block \in 1..Len(blocks)
      /\ r.at \in Nat /\ r.remain \in Nat /\ r.promised \in Nat /\ r.sent \in Seq(Nat)
      /\ n <= blocks[r.block] - r.at /\ n <= r.remain
    BY <1>1 DEF InBlock, FileRequest
<1>3. req' = [req EXCEPT ![p] = q]
    BY DEF Send
<1>4. /\ data \in Seq(Nat) /\ Len(data) = n
      /\ \A k \in 1..n : data[k] = Before(blocks, r.block) + r.at + k - 1
    <2> HIDE DEF q
    <2>1. PICK a, b : a = Before(blocks, r.block) /\ b = r.at
        OBVIOUS
    <2>2. a \in Nat /\ b \in Nat
        BY <1>1, <1>2, <2>1
    <2>3. data = [k \in 1..n |-> a + b + k - 1]
        BY <2>1 DEF Bytes
    <2> HIDE DEF data
    <2>4. \A k \in 1..n : a + b + k - 1 \in Nat
        BY <2>2
    <2>5. data \in Seq(Nat) /\ Len(data) = n /\ \A k \in 1..n : data[k] = a + b + k - 1
        BY <2>3, <2>4
    <2> QED
        BY <2>1, <2>5
<1> HIDE DEF data
<1>5. /\ r.sent \o data \in Seq(Nat) /\ Len(r.sent \o data) = Len(r.sent) + n
      /\ Len(r.sent) \in Nat
      /\ \A k \in 1..(Len(r.sent) + n) :
            (r.sent \o data)[k] = IF k <= Len(r.sent) THEN r.sent[k] ELSE data[k - Len(r.sent)]
    <2>1. r.sent \in Seq(Nat) /\ data \in Seq(Nat) /\ Len(data) = n
        BY <1>2, <1>4
    <2>2. \A s, d \in Seq(Nat) :
             /\ s \o d \in Seq(Nat) /\ Len(s \o d) = Len(s) + Len(d) /\ Len(s) \in Nat
             /\ \A k \in 1..(Len(s) + Len(d)) :
                   (s \o d)[k] = IF k <= Len(s) THEN s[k] ELSE d[k - Len(s)]
        OBVIOUS
    <2> HIDE DEF q
    <2> QED
        BY <2>1, <2>2
<1>6. /\ q \in FileRequest
      /\ q.block = r.block /\ q.at = r.at + n /\ q.pc = pc /\ q.kind = r.kind /\ q.spec = r.spec
      /\ q.promised = r.promised /\ q.first = r.first /\ q.remain = r.remain - n
      /\ q.sent = r.sent \o data
    <2> DEFINE sent == r.sent \o data
    <2>1. q = [r EXCEPT !.at = r.at + n, !.remain = r.remain - n, !.pc = pc, !.sent = sent]
        OBVIOUS
    <2>2. sent \in Seq(Nat) /\ r.at + n \in Nat /\ r.remain - n \in Nat
        BY <1>2, <1>5
    <2> HIDE DEF q, sent
    <2>3. /\ q \in FileRequest
          /\ q.block = r.block /\ q.at = r.at + n /\ q.pc = pc /\ q.kind = r.kind
          /\ q.spec = r.spec /\ q.promised = r.promised /\ q.first = r.first
          /\ q.remain = r.remain - n /\ q.sent = sent
        BY <1>2, <2>1, <2>2 DEF FileRequest
    <2> QED
        BY <2>3 DEF sent
<1> HIDE DEF q
<1>7. FirstByte(q) = FirstByte(r) /\ FirstByte(r) \in Nat
    BY <1>2, <1>6 DEF FirstByte, FileRequest, FileOK, PromiseOK
<1>8. FileOK(q)
    <2>1. PromiseOK(q)
        BY <1>2, <1>6, <1>7 DEF FileOK, PromiseOK
    <2>2. /\ Before(blocks, r.block) + r.at = FirstByte(r) + Len(r.sent)
          /\ Len(r.sent) = r.promised - r.remain /\ r.remain <= r.promised
          /\ \A k \in 1..Len(r.sent) : r.sent[k] = FirstByte(r) + k - 1
        BY <1>2 DEF FileOK
    <2>3. Before(blocks, q.block) + q.at = FirstByte(q) + Len(q.sent)
        <3>1. Before(blocks, r.block) \in Nat /\ Len(r.sent) \in Nat /\ FirstByte(r) \in Nat /\ r.at \in Nat
            BY <1>1, <1>2, <1>5, <1>7
        <3>2. \A a, b, c, d \in Nat : a + b = c + d => a + (b + n) = c + (d + n)
            OBVIOUS
        <3>3. Before(blocks, r.block) + (r.at + n) = FirstByte(r) + (Len(r.sent) + n)
            <4> DEFINE a == Before(blocks, r.block)
                       b == r.at
                       c == FirstByte(r)
                       d == Len(r.sent)
            <4>1. a \in Nat /\ b \in Nat /\ c \in Nat /\ d \in Nat /\ a + b = c + d
                BY <2>2, <3>1
            <4> HIDE DEF a, b, c, d
            <4>2. a + (b + n) = c + (d + n)
                BY <4>1, <3>2
            <4> QED
                BY <4>2 DEF a, b, c, d
        <3> QED
            BY <1>5, <1>6, <1>7, <3>3
    <2>4. ASSUME NEW k \in 1..Len(q.sent) PROVE q.sent[k] = FirstByte(q) + k - 1
        <3>1. CASE k <= Len(r.sent)
            <4>1. k \in 1..Len(r.sent) /\ k \in 1..(Len(r.sent) + n)
                BY <1>5, <1>6, <3>1
            <4>2. q.sent[k] = r.sent[k]
                BY <1>5, <1>6, <3>1, <4>1
            <4> QED
                BY <1>7, <2>2, <4>1, <4>2
        <3>2. CASE k > Len(r.sent)
            <4> PICK s, b, i : s = Len(r.sent) /\ b = Before(blocks, r.block) /\ i = k - Len(r.sent)
                OBVIOUS
            <4>0. s \in Nat /\ Len(q.sent) = s + n /\ k \in 1..(s + n) /\ k > s /\ b \in Nat /\ r.at \in Nat
                BY <1>1, <1>2, <1>5, <1>6, <3>2
            <4>1. i \in 1..n /\ ~(k <= s) /\ k = s + i
                BY <4>0
            <4>3. q.sent[k] = data[i]
                BY <1>5, <1>6, <4>0, <4>1
            <4>4. data[i] = b + r.at + i - 1
                BY <1>4, <4>1
            <4>5. b + r.at = FirstByte(q) + s /\ FirstByte(q) \in Nat
                BY <1>7, <2>2
            <4> PICK f, at : f = FirstByte(q) /\ at = r.at
                OBVIOUS
            <4>6. \A x, y, z, u, v \in Nat : x + y = z + u => x + y + v - 1 = z + (u + v) - 1
                OBVIOUS
            <4>7. b \in Nat /\ at \in Nat /\ f \in Nat /\ s \in Nat /\ i \in Nat /\ b + at = f + s
                BY <4>0, <4>1, <4>5
            <4>8. b + at + i - 1 = f + (s + i) - 1
                BY <4>6, <4>7
            <4> QED
                BY <4>1, <4>3, <4>4, <4>8
        <3> QED
            BY <1>5, <1>6, <3>1, <3>2
    <2>5. q.at <= blocks[q.block] /\ q.remain <= q.promised /\ Len(q.sent) = q.promised - q.remain
        <3>1. blocks[r.block] \in Nat /\ Len(r.sent) \in Nat
            BY <1>1, <1>2, <1>5
        <3>4. \A a, b \in Nat : n <= b - a => a + n <= b
            OBVIOUS
        <3>5. \A a, b, c \in Nat : n <= a /\ c = b - a /\ a <= b => a - n <= b /\ c + n = b - (a - n)
            OBVIOUS
        <3>2. r.at + n <= blocks[r.block]
            BY <1>2, <3>1, <3>4
        <3>3. r.remain - n <= r.promised /\ Len(r.sent) + n = r.promised - (r.remain - n)
            BY <1>2, <2>2, <3>1, <3>5
        <3> QED
            BY <1>5, <1>6, <3>2, <3>3
    <2>6. (q.pc = "sent" => q.remain = 0) /\ (q.pc = "send" /\ q.kind = "range" => q.remain > 0)
        BY <1>2, <1>6
    <2> QED
        BY <2>1, <2>3, <2>4, <2>5, <2>6 DEF FileOK
<1>9. PICK s : s = q
    OBVIOUS
<1>10. DownloadOK(s)'
    <2>1. DownloadOK(s)
        BY <1>6, <1>8, <1>9 DEF DownloadOK
    <2> QED
        BY <2>1, StaysOK
<1>11. req'[p] = s /\ req' = [req EXCEPT ![p] = s]
    BY <1>3, <1>9 DEF DownloadsInv
<1> QED
    BY <1>10, <1>11, OneRequest DEF DownloadsInv

LEMMA SentKeeps ==
    ASSUME DownloadsInv, UNCHANGED <<blocks, dir, worker, zip, token>>,
           NEW p \in Procs, req[p] \in FileRequest, FileOK(req[p]), Sent(p), req[p].remain = 0
    PROVE  DownloadsInv'
<1> PICK r : r = req[p]
    OBVIOUS
<1> DEFINE q == [r EXCEPT !.pc = "sent"]
<1>1. req' = [req EXCEPT ![p] = q]
    BY DEF Sent
<1>2. /\ q \in FileRequest /\ q.pc = "sent"
      /\ q.block = r.block /\ q.at = r.at /\ q.kind = r.kind /\ q.spec = r.spec
      /\ q.promised = r.promised /\ q.first = r.first /\ q.remain = r.remain /\ q.sent = r.sent
    BY DEF FileRequest
<1> HIDE DEF q
<1>3. FirstByte(q) = FirstByte(r)
    BY <1>2 DEF FirstByte, FileRequest
<1>4. FileOK(q)
    BY <1>2, <1>3 DEF FileOK, PromiseOK
<1>5. PICK s : s = q
    OBVIOUS
<1>6. DownloadOK(s)'
    <2>1. DownloadOK(s)
        BY <1>2, <1>4, <1>5 DEF DownloadOK
    <2> QED
        BY <2>1, StaysOK
<1>7. req'[p] = s /\ req' = [req EXCEPT ![p] = s]
    BY <1>1, <1>5 DEF DownloadsInv
<1> QED
    BY <1>6, <1>7, OneRequest DEF DownloadsInv

\* The place of a request tells what it has.
LEMMA WhichRequest ==
    ASSUME DownloadsInv, NEW p \in Procs
    PROVE  /\ req[p].pc \in {"info"} \cup Ops => /\ req[p] \in InfoRequest
                                                 /\ req[p].ended => worker[req[p].token].pc = "done"
           /\ req[p].pc \in {"send", "sent"} => req[p] \in FileRequest /\ FileOK(req[p])
           /\ req[p].pc \in {"sendzip", "sentzip"} => ZipRequest(req[p]) /\ ZipOK(req[p])
<1>1. DownloadOK(req[p])
    BY DEF DownloadsInv
<1>2. /\ NoRequest.pc = "idle"
      /\ req[p] \in InfoRequest => req[p].pc \in {"info"} \cup Ops
      /\ req[p] \in FileRequest => req[p].pc \in {"send", "sent"}
      /\ ZipRequest(req[p]) => req[p].pc \in {"sendzip", "sentzip"}
    BY DEF NoRequest, InfoRequest, FileRequest, ZipRequest
<1>3. "idle" \notin {"info"} \cup Ops \cup {"send", "sent", "sendzip", "sentzip"}
      /\ ({"info"} \cup Ops) \cap {"send", "sent", "sendzip", "sentzip"} = {}
    BY DEF Ops
<1> QED
    BY <1>1, <1>2, <1>3 DEF DownloadOK

\* seaf_web_at_manager_query_access_token()
LEMMA QueryKeeps ==
    ASSUME DownloadsInv, DownloadsAssumption, NEW p \in Procs, NEW t \in Tokens,
           NEW spec \in Specs \cup {Nothing}, Ask(p, t, spec)
    PROVE  DownloadsInv'
<1>1. PICK q : q = [pc |-> "info", token |-> t, info |-> token[t], spec |-> spec,
                    ended |-> worker[t].pc = "done"]
    OBVIOUS
<1>2. /\ token[t] # Nothing /\ req' = [req EXCEPT ![p] = q]
      /\ UNCHANGED <<blocks, dir, token, worker, zip>>
    BY <1>1 DEF Ask
<1>3. token[t] \in Infos
    BY <1>2 DEF DownloadsInv
<1>4. q \in InfoRequest /\ (q.ended => worker[q.token].pc = "done")
    BY <1>1, <1>3 DEF InfoRequest
<1>5. DownloadOK(q)'
    <2>1. DownloadOK(q)
        BY <1>4 DEF DownloadOK
    <2> QED
        BY <1>2, <2>1, StaysOK
<1>6. req'[p] = q
    BY <1>2 DEF DownloadsInv
<1> QED
    BY <1>2, <1>5, <1>6, OneRequest DEF DownloadsInv

LEMMA UseInfoKeeps ==
    ASSUME DownloadsInv, NEW p \in Procs, UseInfo(p)
    PROVE  DownloadsInv'
<1>1. PICK r : r = req[p]
    OBVIOUS
<1>2. /\ r.pc = "info" /\ r \in InfoRequest /\ (r.ended => worker[r.token].pc = "done")
      /\ UNCHANGED <<blocks, dir, worker, zip>>
    BY <1>1, WhichRequest DEF UseInfo
<1>3. CASE Ends(p) /\ UNCHANGED token
    BY <1>2, <1>3, EndsKeeps
<1>4. CASE /\ token' = IF r.info.once THEN [token EXCEPT ![r.token] = Nothing] ELSE token
           /\ req' = [req EXCEPT ![p].pc = r.info.op]
    <2>1. token' \in [Tokens -> {Nothing} \cup Infos]
        BY <1>2, <1>4 DEF DownloadsInv, InfoRequest
    <2>2. PICK q : q = [r EXCEPT !.pc = r.info.op]
        OBVIOUS
    <2>3. /\ q \in InfoRequest /\ q.ended = r.ended /\ q.token = r.token
        BY <1>2, <2>2 DEF InfoRequest, Infos
    <2>4. req' = [req EXCEPT ![p] = q]
        BY <1>1, <1>4, <2>2
    <2>5. DownloadOK(q)'
        <3>1. DownloadOK(q)
            BY <1>2, <2>3 DEF DownloadOK
        <3> QED
            BY <1>2, <3>1, StaysOK
    <2>6. req'[p] = q
        BY <2>4 DEF DownloadsInv
    <2> QED
        BY <1>2, <2>1, <2>4, <2>5, <2>6, OneRequest
<1> QED
    BY <1>1, <1>3, <1>4 DEF UseInfo

\* access_cb(), do_file(), do_file_range(), do_block()
LEMMA StartsKeep ==
    ASSUME DownloadsAssumption, DownloadsInv, NEW p \in Procs,
           NoKey(p) \/ StartFile(p) \/ StartRange(p) \/ StartBlockReply(p)
    PROVE  DownloadsInv'
<1>0. /\ UNCHANGED <<blocks, dir, worker, zip, token>> /\ blocks \in Blocks
      /\ Total(blocks) \in 1..(Width - 1) /\ Width \in Nat
      /\ \A i \in 1..Len(blocks) : /\ blocks[i] \in Nat \ {0} /\ Before(blocks, i) \in Nat
                                   /\ Before(blocks, i) + blocks[i] <= Total(blocks)
    BY TheFile DEF NoKey, StartFile, StartRange, StartBlockReply, Unmoved, DownloadsInv,
                   DownloadsAssumption
<1>1. req[p] \in InfoRequest
    BY WhichRequest DEF NoKey, StartFile, StartRange, StartBlockReply, Asking, Ops
<1>2. CASE Ends(p)
    BY <1>0, <1>2, EndsKeeps
<1>3. CASE StartFile(p)
    <2>1. Reply(p, "whole", 0, Total(blocks) - 1)
        BY <1>3 DEF StartFile
    <2>2. Total(blocks) - 1 \in Nat /\ 0 <= Total(blocks) - 1 /\ Total(blocks) - 1 < Total(blocks)
        BY <1>0
    <2>3. PICK to : to = Total(blocks) - 1
        OBVIOUS
    <2> QED
        BY <1>0, <1>1, <2>1, <2>2, <2>3, ReplyKeeps
<1>4. CASE StartRange(p) /\ ~Ends(p)
    <2>1. PICK spec, from, to :
             /\ spec = req[p].spec
             /\ from = RangeStart(spec, Total(blocks)) /\ to = RangeEnd(spec, Total(blocks))
        OBVIOUS
    <2>2. GoodRange(spec, Total(blocks)) /\ Reply(p, "range", from, to) /\ spec # Nothing
        BY <1>4, <2>1 DEF StartRange, Whole
    <2>3. spec \in Specs
        BY <1>1, <2>1, <2>2 DEF InfoRequest
    <2>4. from \in Nat /\ to \in Nat /\ from <= to /\ to <= Total(blocks) - 1
        BY <1>0, <2>1, <2>2, <2>3, GoodRangeIsAsked
    <2>5. to < Total(blocks)
        BY <1>0, <2>4
    <2> QED
        BY <1>0, <1>1, <2>1, <2>2, <2>3, <2>4, <2>5, ReplyKeeps
<1>5. CASE StartBlockReply(p)
    <2>1. PICK i \in 1..Len(blocks) :
             Reply(p, "block", Before(blocks, i), Before(blocks, i) + blocks[i] - 1)
        BY <1>5 DEF StartBlockReply
    <2>2. PICK from, to : from = Before(blocks, i) /\ to = Before(blocks, i) + blocks[i] - 1
        OBVIOUS
    <2>3. from \in Nat /\ to \in Nat /\ from <= to /\ to < Total(blocks)
        BY <1>0, <2>2
    <2> QED
        BY <1>0, <1>1, <2>1, <2>2, <2>3, ReplyKeeps
<1> QED
    BY <1>2, <1>3, <1>4, <1>5 DEF NoKey, StartRange

\* write_data_cb(), write_file_range_cb(), write_block_data_cb()
LEMMA SendsKeep ==
    ASSUME DownloadsAssumption, DownloadsInv, NEW p \in Procs,
           SendWhole(p) \/ SendRange(p) \/ SendBlock(p)
    PROVE  DownloadsInv'
<1> PICK r : r = req[p]
    OBVIOUS
<1> PICK b, start, size, len, at, remain, promised, from, here :
       /\ b = blocks[r.block] /\ start = Before(blocks, r.block) /\ size = Total(blocks)
       /\ len = Len(r.sent) /\ at = r.at /\ remain = r.remain /\ promised = r.promised
       /\ from = FirstByte(r) /\ here = b - at
    OBVIOUS
<1>0. /\ UNCHANGED <<blocks, dir, worker, zip, token>> /\ Buffer \in Nat \ {0}
      /\ Len(blocks) \in Nat /\ size \in Nat
      /\ \A i \in 1..Len(blocks) : /\ blocks[i] \in Nat \ {0} /\ Before(blocks, i) \in Nat
                                   /\ Before(blocks, i) + blocks[i] <= size
                                   /\ Before(blocks, i + 1) = Before(blocks, i) + blocks[i]
    BY TheFile DEF SendWhole, SendRange, SendBlock, Unmoved, DownloadsInv, DownloadsAssumption
<1>1. r \in FileRequest /\ FileOK(r) /\ r.pc = "send"
    BY WhichRequest DEF SendWhole, SendRange, SendBlock, Sending
<1>20. r.block \in 1..Len(blocks) /\ at \in Nat /\ remain \in Nat /\ promised \in Nat
       /\ r.sent \in Seq(Nat)
    BY <1>1 DEF FileRequest
<1>21. from \in Nat /\ at <= b /\ remain <= promised /\ start + at = from + len
       /\ len = promised - remain
    BY <1>1 DEF FileOK, PromiseOK
<1>22. b \in Nat \ {0} /\ start \in Nat /\ start + b <= size
    BY <1>0, <1>20
<1>23. len \in Nat
    BY <1>20
<1>2. /\ at \in Nat /\ remain \in Nat /\ promised \in Nat /\ len \in Nat /\ b \in Nat \ {0}
      /\ start \in Nat /\ size \in Nat /\ from \in Nat /\ at <= b /\ remain <= promised
      /\ start + at = from + len /\ len = promised - remain /\ start + b <= size
      /\ here = b - at
    BY <1>0, <1>20, <1>21, <1>22, <1>23
<1>24. ASSUME r.block = Len(blocks) PROVE size = start + b
    <2>1. Before(blocks, r.block + 1) = start + b
        BY <1>0, <1>20
    <2> QED
        BY <1>24, <2>1 DEF Total
<1>3. InBlock(p) = here /\ here \in Nat
    <2>1. here \in Nat
        BY <1>2
    <2> QED
        BY <2>1 DEF InBlock
<1>4. ASSUME NEW n \in Nat PROVE Least(Buffer, n) \in Nat /\ Least(Buffer, n) <= n
    BY <1>0 DEF Least
<1>5. CASE SendWhole(p)
    <2>1. r.kind = "whole" /\ from = 0 /\ promised = size
        BY <1>1, <1>5 DEF SendWhole, Sending, FileOK, PromiseOK, FirstByte
    <2>2. CASE here > 0
        <3>1. here <= remain
            BY <1>2, <2>1
        <3>2. PICK n : n = Least(Buffer, here)
            OBVIOUS
        <3>3. n \in Nat /\ n <= here /\ n <= remain
            BY <1>2, <1>3, <1>4, <3>1, <3>2
        <3>4. Send(p, n, "send")
            BY <1>3, <1>5, <2>2, <3>2 DEF SendWhole
        <3> QED
            BY <1>0, <1>1, <1>3, <2>1, <3>3, <3>4, PieceKeeps
    <2>3. CASE here = 0 /\ r.block < Len(blocks)
        <3>1. NextBlock(p)
            BY <1>3, <1>5, <2>3 DEF SendWhole
        <3> QED
            BY <1>0, <1>1, <1>3, <2>1, <2>3, <3>1, NextBlockKeeps
    <2>4. CASE here = 0 /\ ~(r.block < Len(blocks))
        <3>1. Sent(p)
            BY <1>3, <1>5, <2>4 DEF SendWhole
        <3>2. r.block = Len(blocks) /\ at = b
            <4>1. r.block = Len(blocks)
                BY <1>0, <1>20, <2>4
            <4>2. b - at = 0
                BY <1>2, <2>4
            <4>3. \A x, y \in Nat : x - y = 0 => y = x
                OBVIOUS
            <4>4. at = b
                BY <1>2, <4>2, <4>3
            <4> QED
                BY <4>1, <4>4
        <3>3. size = start + b
            BY <1>24, <3>2
        <3>4. remain = 0
            BY <1>2, <2>1, <3>2, <3>3
        <3> QED
            BY <1>0, <1>1, <3>1, <3>4, SentKeeps
    <2> QED
        BY <1>3, <2>2, <2>3, <2>4
<1>6. CASE SendRange(p)
    <2>1. r.kind = "range" /\ remain > 0 /\ from + promised <= size
        BY <1>1, <1>6 DEF SendRange, Sending, FileOK, PromiseOK
    <2>2. CASE here = 0
        <3>1. NextBlock(p)
            BY <1>3, <1>6, <2>2 DEF SendRange
        <3>2. start + b < size
            BY <1>2, <2>1, <2>2
        <3>3. r.block < Len(blocks)
            <4> SUFFICES ASSUME r.block = Len(blocks) PROVE FALSE
                BY <1>0, <1>20
            <4>1. size = start + b
                BY <1>24
            <4> QED
                BY <1>2, <3>2, <4>1
        <3> QED
            BY <1>0, <1>1, <1>3, <2>1, <2>2, <3>1, <3>3, NextBlockKeeps
    <2>3. CASE here # 0
        <3>1. PICK n : n = Least(Buffer, Least(InBlock(p), req[p].remain))
            OBVIOUS
        <3>2. n \in Nat /\ n <= here /\ n <= remain
            <4> PICK m : m = Least(here, remain)
                OBVIOUS
            <4>1. m \in Nat /\ m <= here /\ m <= remain
                BY <1>2, <1>3 DEF Least
            <4>2. n = Least(Buffer, m)
                BY <1>3, <3>1
            <4>3. n \in Nat /\ n <= m
                BY <1>4, <4>1, <4>2
            <4> QED
                BY <1>2, <1>3, <4>1, <4>3
        <3>3. Send(p, n, IF n = remain THEN "sent" ELSE "send")
            BY <1>3, <1>6, <2>3, <3>1 DEF SendRange
        <3>4. CASE n = remain
            <4>1. Send(p, n, "sent")
                BY <3>3, <3>4
            <4> QED
                BY <1>0, <1>1, <1>3, <3>2, <3>4, <4>1, PieceKeeps
        <3>5. CASE n # remain
            <4>1. Send(p, n, "send")
                BY <3>3, <3>5
            <4> QED
                BY <1>0, <1>1, <1>3, <3>2, <3>5, <4>1, PieceKeeps
        <3> QED
            BY <3>4, <3>5
    <2> QED
        BY <2>2, <2>3
<1>7. CASE SendBlock(p)
    <2>1. r.kind = "block" /\ from = start /\ promised = b
        BY <1>1, <1>7 DEF SendBlock, Sending, FileOK, PromiseOK, FirstByte
    <2>2. here = remain
        BY <1>2, <2>1
    <2>3. CASE here > 0
        <3>1. PICK n : n = Least(Buffer, here)
            OBVIOUS
        <3>2. n \in Nat /\ n <= here /\ n <= remain
            BY <1>3, <1>4, <2>2, <3>1
        <3>3. Send(p, n, "send")
            BY <1>3, <1>7, <2>3, <3>1 DEF SendBlock
        <3> QED
            BY <1>0, <1>1, <1>3, <2>1, <3>2, <3>3, PieceKeeps
    <2>4. CASE ~(here > 0)
        <3>1. Sent(p) /\ remain = 0
            BY <1>3, <1>7, <2>2, <2>4 DEF SendBlock
        <3> QED
            BY <1>0, <1>1, <3>1, SentKeeps
    <2> QED
        BY <2>3, <2>4
<1> QED
    BY <1>5, <1>6, <1>7

\* start_download_zip_file(), write_dir_data_cb()
LEMMA ZipsKeep ==
    ASSUME DownloadsAssumption, DownloadsInv, NEW p \in Procs, StartZip(p) \/ SendZip(p)
    PROVE  DownloadsInv'
<1> PICK r : r = req[p]
    OBVIOUS
<1>0. /\ UNCHANGED <<blocks, dir, worker, zip, token>> /\ Buffer \in Nat \ {0} /\ dir \in Nat
      /\ \A t \in Tokens : worker[t].pc = "done" => zip[t] = dir + 1
    BY DEF StartZip, SendZip, DownloadsInv, DownloadsAssumption, TaskOK
<1>1. CASE StartZip(p) /\ Ends(p)
    BY <1>0, <1>1, EndsKeeps
<1>2. CASE StartZip(p) /\ ~Ends(p)
    <2>1. PICK q : q = [pc |-> "sendzip", token |-> r.token, ended |-> r.ended,
                        promised |-> zip[r.token], remain |-> zip[r.token], sent |-> 0]
        OBVIOUS
    <2>2. r.pc = "zip" /\ req' = [req EXCEPT ![p] = q]
        BY <1>2, <2>1 DEF StartZip
    <2>3. r.token \in Tokens /\ (r.ended => worker[r.token].pc = "done")
        BY <2>2, WhichRequest DEF Ops, InfoRequest
    <2>4. ZipRequest(q) /\ ZipOK(q)
        BY <1>0, <2>1, <2>3 DEF ZipRequest, ZipOK
    <2>5. DownloadOK(q)'
        <3>1. DownloadOK(q)
            BY <2>4 DEF DownloadOK
        <3> QED
            BY <1>0, <3>1, StaysOK
    <2>6. req'[p] = q
        BY <2>2 DEF DownloadsInv
    <2> QED
        BY <1>0, <2>2, <2>5, <2>6, OneRequest DEF DownloadsInv
<1>3. CASE SendZip(p)
    <2> DEFINE n == Least(Buffer, zip[r.token] - r.sent)
               pc == IF r.remain = n THEN "sentzip" ELSE "sendzip"
    <2>1. /\ r.pc = "sendzip" /\ n > 0
          /\ req' = [req EXCEPT ![p].sent = @ + n, ![p].remain = @ - n, ![p].pc = pc]
        BY <1>3 DEF SendZip
    <2>2. ZipRequest(r) /\ ZipOK(r)
        BY <2>1, WhichRequest
    <2>3. PICK q : q = [r EXCEPT !.sent = @ + n, !.remain = @ - n, !.pc = pc]
        OBVIOUS
    <2>4. req' = [req EXCEPT ![p] = q]
        BY <2>1, <2>3
    <2>5. pc \in {"sendzip", "sentzip"}
        OBVIOUS
    <2> HIDE DEF pc
    <2>6. /\ ZipRequest(q) /\ q.token = r.token /\ q.ended = r.ended /\ q.pc = pc
          /\ q.sent = r.sent + n /\ q.remain = r.remain - n
        BY <2>2, <2>3, <2>5 DEF ZipRequest
    <2>7. ZipOK(q)
        <3> SUFFICES ASSUME r.ended
                     PROVE  /\ worker[q.token].pc = "done"
                            /\ q.sent \in Nat /\ q.remain \in Nat /\ q.sent + q.remain = dir + 1
                            /\ q.pc = "sentzip" => q.remain = 0
            BY <2>6 DEF ZipOK
        <3>1. /\ worker[r.token].pc = "done" /\ r.token \in Tokens
              /\ r.sent \in Nat /\ r.remain \in Nat /\ r.sent + r.remain = dir + 1
            BY <2>2 DEF ZipOK, ZipRequest
        <3>2. zip[r.token] - r.sent = r.remain
            BY <1>0, <3>1
        <3>3. n \in Nat /\ n <= r.remain
            BY <1>0, <3>1, <3>2 DEF Least
        <3> HIDE DEF n
        <3>4. pc = "sentzip" => r.remain = n
            BY DEF pc
        <3> QED
            BY <1>0, <2>6, <3>1, <3>3, <3>4
    <2>8. DownloadOK(q)'
        <3>1. DownloadOK(q)
            BY <2>6, <2>7 DEF DownloadOK
        <3> QED
            BY <1>0, <3>1, StaysOK
    <2>9. req'[p] = q
        BY <2>4 DEF DownloadsInv
    <2> QED
        BY <1>0, <2>4, <2>8, <2>9, OneRequest DEF DownloadsInv
<1> QED
    BY <1>1, <1>2, <1>3

----------------------------------------------------------------------------

LEMMA DownloadsStart == ASSUME DownloadsInit PROVE DownloadsInv
<1>1. /\ blocks \in Blocks /\ dir \in Dirs
      /\ token = [t \in Tokens |-> Nothing] /\ worker = [t \in Tokens |-> [pc |-> "new"]]
      /\ zip = [t \in Tokens |-> Nothing] /\ req = [p \in Procs |-> NoRequest]
    BY DEF DownloadsInit
<1>2. worker \in [Tokens -> Working \cup Waiting]
    BY <1>1 DEF Waiting
<1>3. \A t \in Tokens : TaskOK(t)
    BY <1>1 DEF TaskOK
<1>4. \A p \in Procs : DownloadOK(req[p])
    BY <1>1 DEF DownloadOK
<1> QED
    BY <1>1, <1>2, <1>3, <1>4 DEF DownloadsInv

LEMMA DownloadsGoOn ==
    ASSUME DownloadsAssumption, DownloadsInv, [DownloadsNext]_downVars
    PROVE  DownloadsInv'
<1>1. CASE \E t \in Tokens :
              \/ \E op \in Ops, once \in BOOLEAN : GetToken(t, op, once)
              \/ StartZipTask(t) \/ ZipRefused(t) \/ Expire(t)
    BY <1>1, TokensKeep
<1>2. CASE \E t \in Tokens : Task(t)
    BY <1>2, TaskKeeps
<1>3. CASE \/ \E t \in Tokens : ScanProgress(t) \/ CancelZipTask(t)
           \/ SetPasswd \/ DropPasswd \/ UNCHANGED downVars
    <2>1. UNCHANGED <<blocks, dir, worker, zip, req, token>>
        BY <1>3 DEF ScanProgress, CancelZipTask, SetPasswd, DropPasswd, downVars
    <2> QED
        BY <2>1, SameDownloads DEF DownloadsInv
<1>4. CASE \E p \in Procs, t \in Tokens, spec \in Specs \cup {Nothing} : Ask(p, t, spec)
    BY <1>4, QueryKeeps
<1>5. CASE \E p \in Procs : UseInfo(p)
    BY <1>5, UseInfoKeeps
<1>6. CASE \E p \in Procs : NoKey(p) \/ StartFile(p) \/ StartRange(p) \/ StartBlockReply(p)
    BY <1>6, StartsKeep
<1>7. CASE \E p \in Procs : SendWhole(p) \/ SendRange(p) \/ SendBlock(p)
    BY <1>7, SendsKeep
<1>8. CASE \E p \in Procs : StartZip(p) \/ SendZip(p)
    BY <1>8, ZipsKeep
<1>9. CASE \E p \in Procs : EndZip(p) \/ EndFile(p)
    <2>1. PICK p \in Procs : Ends(p) /\ UNCHANGED <<blocks, dir, worker, zip, token>>
        BY <1>9 DEF EndZip, EndFile
    <2> QED
        BY <2>1, EndsKeeps
<1> QED
    BY <1>1, <1>2, <1>3, <1>4, <1>5, <1>6, <1>7, <1>8, <1>9 DEF DownloadsNext, Ops

\* Bytes that follow each other are the offsets between the first and the last.
LEMMA BytesBetween ==
    ASSUME NEW sent \in Seq(Nat), NEW from \in Nat, NEW n \in Nat, Len(sent) = n,
           \A k \in 1..n : sent[k] = from + k - 1
    PROVE  ToSet(sent) = from..(from + n - 1)
<1>1. ToSet(sent) = {sent[k] : k \in 1..n}
    <2>1. DOMAIN sent = 1..n
        OBVIOUS
    <2> QED
        BY <2>1 DEF ToSet
<1>2. \A x \in from..(from + n - 1) : x - from + 1 \in 1..n /\ sent[x - from + 1] = x
    OBVIOUS
<1>3. \A k \in 1..n : sent[k] \in from..(from + n - 1)
    OBVIOUS
<1> QED
    BY <1>1, <1>2, <1>3

LEMMA InvSends == ASSUME DownloadsAssumption, DownloadsInv PROVE SentIsAsked
<1>1. BytesAsked
    <2> SUFFICES ASSUME NEW p \in Procs, req[p].pc = "sent"
                 PROVE  LET r == req[p]
                            size == Total(blocks)
                            asked == CASE r.kind = "whole" -> 0..(size - 1)
                                       [] r.kind = "range" -> Asked(r.spec, size)
                                       [] r.kind = "block" ->
                                            ToSet(Bytes(blocks, r.first, 0, blocks[r.first]))
                        IN /\ Len(r.sent) = r.promised
                           /\ ToSet(r.sent) = asked
                           /\ \A k \in 1..(Len(r.sent) - 1) : r.sent[k + 1] = r.sent[k] + 1
        BY DEF BytesAsked
    <2>1. PICK r : r = req[p]
        OBVIOUS
    <2>2. PICK size : size = Total(blocks)
        OBVIOUS
    <2>3. r \in FileRequest /\ FileOK(r) /\ r.pc = "sent"
        BY <2>1, WhichRequest
    <2>4. PICK from : from = FirstByte(r)
        OBVIOUS
    <2>5. /\ r.sent \in Seq(Nat) /\ r.promised \in Nat /\ from \in Nat /\ Len(r.sent) = r.promised
          /\ \A k \in 1..r.promised : r.sent[k] = from + k - 1
        BY <2>3, <2>4 DEF FileRequest, FileOK, PromiseOK
    <2>6. ToSet(r.sent) = from..(from + r.promised - 1)
        BY <2>5, BytesBetween
    <2>7. \A k \in 1..(Len(r.sent) - 1) : r.sent[k + 1] = r.sent[k] + 1
        <3> TAKE k \in 1..(Len(r.sent) - 1)
        <3>1. k \in 1..r.promised /\ k + 1 \in 1..r.promised
            BY <2>5
        <3>2. r.sent[k] = from + k - 1 /\ r.sent[k + 1] = from + (k + 1) - 1
            BY <2>5, <3>1
        <3>3. \A a, c \in Nat : a + (c + 1) - 1 = (a + c - 1) + 1
            OBVIOUS
        <3> QED
            BY <2>5, <3>1, <3>2, <3>3
    <2>8. r.kind = "whole" => ToSet(r.sent) = 0..(size - 1)
        <3>1. r.kind = "whole" => from = 0 /\ r.promised = size
            BY <2>2, <2>3, <2>4 DEF FirstByte, FileOK, PromiseOK
        <3> QED
            BY <2>5, <2>6, <3>1
    <2>9. r.kind = "range" => ToSet(r.sent) = Asked(r.spec, size)
        <3> SUFFICES ASSUME r.kind = "range" PROVE ToSet(r.sent) = Asked(r.spec, size)
            OBVIOUS
        <3>1. /\ r.spec \in Specs /\ GoodRange(r.spec, size)
              /\ from = RangeStart(r.spec, size)
              /\ r.promised = RangeEnd(r.spec, size) - from + 1
            BY <2>2, <2>3, <2>4 DEF FirstByte, FileOK, PromiseOK
        <3>2. size \in 1..(Width - 1)
            BY <2>2, TheFile DEF DownloadsInv
        <3>3. /\ RangeEnd(r.spec, size) \in Nat
              /\ Asked(r.spec, size) = from..RangeEnd(r.spec, size)
            BY <3>1, <3>2, GoodRangeIsAsked
        <3> QED
            BY <2>5, <2>6, <3>1, <3>3
    <2>10. r.kind = "block" =>
              ToSet(r.sent) = ToSet(Bytes(blocks, r.first, 0, blocks[r.first]))
        <3> SUFFICES ASSUME r.kind = "block"
                     PROVE  ToSet(r.sent) = ToSet(Bytes(blocks, r.first, 0, blocks[r.first]))
            OBVIOUS
        <3> DEFINE data == Bytes(blocks, r.first, 0, blocks[r.first])
        <3>1. from = Before(blocks, r.first) /\ r.promised = blocks[r.first]
            BY <2>3, <2>4 DEF FirstByte, FileOK, PromiseOK
        <3>2. /\ data \in Seq(Nat) /\ Len(data) = r.promised
              /\ \A k \in 1..r.promised : data[k] = from + k - 1
            BY <2>5, <3>1 DEF Bytes
        <3>3. ToSet(data) = from..(from + r.promised - 1)
            <4> HIDE DEF data
            <4> QED
                BY <2>5, <3>2, BytesBetween
        <3> QED
            BY <2>6, <3>3
    <2>11. r.kind \in {"whole", "range", "block"}
        BY <2>3 DEF FileRequest
    <2> QED
        BY <2>1, <2>2, <2>5, <2>7, <2>8, <2>9, <2>10, <2>11
<1>2. ZipIsWhole
    <2> SUFFICES ASSUME NEW p \in Procs, req[p].pc = "sentzip", req[p].ended
                 PROVE  req[p].sent = dir + 1
        BY DEF ZipIsWhole
    <2>1. ZipOK(req[p])
        BY WhichRequest
    <2> QED
        BY <2>1 DEF ZipOK
<1> QED
    BY <1>1, <1>2 DEF SentIsAsked

\* Complete replies have the bytes that were asked for, whatever the sizes of the blocks and
\* the numbers in Range headers, and archives of tasks that had ended are whole
\* (parse_range_val(), do_file(), do_file_range(), do_block(), pack_files()).
THEOREM RepliesAreWhole == ASSUME DownloadsAssumption PROVE DownloadsSpec => []SentIsAsked
<1>1. DownloadsInit => DownloadsInv
    BY DownloadsStart
<1>2. DownloadsInv /\ [DownloadsNext]_downVars => DownloadsInv'
    BY DownloadsGoOn
<1>3. DownloadsInv => SentIsAsked
    BY InvSends
<1> QED
    BY <1>1, <1>2, <1>3, PTL DEF DownloadsSpec
=============================================================================
