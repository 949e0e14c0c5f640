------------------------------- MODULE Uploads -------------------------------
(***************************************************************************)
(* Uploads from the web (server/upload-file.c). A request with a form arrives *)
(* in pieces that are cut anywhere, and its files and fields are put together *)
(* from them. A large file comes as a sequence of requests with one chunk     *)
(* each: the server keeps what it has got in a temporary file, whose name is  *)
(* in the table WebUploadTempFiles, and a client that got no answer, or an    *)
(* error, asks how much the server has and goes on from there.                *)
(*                                                                            *)
(* A form consists of symbols: the boundary is "b1" and "b2", a header line or *)
(* a byte is one. The chunks of a file are numbered from 0   *)
(* and a temporary file is the set of the chunks that are written in it: the  *)
(* others are holes. Posting files is external here (module LibraryOps).      *)
(***************************************************************************)
EXTENDS Integers, Sequences, FiniteSets, SequencesExt

CONSTANTS
    Forms,          \* the forms that clients send: sequences of parts
    NChunks,        \* the number of chunks of a large file
    MaxUploads,     \* bound: how often the file is uploaded
    Requests,       \* threads that may serve chunks at the same time
    Temps,          \* names of temporary files
    MaxTrouble,     \* bound: failures, crashes, answers that come too late
    None

UploadsAssumption ==
    /\ NChunks \in Nat \ {0}
    /\ None \notin Temps /\ \A chunks \in SUBSET (0..(NChunks - 1)) : chunks # None

VARIABLES
    form,           \* the form that is sent, or None
    todo,           \* the symbols that have not arrived
    recv,           \* RecvFSM
    posted,         \* the files and fields of the request, posted
    clean,          \* no piece ended where that matters
    row,            \* the rows of WebUploadTempFiles for the path, in their order
    temp,           \* the temporary files: the chunks they have
    chunk,          \* the requests with a chunk
    client,         \* the client of a large file
    saved,          \* what has been posted: sets of chunks
    split,          \* a request that the client has given up has changed the rows
    trouble

formVars == <<form, todo, recv, posted, clean>>
chunkVars == <<row, temp, chunk, client, saved, split, trouble>>
vars == <<form, todo, recv, posted, clean, row, temp, chunk, client, saved, split, trouble>>

----------------------------------------------------------------------------
\* Forms

EOL == <<"CR", "LF">>
Boundary == <<"b1", "b2">>

\* A part is a field or a file, and the delimiter after it ends it.
Part(p) == <<"--">> \o Boundary \o EOL \o <<p.kind>> \o EOL \o EOL \o p.data \o EOL
Text(f) == FoldLeft(LAMBDA s, p : s \o Part(p), << >>, f) \o <<"--">> \o Boundary \o <<"--">> \o EOL

Fresh == [state |-> "init", input |-> None, line |-> << >>, value |-> None, file |-> << >>,
          crlf |-> FALSE, files |-> << >>, no_line |-> TRUE]

NoReq == [pc |-> "idle"]

Init ==
    /\ form \in Forms \cup {None}
    /\ todo = IF form = None THEN << >> ELSE Text(form)
    /\ recv = Fresh
    /\ posted = None
    /\ clean = TRUE
    /\ row = << >>
    /\ temp = [t \in Temps |-> None]
    /\ chunk = [r \in Requests |-> NoReq]
    /\ client = [pc |-> IF form = None THEN "ask" ELSE "none", at |-> 0, tries |-> 1]
    /\ split = FALSE
    /\ saved = << >>
    /\ trouble = 0

Holds(s, pat) == \E i \in 1..(Len(s) - 1) : s[i] = pat[1] /\ s[i + 1] = pat[2]
Bounded(s) == Holds(s, Boundary)

\* evbuffer_readln() with EVBUFFER_EOL_CRLF_STRICT (external: libevent)
LineLength(s) ==
    CHOOSE n \in 0..(Len(s) - 2) :
        /\ SubSeq(s, n + 1, n + 2) = EOL
        /\ \A k \in 0..(n - 1) : SubSeq(s, k + 1, k + 2) # EOL

HasLine == Holds(recv.line, EOL)
Line == SubSeq(recv.line, 1, LineLength(recv.line))
AfterLine == SubSeq(recv.line, LineLength(recv.line) + 3, Len(recv.line))

\* A piece that ends within a field, or within the delimiter after a part
CutMatters(rest) ==
    LET at == Len(Text(form)) - Len(rest)
        before == SubSeq(Text(form), 1, at)
    IN /\ rest # << >> /\ at > 3
       /\ \/ before[at] \in {"v", "w", "--", "b1", "b2"}
          \/ before[at] = "CR" /\ Len(rest) > 1 /\ rest[2] = "--"

\* A piece arrives: the callback takes it whole.
Receive(n) ==
    /\ recv.no_line /\ recv.state # "error"
    /\ n \in 1..Len(todo)
    /\ recv' = [recv EXCEPT !.line = @ \o SubSeq(todo, 1, n), !.no_line = FALSE]
    /\ todo' = SubSeq(todo, n + 1, Len(todo))
    /\ clean' = (clean /\ ~CutMatters(todo'))
    /\ UNCHANGED <<form, posted, chunkVars>>

Loop(state) == recv.state = state /\ ~recv.no_line
Same == UNCHANGED <<form, todo, posted, chunkVars>>

\* The first line, and the lines of headers, wait until they are complete.
RecvInit ==
    /\ Loop("init")
    /\ recv' = IF HasLine
               THEN [recv EXCEPT !.line = AfterLine,
                                 !.state = IF Bounded(Line) THEN "headers" ELSE "error"]
               ELSE [recv EXCEPT !.no_line = TRUE]
    /\ Same /\ UNCHANGED clean

\* parse_mime_header(): only a header line gives a name.
RecvHeaders ==
    /\ Loop("headers")
    /\ recv' =
        CASE ~HasLine -> [recv EXCEPT !.no_line = TRUE]
          [] HasLine /\ Line = << >> ->
               [recv EXCEPT !.line = AfterLine, !.state = "content", !.file = << >>]
          [] HasLine /\ Line # << >> /\ Line[1] \in {"field", "file"} ->
               [recv EXCEPT !.line = AfterLine, !.input = Line[1]]
          [] OTHER -> [recv EXCEPT !.line = AfterLine, !.state = "error"]
    /\ Same /\ UNCHANGED clean

\* add_uploaded_file(), and on to the next headers
EndsFile(fsm) ==
    [fsm EXCEPT !.files = Append(@, fsm.file), !.crlf = FALSE, !.input = None, !.state = "headers"]

\* The line break is forgotten, against PiecesVerbatim
WrittenAlone(data) == recv.file \o data

\* The line break after a line is written before the next data.
Written(data) == recv.file \o (IF recv.crlf THEN EOL ELSE << >>) \o data

\* recv_file_data(): without a line break everything that is there is data.
RecvFileData ==
    /\ Loop("content") /\ recv.input = "file"
    /\ recv' =
        IF HasLine
        THEN LET fsm == [recv EXCEPT !.line = AfterLine]
             IN IF Bounded(Line) THEN EndsFile(fsm)
                ELSE [fsm EXCEPT !.file = Written(Line), !.crlf = TRUE]
        ELSE LET fsm == [recv EXCEPT !.line = << >>, !.no_line = TRUE]
             IN CASE recv.line = << >> -> fsm
                  [] Bounded(recv.line) -> EndsFile(fsm)
                  [] OTHER -> [fsm EXCEPT !.file = Written(recv.line), !.crlf = FALSE]
    /\ Same /\ UNCHANGED clean

\* The search for the boundary in a piece without a line break does not stop at its end,
\* and may find one that an earlier piece has left in the memory behind it.
RecvFileDataBeyond ==
    /\ Loop("content") /\ recv.input = "file"
    /\ ~HasLine /\ recv.line # << >>
    /\ recv' = EndsFile([recv EXCEPT !.line = << >>, !.no_line = TRUE])
    /\ clean' = FALSE
    /\ Same

\* recv_form_field(): a part of a value is dropped. A field without a name, which the
\* line break after a boundary at the end of a piece starts, ends the process.
RecvFormField ==
    /\ Loop("content") /\ recv.input # "file"
    /\ LET ends == [recv EXCEPT !.input = None, !.state = "headers"]
       IN recv' =
            IF HasLine
            THEN CASE Bounded(Line) -> [ends EXCEPT !.line = AfterLine]
                   [] ~Bounded(Line) /\ recv.input = None -> [recv EXCEPT !.state = "error"]
                   [] OTHER -> [recv EXCEPT !.line = AfterLine, !.value = Line]
            ELSE IF Bounded(recv.line)
                 THEN [ends EXCEPT !.line = << >>, !.no_line = TRUE]
                 ELSE [recv EXCEPT !.line = << >>, !.no_line = TRUE]
    /\ Same /\ UNCHANGED clean

\* upload_api_cb() and the other callbacks when the request is complete: without a file,
\* without the parent directory, or against the quota nothing is posted.
UploadDone ==
    /\ form # None /\ todo = << >> /\ recv.no_line /\ posted = None
    /\ recv.state # "error" /\ recv.files # << >>
    /\ posted' = [value |-> recv.value, files |-> recv.files]
    /\ UNCHANGED <<form, todo, recv, clean, chunkVars>>

----------------------------------------------------------------------------
\* Large files: one client, which sends one chunk after the other

Trouble == trouble < MaxTrouble /\ trouble' = trouble + 1
LastChunk == NChunks - 1
Size(chunks) == IF chunks = {} THEN 0 ELSE 1 + CHOOSE c \in chunks : \A d \in chunks : d <= c
NewTemps == {t \in Temps : temp[t] = None /\ \A r \in Requests :
                              chunk[r].pc # "idle" => chunk[r].temp # t}

SetRows(r, rows) ==
    /\ row' = rows
    /\ split' = (split \/ (~chunk[r].waited /\ rows # row))

\* seaf_repo_manager_get_upload_tmp_file_offset(): what the server has
AskOffset ==
    /\ client.pc = "ask"
    /\ LET found == row # << >> /\ temp[Head(row)] # None
       IN /\ client' = [client EXCEPT !.pc = "send", !.at = IF found THEN Size(temp[Head(row)]) ELSE 0]
          /\ row' = IF found THEN row ELSE << >>
    /\ UNCHANGED <<formVars, temp, chunk, saved, split, trouble>>

\* The last chunk is what makes the server post the file.
SendChunk(r) ==
    /\ client.pc = "send" /\ chunk[r].pc = "idle"
    /\ LET c == IF client.at > LastChunk THEN LastChunk ELSE client.at
       IN chunk' = [chunk EXCEPT ![r] =
              [pc |-> "open", c |-> c, temp |-> IF row = << >> THEN None ELSE Head(row),
               waited |-> TRUE]]
    /\ client' = [client EXCEPT !.pc = "wait"]
    /\ UNCHANGED <<formVars, row, temp, saved, split, trouble>>

\* An answer reaches the client that still waits for it. The request goes on with pc.
Answer(r, ok, pc) ==
    /\ chunk' = [chunk EXCEPT ![r] = IF pc = "idle" THEN NoReq ELSE [@ EXCEPT !.pc = pc, !.waited = FALSE]]
    /\ client' = IF ~chunk[r].waited THEN client
                 ELSE IF ~ok THEN [client EXCEPT !.pc = "ask"]
                 ELSE IF chunk[r].c = LastChunk THEN [client EXCEPT !.pc = "done"]
                 ELSE [client EXCEPT !.pc = "send", !.at = chunk[r].c + 1]

\* A new temporary file is recorded before anything is in it.
CreateTemp(r) ==
    /\ chunk[r].pc = "open" /\ chunk[r].temp = None
    /\ \/ \E t \in NewTemps :
             /\ temp' = [temp EXCEPT ![t] = {}]
             /\ SetRows(r, Append(row, t))
             /\ chunk' = [chunk EXCEPT ![r].pc = "copy", ![r].temp = t]
             /\ UNCHANGED <<client, trouble>>
       \/ Trouble /\ Answer(r, FALSE, "idle") /\ UNCHANGED <<row, temp, split>>
    /\ UNCHANGED <<formVars, saved>>

\* The row of a temporary file that is gone is forgotten, which does not fail the request,
\* against UploadsWhole
OpenOrCreate(r) ==
    /\ chunk[r].pc = "open" /\ chunk[r].temp # None
    /\ IF temp[chunk[r].temp] # None
       THEN /\ chunk' = [chunk EXCEPT ![r].pc = "copy"]
            /\ UNCHANGED <<row, split>>
       ELSE /\ chunk' = [chunk EXCEPT ![r].temp = None]
            /\ SetRows(r, << >>)
    /\ UNCHANGED <<formVars, temp, client, saved, trouble>>

\* The rows of the path are removed when the temporary file is gone, whatever they name.
OpenTemp(r) ==
    /\ chunk[r].pc = "open" /\ chunk[r].temp # None
    /\ IF temp[chunk[r].temp] # None
       THEN /\ chunk' = [chunk EXCEPT ![r].pc = "copy"]
            /\ UNCHANGED <<client, row, split>>
       ELSE /\ Answer(r, FALSE, "idle")
            /\ SetRows(r, << >>)
    /\ UNCHANGED <<formVars, temp, saved, trouble>>

\* What is written to a file that has been unlinked is gone with it.
Write(r) == temp' = [temp EXCEPT ![chunk[r].temp] = IF @ = None THEN None ELSE @ \cup {chunk[r].c}]

CopyChunk(r) ==
    /\ chunk[r].pc = "copy"
    /\ \/ /\ Write(r)
          /\ IF chunk[r].c = LastChunk
             THEN chunk' = [chunk EXCEPT ![r].pc = "post"] /\ UNCHANGED client
             ELSE Answer(r, TRUE, "idle")
          /\ UNCHANGED trouble
       \/ Trouble /\ (Write(r) \/ UNCHANGED temp) /\ Answer(r, FALSE, "idle")
    /\ UNCHANGED <<formVars, row, saved, split>>

\* The checks and the posting may fail. The rows stay then, though the file goes.
PostChunks(r) ==
    /\ chunk[r].pc = "post"
    /\ LET t == chunk[r].temp
       IN \/ /\ temp[t] # None
             /\ SetRows(r, << >>)
             /\ saved' = Append(saved, [chunks |-> temp[t], split |-> split'])
             /\ Answer(r, TRUE, "finish")
             /\ UNCHANGED trouble
          \/ /\ IF temp[t] # None THEN Trouble ELSE UNCHANGED trouble
             /\ Answer(r, FALSE, "finish")
             /\ UNCHANGED <<row, saved, split>>
    /\ UNCHANGED <<formVars, temp>>

\* upload_finish_cb()
FinishUpload(r) ==
    /\ chunk[r].pc = "finish"
    /\ temp' = [temp EXCEPT ![chunk[r].temp] = None]
    /\ chunk' = [chunk EXCEPT ![r] = NoReq]
    /\ UNCHANGED <<formVars, row, client, saved, split, trouble>>

\* cleanup_expired_httptemp_file(): no request lasts as long as a temporary file may.
CleanTemp(t) ==
    /\ temp[t] # None
    /\ \A r \in Requests : chunk[r].pc # "idle" => chunk[r].temp # t
    /\ Trouble
    /\ temp' = [temp EXCEPT ![t] = None]
    /\ UNCHANGED <<formVars, row, chunk, client, saved, split>>

\* The client gives up waiting, and the request goes on.
GiveUp ==
    /\ client.pc = "wait"
    /\ Trouble
    /\ client' = [client EXCEPT !.pc = "ask"]
    /\ chunk' = [r \in Requests |-> IF chunk[r].pc = "idle" THEN NoReq ELSE [chunk[r] EXCEPT !.waited = FALSE]]
    /\ UNCHANGED <<formVars, row, temp, saved, split>>

Crash ==
    /\ \E r \in Requests : chunk[r].pc # "idle"
    /\ Trouble
    /\ chunk' = [r \in Requests |-> NoReq]
    /\ client' = IF client.pc = "wait" THEN [client EXCEPT !.pc = "ask"] ELSE client
    /\ UNCHANGED <<formVars, row, temp, saved, split>>

\* The same file is uploaded again.
UploadAgain ==
    /\ client.pc = "done" /\ client.tries < MaxUploads
    /\ client' = [client EXCEPT !.pc = "ask", !.tries = @ + 1]
    /\ UNCHANGED <<formVars, row, temp, chunk, saved, split, trouble>>

Next ==
    \/ \E n \in 1..Len(todo) : Receive(n)
    \/ RecvInit \/ RecvHeaders \/ RecvFileData \/ RecvFileDataBeyond \/ RecvFormField
    \/ UploadDone
    \/ AskOffset \/ GiveUp \/ Crash \/ UploadAgain
    \/ \E r \in Requests :
          \/ SendChunk(r) \/ CreateTemp(r) \/ OpenTemp(r) \/ CopyChunk(r)
          \/ PostChunks(r) \/ FinishUpload(r)
    \/ \E t \in Temps : CleanTemp(t)

Spec == Init /\ [][Next]_vars

----------------------------------------------------------------------------
FilesOf(f) == FoldLeft(LAMBDA s, p : IF p.kind = "file" THEN Append(s, p.data) ELSE s, << >>, f)
Field(f) == FoldLeft(LAMBDA v, p : IF p.kind = "field" THEN p.data ELSE v, None, f)
AsSent == posted # None => posted = [value |-> Field(form), files |-> FilesOf(form)]

\* The files and the field of a form are what the client has sent, wherever the pieces end
\* in headers and in files, line breaks of the files included (recv_file_data).
PiecesVerbatim == clean => AsSent

\* The comment at upload-file.c:2521, "so that we can read file data piece by piece": a
\* piece may end anywhere.
AnyPieces == AsSent

\* A large file is posted whole, through failures, crashes and the cleaning of temporary
\* files, when its client asks how much there is after each of them, unless a request that
\* the client has given up changes the rows: the chunks are then split between two temporary
\* files (write_block_data_to_tmp_file).
UploadsWhole ==
    \A i \in 1..Len(saved) : saved[i].chunks = 0..LastChunk \/ saved[i].split

=============================================================================
