------------------------------ MODULE Downloads ------------------------------
(***************************************************************************)
(* Downloads for the web: the tokens that the web application gets for a      *)
(* browser (server/web-accesstoken-mgr.c), the keys of encrypted libraries    *)
(* that users have unlocked (server/passwd-mgr.c), the replies with a file, a *)
(* range of it or an archive of a directory, which are written piece by piece *)
(* (server/access-file.c), and the tasks that write such archives             *)
(* (server/zip-download-mgr.c, server/pack-dir.c).                            *)
(*                                                                            *)
(* Times are left open: a token, a key or the state of an archive may reach   *)
(* its age between any two steps. An archive consists of one unit for each    *)
(* file and one for the directory that closes it (external: libarchive), a    *)
(* file of bytes that are numbered from 0.                                    *)
(***************************************************************************)
EXTENDS Integers, Sequences, FiniteSets, SequencesExt

CONSTANTS
    Tokens,         \* ids of web access tokens
    Procs,          \* connections
    Blocks,         \* files that may be read: the sizes of their blocks
    Specs,          \* the Range headers that clients send
    Dirs,           \* the numbers of files in directories that may be archived
    MaxDir,         \* max_download_dir_size, in files
    Buffer,         \* the bytes or units that one write takes
    Width,          \* offsets are unsigned integers modulo Width
    Nothing,
    MaxReqs         \* bound: requests, and tokens given out

VARIABLES
    blocks,         \* the file of this library
    encrypted,      \* seaf_repo.encrypted
    dir,            \* the number of files of the directory
    token,          \* access_token_hash
    unlocked,       \* decrypt_keys has the key of the user
    progress,       \* progress_store
    worker,         \* the tasks of zip_tpool
    zip,            \* the archives in http_temp_dir, by the token of their task
    req,            \* the requests of connections
    reqs

downVars == <<blocks, encrypted, dir, token, unlocked, progress, worker, zip, req, reqs>>

NoRequest == [pc |-> "idle"]

DownloadsInit ==
    /\ blocks \in Blocks
    /\ encrypted \in BOOLEAN
    /\ dir \in Dirs
    /\ token = [t \in Tokens |-> Nothing]
    /\ unlocked = FALSE
    /\ progress = [t \in Tokens |-> Nothing]
    /\ worker = [t \in Tokens |-> [pc |-> "new"]]
    /\ zip = [t \in Tokens |-> Nothing]
    /\ req = [p \in Procs |-> NoRequest]
    /\ reqs = 0

Counted == reqs < MaxReqs /\ reqs' = reqs + 1

----------------------------------------------------------------------------
\* Access tokens and keys

\* seaf_web_at_manager_get_access_token(); with op "zip" a task follows
GetToken(t, op, once) ==
    /\ Counted
    /\ worker[t].pc = "new"
    /\ token' = [token EXCEPT ![t] = [op |-> op, once |-> once]]
    /\ worker' = [worker EXCEPT ![t].pc = IF op = "zip" THEN "ask" ELSE "none"]
    /\ UNCHANGED <<blocks, encrypted, dir, unlocked, progress, zip, req>>

StartZipTask(t) ==
    /\ worker[t].pc = "ask"
    /\ worker' = [worker EXCEPT ![t] = [pc |-> "queued", left |-> dir]]
    /\ progress' = [progress EXCEPT ![t] =
           [total |-> 1, zipped |-> 0, file |-> FALSE, canceled |-> FALSE]]
    /\ UNCHANGED <<blocks, encrypted, dir, token, unlocked, zip, req, reqs>>

\* The library or the directory is gone: the token is taken back.
ZipRefused(t) ==
    /\ worker[t].pc = "ask"
    /\ worker' = [worker EXCEPT ![t].pc = "none"]
    /\ token' = [token EXCEPT ![t] = Nothing]
    /\ UNCHANGED <<blocks, encrypted, dir, unlocked, progress, zip, req, reqs>>

\* clean_pulse(): a token has reached its age
Expire(t) ==
    /\ token[t] # Nothing
    /\ token' = [token EXCEPT ![t] = Nothing]
    /\ UNCHANGED <<blocks, encrypted, dir, unlocked, progress, worker, zip, req, reqs>>

SetPasswd ==
    /\ encrypted /\ ~unlocked
    /\ unlocked' = TRUE
    /\ UNCHANGED <<blocks, encrypted, dir, token, progress, worker, zip, req, reqs>>

\* unset_passwd(), or reap_expired_passwd()
DropPasswd ==
    /\ unlocked
    /\ unlocked' = FALSE
    /\ UNCHANGED <<blocks, encrypted, dir, token, progress, worker, zip, req, reqs>>

HasKey == encrypted => unlocked

----------------------------------------------------------------------------
\* The tasks that write archives

\* free_progress() unlinks the archive, which stays readable where it is open
Forget(t) == progress' = [progress EXCEPT ![t] = Nothing]

TaskEnds(t, ok) ==
    /\ worker' = [worker EXCEPT ![t] = [pc |-> IF ok THEN "done" ELSE "none"]]
    /\ IF ok THEN UNCHANGED progress ELSE Forget(t)

\* The key is fetched when the task starts, then the size and the number of the files.
CheckDir(t) ==
    /\ worker[t].pc = "queued"
    /\ IF ~HasKey \/ dir > MaxDir
       THEN TaskEnds(t, FALSE)
       ELSE /\ progress' = [progress EXCEPT ![t] =
                   IF @ = Nothing THEN Nothing ELSE [@ EXCEPT !.total = dir]]
            /\ worker' = [worker EXCEPT ![t].pc = "open"]
    /\ UNCHANGED <<blocks, encrypted, dir, token, unlocked, zip, req, reqs>>

\* The archive is named in the progress before there is anything in it. A progress that
\* has been freed meanwhile is written all the same: the name is lost.
CreateZip(t) ==
    /\ worker[t].pc = "open"
    /\ \/ /\ zip' = [zip EXCEPT ![t] = 0]
          /\ progress' = [progress EXCEPT ![t] =
                 IF @ = Nothing THEN Nothing ELSE [@ EXCEPT !.file = TRUE]]
          /\ worker' = [worker EXCEPT ![t].pc = "files"]
       \/ TaskEnds(t, FALSE) /\ UNCHANGED zip
    /\ UNCHANGED <<blocks, encrypted, dir, token, unlocked, req, reqs>>

Canceled(t) == progress[t] # Nothing /\ progress[t].canceled

WriteUnit(t) == zip' = [zip EXCEPT ![t] = @ + 1]

\* archive_dir(), archive_multi(): canceled before a file, or failed in it
AddFile(t) ==
    /\ worker[t].pc = "files" /\ worker[t].left > 0
    /\ \/ /\ ~Canceled(t)
          /\ WriteUnit(t)
          /\ progress' = [progress EXCEPT ![t] =
                 IF @ = Nothing THEN Nothing ELSE [@ EXCEPT !.zipped = @ + 1]]
          /\ worker' = [worker EXCEPT ![t].left = @ - 1]
       \/ /\ worker' = [worker EXCEPT ![t].pc = "failed"]
          /\ UNCHANGED <<progress, zip>>
    /\ UNCHANGED <<blocks, encrypted, dir, token, unlocked, req, reqs>>

\* archive_write_finish() closes the archive of a failed task, too.
FinishZip(t) ==
    /\ \/ worker[t].pc = "files" /\ worker[t].left = 0
       \/ worker[t].pc = "failed"
    /\ WriteUnit(t)
    /\ worker' = [worker EXCEPT ![t] =
           [pc |-> IF @.pc = "failed" THEN "remove" ELSE "done"]]
    /\ UNCHANGED <<blocks, encrypted, dir, token, unlocked, progress, req, reqs>>

RemoveFailed(t) ==
    /\ worker[t].pc = "remove"
    /\ TaskEnds(t, FALSE)
    /\ UNCHANGED <<blocks, encrypted, dir, token, unlocked, zip, req, reqs>>

\* scan_progress(): a progress has reached its age
ScanProgress(t) ==
    /\ progress[t] # Nothing
    /\ Forget(t)
    /\ UNCHANGED <<blocks, encrypted, dir, token, unlocked, worker, zip, req, reqs>>

CancelZipTask(t) ==
    /\ progress[t] # Nothing
    /\ progress' = [progress EXCEPT ![t].canceled = TRUE]
    /\ UNCHANGED <<blocks, encrypted, dir, token, unlocked, worker, zip, req, reqs>>

----------------------------------------------------------------------------
\* Ranges and pieces

\* the bytes before block i, and all of them
Before(bs, i) ==
    LET sum[k \in 1..(Len(bs) + 1)] == IF k = 1 THEN 0 ELSE sum[k - 1] + bs[k - 1]
    IN  sum[i]

Total(bs) == Before(bs, Len(bs) + 1)

HeaderKinds == {"suffix", "from", "both"}

\* Blocks are not empty, and an offset holds every size and every number in a header.
DownloadsAssumption ==
    /\ Buffer \in Nat \ {0} /\ Width \in Nat /\ Dirs \subseteq Nat
    /\ \A bs \in Blocks : bs \in Seq(Nat \ {0}) /\ bs # << >> /\ Total(bs) < Width
    /\ \A spec \in Specs :
          /\ spec # Nothing /\ spec.kind \in HeaderKinds
          /\ spec.n \in 0..(Width - 1)
          /\ spec.kind = "both" => spec.m \in 0..(Width - 1)
    /\ Nothing \notin [op : {"file", "blk", "zip"}, once : BOOLEAN]

W(n) == n % Width

\* The sign of "-n" is lost, against SentIsAsked
RangeStartUnsigned(spec, size) == W(spec.n)

\* parse_range_val(): "-n" is a negative start, to which the size is added
RangeStart(spec, size) ==
    CASE spec.kind = "suffix" -> W(W(-spec.n) + size)
      [] spec.kind = "from" -> W(spec.n)
      [] spec.kind = "both" -> W(spec.n)

RangeEnd(spec, size) ==
    IF spec.kind = "both" /\ W(spec.m) <= size - 1 THEN W(spec.m) ELSE size - 1

GoodRange(spec, size) ==
    /\ spec.kind = "suffix" => spec.n # 0
    /\ RangeStart(spec, size) <= RangeEnd(spec, size)

\* get_start_block_handle(): the block of an offset and the place in it
StartBlock(bs, start) ==
    CHOOSE i \in 1..Len(bs) : Before(bs, i) <= start /\ start < Before(bs, i) + bs[i]

Least(a, b) == IF a < b THEN a ELSE b

\* the offsets of n bytes of block i from place at
Bytes(bs, i, at, n) == [k \in 1..n |-> Before(bs, i) + at + k - 1]

----------------------------------------------------------------------------
\* Requests

Ends(p) == req' = [req EXCEPT ![p] = NoRequest]

\* seaf_web_at_manager_query_access_token() looks the token up, and reads the entry after
\* the unlock: an entry that is freed meanwhile gives anything or nothing.
Ask(p, t, spec) ==
    /\ Counted
    /\ req[p].pc = "idle"
    /\ token[t] # Nothing
    /\ req' = [req EXCEPT ![p] = [pc |-> "info", token |-> t, info |-> token[t],
                                  spec |-> spec,
                                  ended |-> worker[t].pc = "done"]]
    /\ UNCHANGED <<blocks, encrypted, dir, token, unlocked, progress, worker, zip>>

UseInfo(p) ==
    /\ req[p].pc = "info"
    /\ LET t == req[p].token
       IN \/ /\ token' = IF req[p].info.once THEN [token EXCEPT ![t] = Nothing] ELSE token
             /\ req' = [req EXCEPT ![p].pc = req[p].info.op]
          \/ token[t] = Nothing /\ Ends(p) /\ UNCHANGED token
    /\ UNCHANGED <<blocks, encrypted, dir, unlocked, progress, worker, zip, reqs>>

\* A reply of the bytes from offset from to offset to
Reply(p, kind, from, to) ==
    LET i == StartBlock(blocks, from)
    IN req' = [req EXCEPT ![p] =
           [pc |-> "send", kind |-> kind, spec |-> req[p].spec, promised |-> to - from + 1,
            first |-> i, block |-> i, at |-> from - Before(blocks, i),
            remain |-> to - from + 1, sent |-> << >>]]

Asking(p, op) == req[p].pc = op
Unmoved == UNCHANGED <<blocks, encrypted, dir, token, unlocked, progress, worker, zip, reqs>>
Whole(p) == encrypted \/ req[p].spec = Nothing

\* access_cb(): without the key of an encrypted library there is no file.
NoKey(p) == Asking(p, "file") /\ ~HasKey /\ Ends(p) /\ Unmoved

\* do_file(): ranges of encrypted files are not read.
StartFile(p) ==
    /\ Asking(p, "file") /\ HasKey /\ Whole(p)
    /\ Reply(p, "whole", 0, Total(blocks) - 1)
    /\ Unmoved

\* do_file_range()
StartRange(p) ==
    /\ Asking(p, "file") /\ ~Whole(p)
    /\ LET size == Total(blocks)
       IN IF GoodRange(req[p].spec, size)
          THEN Reply(p, "range", RangeStart(req[p].spec, size), RangeEnd(req[p].spec, size))
          ELSE Ends(p)
    /\ Unmoved

\* do_block(): one of the blocks of the file
StartBlockReply(p) ==
    /\ Asking(p, "blk")
    /\ \E i \in 1..Len(blocks) :
          Reply(p, "block", Before(blocks, i), Before(blocks, i) + blocks[i] - 1)
    /\ Unmoved

Sending(p, kind) == req[p].pc = "send" /\ req[p].kind = kind
InBlock(p) == blocks[req[p].block] - req[p].at
NextBlock(p) == req' = [req EXCEPT ![p].block = @ + 1, ![p].at = 0]
Sent(p) == req' = [req EXCEPT ![p].pc = "sent"]
Send(p, n, pc) ==
    req' = [req EXCEPT ![p].at = @ + n, ![p].remain = @ - n, ![p].pc = pc,
                       ![p].sent = @ \o Bytes(blocks, req[p].block, req[p].at, n)]

\* write_data_cb(): a whole file ends with its last block.
SendWhole(p) ==
    /\ Sending(p, "whole")
    /\ CASE InBlock(p) > 0 -> Send(p, Least(Buffer, InBlock(p)), "send")
         [] InBlock(p) = 0 /\ req[p].block < Len(blocks) -> NextBlock(p)
         [] OTHER -> Sent(p)
    /\ Unmoved

\* write_file_range_cb(): a range ends with its last byte.
SendRange(p) ==
    /\ Sending(p, "range")
    /\ LET n == Least(Buffer, Least(InBlock(p), req[p].remain))
       IN IF InBlock(p) = 0
          THEN NextBlock(p)
          ELSE Send(p, n, IF n = req[p].remain THEN "sent" ELSE "send")
    /\ Unmoved

\* write_block_data_cb(): a block ends when nothing more can be read.
SendBlock(p) ==
    /\ Sending(p, "block")
    /\ IF InBlock(p) > 0 THEN Send(p, Least(Buffer, InBlock(p)), "send") ELSE Sent(p)
    /\ Unmoved

\* access_zip_cb(), start_download_zip_file(): the length of the archive as it is now
StartZip(p) ==
    /\ req[p].pc = "zip"
    /\ LET t == req[p].token
       IN IF progress[t] = Nothing \/ ~progress[t].file
          THEN Ends(p)
          ELSE req' = [req EXCEPT ![p] =
                   [pc |-> "sendzip", token |-> t, ended |-> req[p].ended,
                    promised |-> zip[t], remain |-> zip[t], sent |-> 0]]
    /\ UNCHANGED <<blocks, encrypted, dir, token, unlocked, progress, worker, zip, reqs>>

\* write_dir_data_cb(): the archive may have grown, and remain passes 0, which ends
\* nothing: the connection waits.
SendZip(p) ==
    /\ req[p].pc = "sendzip"
    /\ LET r == req[p]
           n == Least(Buffer, zip[r.token] - r.sent)
       IN /\ n > 0
          /\ req' = [req EXCEPT ![p].sent = @ + n, ![p].remain = @ - n,
                                ![p].pc = IF r.remain = n THEN "sentzip" ELSE "sendzip"]
    /\ UNCHANGED <<blocks, encrypted, dir, token, unlocked, progress, worker, zip, reqs>>

\* free_senddir_data() forgets the archive, at the end and when the connection breaks.
EndZip(p) ==
    /\ req[p].pc \in {"sendzip", "sentzip"}
    /\ Forget(req[p].token)
    /\ Ends(p)
    /\ UNCHANGED <<blocks, encrypted, dir, token, unlocked, worker, zip, reqs>>

\* The reply is complete, a block cannot be read, or the connection breaks.
EndFile(p) ==
    /\ req[p].pc \in {"send", "sent"}
    /\ Ends(p)
    /\ UNCHANGED <<blocks, encrypted, dir, token, unlocked, progress, worker, zip, reqs>>

Task(t) ==
    \/ CheckDir(t) \/ CreateZip(t) \/ AddFile(t) \/ FinishZip(t) \/ RemoveFailed(t)

DownloadsNext ==
    \/ \E t \in Tokens, op \in {"file", "blk", "zip"}, once \in BOOLEAN : GetToken(t, op, once)
    \/ \E t \in Tokens :
          \/ StartZipTask(t) \/ ZipRefused(t) \/ Expire(t) \/ Task(t)
          \/ ScanProgress(t) \/ CancelZipTask(t)
    \/ SetPasswd \/ DropPasswd
    \/ \E p \in Procs, t \in Tokens, spec \in Specs \cup {Nothing} : Ask(p, t, spec)
    \/ \E p \in Procs :
          \/ UseInfo(p) \/ NoKey(p) \/ StartFile(p) \/ StartRange(p) \/ StartBlockReply(p)
          \/ SendWhole(p) \/ SendRange(p) \/ SendBlock(p)
          \/ StartZip(p) \/ SendZip(p) \/ EndZip(p) \/ EndFile(p)

DownloadsSpec == DownloadsInit /\ [][DownloadsNext]_downVars

----------------------------------------------------------------------------
\* The offsets that a Range header asks for, in the words of the HTTP standard.
Asked(spec, size) ==
    CASE spec.kind = "suffix" -> {k \in 0..(size - 1) : k >= size - spec.n}
      [] spec.kind = "from" -> {k \in 0..(size - 1) : k >= spec.n}
      [] spec.kind = "both" -> {k \in 0..(size - 1) : k >= spec.n /\ k <= spec.m}

\* A complete reply has the bytes that were asked for, in their order, each once, and as
\* many as its headers promise, wherever the blocks end (do_file, do_file_range).
BytesAsked ==
    \A p \in Procs : req[p].pc = "sent" =>
        LET r == req[p]
            size == Total(blocks)
            asked == CASE r.kind = "whole" -> 0..(size - 1)
                       [] r.kind = "range" -> Asked(r.spec, size)
                       [] r.kind = "block" -> ToSet(Bytes(blocks, r.first, 0, blocks[r.first]))
        IN /\ Len(r.sent) = r.promised
           /\ ToSet(r.sent) = asked
           /\ \A k \in 1..(Len(r.sent) - 1) : r.sent[k + 1] = r.sent[k] + 1

\* The archive of a download that was asked for after its task had ended is whole
\* (start_zip_task, pack_files).
ZipIsWhole ==
    \A p \in Procs : req[p].pc = "sentzip" /\ req[p].ended => req[p].sent = dir + 1

\* What was asked for is what a complete reply has, of a file or of an archive.
SentIsAsked == BytesAsked /\ ZipIsWhole
=============================================================================
