------------------------------ MODULE Uploads ------------------------------
(***************************************************************************)
(* A resumable upload of one file into one room, both ends of it: the        *)
(* sessions and handlers of routes/uploads.rs (begin, append, status, finish, *)
(* abort, the sweep), the finaliser of routes/files.rs, and the transfer loop *)
(* of the web client (api/uploads.rs) with its timeouts, probes, recovery and *)
(* adoption of a commit whose answer was lost.                              *)
(*                                                                         *)
(* A handler runs one step per await.  A request its client no longer waits   *)
(* for may go on or be dropped at any of them: axum drops the handler of a    *)
(* closed connection, and a crash drops them all.  The file's bytes are its   *)
(* positions 1..Size, so a temp file is intact exactly when it counts up.     *)
(***************************************************************************)
EXTENDS Integers, Sequences, FiniteSets, SequencesExt

CONSTANTS
    Sessions,     \* session ids, each created once
    Slots,        \* requests that may be at the server at once
    Size,         \* bytes of the file
    Ceiling,      \* SUGGESTED_CHUNK_BYTES
    MinChunk,     \* INITIAL_CHUNK and MIN_CHUNK
    MaxOpen,      \* MAX_OPEN_SESSIONS
    Retries,      \* CHUNK_ATTEMPTS and FINISH_ATTEMPTS
    Older,        \* whether the room already has a file of this name and size
    MaxFaults,    \* bound: timeouts, cancellations and failed calls
    MaxAttempts   \* bound: times the person attaches the file

ASSUME UploadsAssumption ==
    /\ Size \in Nat \ {0} /\ MinChunk \in Nat \ {0} /\ Ceiling \in Nat /\ MinChunk <= Ceiling
    /\ MaxOpen \in Nat \ {0} /\ Retries \in Nat \ {0} /\ Older \in BOOLEAN
    /\ MaxFaults \in Nat /\ MaxAttempts \in Nat \ {0}
    /\ IsFiniteSet(Sessions) /\ "sweeper" \notin Slots

None == "none"
Sweeper == "sweeper"
Handlers == Slots \cup {Sweeper}
Intact == [i \in 1..Size |-> i]

VARIABLES
    received, \* upload_sessions.received, -1 where there is no row
    temp,     \* the inode a session's temp file was created as: its bytes
    place,    \* where that inode is: "none", "temp", "stored" or "gone"
    files,    \* the room's rows of this name and size, newest last
    req,      \* per handler: its step, session, range, answer, and whether awaited
    client,   \* upload_in_chunks
    kept,     \* the session id in local storage
    member,   \* whether the uploader is in the room
    faults,   \* faults so far
    slips     \* history: "torn" (part of a chunk written), "leaked" (a temp file
              \* without a row), "discarded" (a session dropped uncommitted)

vars == <<received, temp, place, files, req, client, kept, member, faults, slips>>
server == <<received, temp, place, files>>

Idle == [step |-> "free", s |-> None, from |-> 0, len |-> 0, code |-> "ok", awaited |-> FALSE]
Fault == faults < MaxFaults /\ faults' = faults + 1
Stored == \E s \in Sessions : place[s] = "stored"

Init ==
    /\ received = [s \in Sessions |-> -1] /\ temp = [s \in Sessions |-> <<>>]
    /\ place = [s \in Sessions |-> "none"]
    /\ files = IF Older THEN <<"older">> ELSE <<>>
    /\ req = [h \in Handlers |-> Idle]
    /\ client = [pc |-> "idle", s |-> None, offset |-> 0, chunk |-> MinChunk, tries |-> 0,
                 lost |-> FALSE, got |-> None, attempt |-> 1]
    /\ kept = None /\ member = TRUE /\ faults = 0 /\ slips = {}

-----------------------------------------------------------------------------
(***************************************************************************)
(* The handlers.                                                           *)
(***************************************************************************)

At(h, step) == req[h].step = step
Goto(h, step) == req' = [req EXCEPT ![h].step = step]
\* A reply nobody waits for ends the request at once.
Answer(h, code) ==
    req' = [req EXCEPT ![h] = IF @.awaited THEN [@ EXCEPT !.step = "answered", !.code = code] ELSE Idle]

\* A fresh id: sessions are alike before they are created.
Unused == CHOOSE s \in Sessions : place[s] = "none"

\* db/uploads.rs: open_count and the row a new session gets.
open_count == Cardinality({s \in Sessions : received[s] # -1})
create(s) == received' = [received EXCEPT ![s] = 0]

\* Faulty variant: the row moves whatever it holds.
advance_Blind(s, from, written) ==
    received' = [received EXCEPT ![s] = IF @ # -1 THEN from + written ELSE @]
\* db/uploads.rs: move received from one offset to another if it is still there.
advance(s, from, written) ==
    received' = [received EXCEPT ![s] = IF @ = from THEN from + written ELSE @]

\* append up to the claim: the session is read, the offset compared with it.
AppendCheck(h) ==
    /\ At(h, "append")
    /\ LET r == req[h] IN
       IF received[r.s] = -1 THEN Answer(h, "404")
       ELSE IF received[r.s] # r.from THEN Answer(h, "409")
       ELSE Goto(h, "claim")
    /\ UNCHANGED <<server, client, kept, member, faults, slips>>

\* The conditional claim; whoever lost the race is told where the session is.
Claim(h) ==
    /\ At(h, "claim")
    /\ advance(req[h].s, req[h].from, req[h].len)
    /\ IF received' # received THEN Goto(h, "open")
       ELSE Answer(h, IF received[req[h].s] = -1 THEN "404" ELSE "409")
    /\ UNCHANGED <<temp, place, files, client, kept, member, faults, slips>>

\* Opened for appending, without creating it; the claim stays on failure.
Open(h) ==
    /\ At(h, "open")
    /\ IF place[req[h].s] = "temp" THEN Goto(h, "write") ELSE Answer(h, "404")
    /\ UNCHANGED <<server, client, kept, member, faults, slips>>

Chunk(h) == [i \in 1..req[h].len |-> req[h].from + i]
\* The bytes go to the end of the inode that was opened, wherever it is by now.
Write(h) ==
    /\ At(h, "write")
    /\ temp' = [temp EXCEPT ![req[h].s] = @ \o Chunk(h)]
    /\ Answer(h, "ok")
    /\ UNCHANGED <<received, place, files, client, kept, member, faults, slips>>

\* write_all fails part of the way and the offset is put back, or flush reports the
\* failure and it is not.
WriteFails(h) ==
    /\ At(h, "write") /\ Fault
    /\ \E n \in 0..(req[h].len - 1) :
         /\ temp' = [temp EXCEPT ![req[h].s] = @ \o SubSeq(Chunk(h), 1, n)]
         /\ slips' = slips \cup {x \in {"torn"} : n > 0}
    /\ Goto(h, "rollback") \/ Answer(h, "500")
    /\ UNCHANGED <<received, place, files, client, kept, member>>

Rollback(h) ==
    /\ At(h, "rollback")
    /\ advance(req[h].s, req[h].from + req[h].len, -req[h].len)
    /\ Answer(h, "500")
    /\ UNCHANGED <<temp, place, files, client, kept, member, faults, slips>>

\* hash_file and the two comparisons with what was declared.
hash_file(s) == temp[s] = Intact

\* finish: the session and its completeness.
FinishCheck(h) ==
    /\ At(h, "finish")
    /\ LET n == received[req[h].s] IN
       IF n = -1 THEN Answer(h, "404") ELSE IF n # Size THEN Answer(h, "400") ELSE Goto(h, "hash")
    /\ UNCHANGED <<server, client, kept, member, faults, slips>>

\* What is not the declared file is discarded.
Hash(h) ==
    /\ At(h, "hash")
    /\ LET s == req[h].s IN
       IF place[s] # "temp" THEN Answer(h, "500") /\ UNCHANGED slips
       ELSE IF hash_file(s) THEN Goto(h, "place") /\ UNCHANGED slips
       ELSE /\ req' = [req EXCEPT ![h].step = "drop", ![h].code = "500"]
            /\ slips' = slips \cup {"discarded"}
    /\ UNCHANGED <<server, client, kept, member, faults>>

\* finalize_upload: membership again, then the rename, or nothing but a removal
\* where the store has these bytes already.
Place(h) ==
    /\ At(h, "place")
    /\ LET s == req[h].s IN
       IF ~member THEN Answer(h, "403") /\ UNCHANGED place
       ELSE IF Stored
       THEN Goto(h, "insert") /\ place' = [place EXCEPT ![s] = IF @ = "temp" THEN "gone" ELSE @]
       ELSE IF place[s] = "temp"
       THEN Goto(h, "insert") /\ place' = [place EXCEPT ![s] = "stored"]
       ELSE Answer(h, "500") /\ UNCHANGED place
    /\ UNCHANGED <<received, temp, files, client, kept, member, faults, slips>>

\* files::create, one transaction; then the session is discarded.
InsertFile(h) ==
    /\ At(h, "insert")
    /\ \/ /\ files' = Append(files, "mine")
          /\ req' = [req EXCEPT ![h].step = "drop", ![h].code = "ok"]
          /\ UNCHANGED faults
       \/ Fault /\ Answer(h, "500") /\ UNCHANGED files
    /\ UNCHANGED <<received, temp, place, client, kept, member, slips>>

\* Faulty variant: the row goes and the file is left to whoever finds it.
DropFile_RowOnly(h) ==
    /\ At(h, "drop")
    /\ received' = [received EXCEPT ![req[h].s] = -1]
    /\ Goto(h, "delete")
    /\ UNCHANGED <<temp, place, files, client, kept, member, faults, slips>>
\* discard: the temp file by its name ...
DropFile(h) ==
    /\ At(h, "drop")
    /\ place' = [place EXCEPT ![req[h].s] = IF @ = "temp" THEN "gone" ELSE @]
    /\ Goto(h, "delete")
    /\ UNCHANGED <<received, temp, files, client, kept, member, faults, slips>>
\* ... and then the row.
DeleteRow(h) ==
    /\ At(h, "delete")
    /\ received' = [received EXCEPT ![req[h].s] = -1]
    /\ Answer(h, req[h].code)
    /\ UNCHANGED <<temp, place, files, client, kept, member, faults, slips>>

\* sweep_abandoned lists a session silent for SESSION_TTL_MS, or the owner's DELETE
\* reads it; either way discard follows in steps of its own.  A transfer that runs
\* keeps its session fresh.
Sweep(s) ==
    /\ At(Sweeper, "free") /\ received[s] # -1
    /\ client.pc \in {"idle", "failed", "done"}
    /\ req' = [req EXCEPT ![Sweeper] = [Idle EXCEPT !.step = "drop", !.s = s]]
    /\ slips' = slips \cup {"discarded"}
    /\ UNCHANGED <<server, client, kept, member, faults>>

\* A handler nobody awaits is dropped where it stands.
Cancel(h) ==
    /\ ~At(h, "free") /\ ~req[h].awaited /\ Fault
    /\ req' = [req EXCEPT ![h] = Idle]
    /\ UNCHANGED <<server, client, kept, member, slips>>

Leave ==
    /\ member /\ Fault /\ member' = FALSE
    /\ UNCHANGED <<server, req, client, kept, slips>>

HandlerStep(h) ==
    \/ AppendCheck(h) \/ Claim(h) \/ Open(h) \/ Write(h) \/ Rollback(h)
    \/ FinishCheck(h) \/ Hash(h) \/ Place(h) \/ InsertFile(h) \/ DropFile(h) \/ DeleteRow(h)

-----------------------------------------------------------------------------
(***************************************************************************)
(* The client.                                                             *)
(***************************************************************************)

Turn(pc) == client' = [client EXCEPT !.pc = pc]
Fail == Turn("failed")
Done(got) == client' = [client EXCEPT !.pc = "done", !.got = got]
Ask(chunk) == client' = [client EXCEPT !.pc = "recover", !.tries = 0, !.chunk = chunk]
From(s, offset, chunk) ==
    client' = [client EXCEPT !.pc = "send", !.s = s, !.offset = offset, !.chunk = chunk,
                             !.tries = 0, !.lost = FALSE]

\* resume: the remembered session if the server still has it, else a new one.
Resume ==
    /\ client.pc = "idle"
    /\ IF kept # None /\ received[kept] # -1
       THEN \/ From(kept, received[kept], MinChunk) /\ UNCHANGED <<kept, faults>>
            \/ Fault /\ Turn("begin") /\ kept' = None
       ELSE Turn("begin") /\ kept' = None /\ UNCHANGED faults
    /\ UNCHANGED <<server, req, member, slips>>

\* begin, whole: the temp file, then the row.  The answer may be lost, and the
\* handler dropped between the two.
Begin ==
    /\ client.pc = "begin"
    /\ \/ /\ ~member \/ open_count >= MaxOpen
          /\ Fail /\ UNCHANGED <<server, kept, faults, slips>>
       \/ /\ member /\ open_count < MaxOpen /\ \E s \in Sessions : place[s] = "none"
          /\ \E s \in Sessions :
               /\ s = Unused
               /\ place' = [place EXCEPT ![s] = "temp"]
               /\ \/ /\ create(s) /\ kept' = s
                     /\ From(s, 0, MinChunk) /\ UNCHANGED <<faults, slips>>
                  \/ create(s) /\ Fault /\ Fail /\ UNCHANGED <<kept, slips>>
                  \/ Fault /\ Fail /\ slips' = slips \cup {"leaked"} /\ UNCHANGED <<received, kept>>
          /\ UNCHANGED <<temp, files>>
    /\ UNCHANGED <<req, member>>

FreeSlot == CHOOSE h \in Slots : At(h, "free")
\* One chunk, or behind the last one the finish; the request takes a free slot.
Send(h) ==
    /\ client.pc \in {"send", "commit"} /\ At(h, "free") /\ h = FreeSlot
    /\ LET last == client.offset >= Size IN
       /\ Turn(IF last THEN "finishing" ELSE "appending")
       /\ req' = [req EXCEPT ![h] =
                    [step |-> IF last THEN "finish" ELSE "append", s |-> client.s,
                     from |-> client.offset,
                     len |-> IF last THEN 0
                             ELSE IF client.chunk < Size - client.offset THEN client.chunk
                             ELSE Size - client.offset,
                     code |-> "ok", awaited |-> TRUE]]
    /\ UNCHANGED <<server, kept, member, faults, slips>>

Double == IF 2 * client.chunk < Ceiling THEN 2 * client.chunk ELSE Ceiling
Halve == IF client.chunk \div 2 > MinChunk THEN client.chunk \div 2 ELSE MinChunk

\* append answered: on from where it says, or ask.
AppendAnswered(h) ==
    /\ client.pc = "appending" /\ At(h, "answered")
    /\ IF req[h].code = "ok"
       THEN From(client.s, req[h].from + req[h].len, Double)
       ELSE Ask(client.chunk)
    /\ req' = [req EXCEPT ![h] = Idle]
    /\ UNCHANGED <<server, kept, member, faults, slips>>

\* The request dies without an answer: its clock ran out, which halves the next
\* chunk, or the connection did.
Awaited(h) == req[h].awaited
Unanswered(h) ==
    /\ Awaited(h) /\ Fault
    /\ req' = [req EXCEPT ![h] = IF @.step = "answered" THEN Idle ELSE [@ EXCEPT !.awaited = FALSE]]
    /\ IF client.pc = "appending"
       THEN \E c \in {client.chunk, Halve} : Ask(c)
       ELSE IF client.tries + 1 < Retries
       THEN client' = [client EXCEPT !.pc = "commit", !.tries = @ + 1, !.lost = TRUE]
       ELSE Fail
    /\ UNCHANGED <<server, kept, member, slips>>

\* The probe beside an append: the offset is past the chunk, the request is aborted.
ProbeAppend(h) ==
    /\ client.pc = "appending" /\ Awaited(h)
    /\ received[client.s] >= req[h].from + req[h].len
    /\ From(client.s, received[client.s], client.chunk)
    /\ req' = [req EXCEPT ![h] = IF @.step = "answered" THEN Idle ELSE [@ EXCEPT !.awaited = FALSE]]
    /\ UNCHANGED <<server, kept, member, faults, slips>>

\* Faulty variant: a session that is gone is asked for again.
Recover_Forever ==
    /\ client.pc = "recover"
    /\ received[client.s] # -1
    /\ From(client.s, received[client.s], client.chunk)
    /\ UNCHANGED <<server, req, kept, member, faults, slips>>
\* recover: where is the session?  Gone ends the upload, silence is asked again.
Recover ==
    /\ client.pc = "recover"
    /\ \/ /\ IF received[client.s] # -1 THEN From(client.s, received[client.s], client.chunk) ELSE Fail
          /\ UNCHANGED faults
       \/ /\ Fault
          /\ IF client.tries + 1 < Retries THEN client' = [client EXCEPT !.tries = @ + 1] ELSE Fail
    /\ UNCHANGED <<server, req, kept, member, slips>>

\* adopt_committed: the newest row of this name and size.
Adopt ==
    /\ IF files = <<>> THEN Fail /\ UNCHANGED kept
       ELSE Done(Last(files)) /\ kept' = None

\* Faulty variant: any 404 is taken for a commit.
FinishAnswered_Any404(h) ==
    /\ client.pc = "finishing" /\ At(h, "answered")
    /\ IF req[h].code = "ok" THEN Done("mine") /\ kept' = None
       ELSE IF req[h].code \in {"404", "403"} THEN Adopt
       ELSE Fail /\ UNCHANGED kept
    /\ req' = [req EXCEPT ![h] = Idle]
    /\ UNCHANGED <<server, member, faults, slips>>
\* finish answered: committed, a 404 after a lost answer, or a refusal.
FinishAnswered(h) ==
    /\ client.pc = "finishing" /\ At(h, "answered")
    /\ IF req[h].code = "ok" THEN Done("mine") /\ kept' = None
       ELSE IF req[h].code = "404" /\ client.lost THEN Adopt
       ELSE Fail /\ UNCHANGED kept
    /\ req' = [req EXCEPT ![h] = Idle]
    /\ UNCHANGED <<server, member, faults, slips>>

\* The probe beside a finish: the session has vanished, so it was committed.
ProbeFinish(h) ==
    /\ client.pc = "finishing" /\ Awaited(h) /\ received[client.s] = -1
    /\ Adopt
    /\ req' = [req EXCEPT ![h] = IF @.step = "answered" THEN Idle ELSE [@ EXCEPT !.awaited = FALSE]]
    /\ UNCHANGED <<server, member, faults, slips>>

\* The person attaches the same file again.
Reattach ==
    /\ client.pc = "failed" /\ client.attempt < MaxAttempts
    /\ client' = [client EXCEPT !.pc = "idle", !.attempt = @ + 1, !.s = None]
    /\ UNCHANGED <<server, req, kept, member, faults, slips>>

ClientStep ==
    \/ Resume \/ Begin \/ Recover
    \/ \E h \in Slots : Send(h) \/ AppendAnswered(h) \/ FinishAnswered(h)

Next ==
    \/ \E h \in Handlers : HandlerStep(h) \/ WriteFails(h) \/ Cancel(h)
    \/ \E s \in Sessions : Sweep(s)
    \/ Leave \/ ClientStep \/ Reattach
    \/ \E h \in Slots : Unanswered(h) \/ ProbeAppend(h) \/ ProbeFinish(h)

\* Handlers run on, the client's loop goes on, and the hourly sweep comes round.
Fairness ==
    /\ \A h \in Handlers : WF_vars(HandlerStep(h))
    /\ WF_vars(ClientStep)
    /\ \A s \in Sessions : WF_vars(Sweep(s))

Spec == Init /\ [][Next]_vars /\ Fairness

-----------------------------------------------------------------------------
(***************************************************************************)
(* Properties.                                                              *)
(***************************************************************************)

TypeOK ==
    /\ received \in [Sessions -> -1..Size] /\ temp \in [Sessions -> Seq(1..Size)]
    /\ place \in [Sessions -> {"none", "temp", "stored", "gone"}]
    /\ client.pc \in {"idle", "begin", "send", "appending", "recover", "commit", "finishing", "done", "failed"}
    /\ client.offset \in 0..Size /\ client.chunk \in MinChunk..Ceiling

\* No byte of a file reaches the server twice, unless a write was torn (advance, "the
\* concurrency control for the whole protocol").
OnceOnly == "torn" \notin slips => \A s \in Sessions : IsInjective(temp[s])

\* What lies in the store under the file's digest is the file, however appends,
\* rollbacks and finishes crossed, unless part of a chunk was written and then sent
\* again (finish, "would quietly publish corruption as content").
StoreHonest ==
    "torn" \notin slips => \A s \in Sessions : place[s] = "stored" => temp[s] = Intact

\* The server holds no byte of the file twice and publishes nothing but the file.
BytesIntact == TypeOK /\ OnceOnly /\ StoreHonest

\* Every row of the room names bytes that are in the store ("Bytes before the row").
RowsHaveBytes == (\E i \in 1..Len(files) : files[i] = "mine") => Stored

\* An upload that reports success hands back the file that was uploaded, unless a
\* session was discarded uncommitted on the way (finish, "a 404 from here on means
\* it had").
DoneIsMine == client.pc = "done" /\ "discarded" \notin slips => client.got = "mine"

\* A finished upload is a row the client knows, over bytes that are there.
UploadKept == RowsHaveBytes /\ DoneIsMine

\* The transfer ends, with a file or with an error, however many answers are lost.
Settles == []<>(client.pc \in {"done", "failed"})

\* A temp file is given back in the end, unless begin was dropped before its row
\* (discard, "a file without a row is disk nothing will ever reclaim").
Reclaimed ==
    \A s \in Sessions : place[s] = "temp" /\ client.pc \in {"done", "failed"} ~>
        (place[s] # "temp" \/ client.pc \notin {"done", "failed"} \/ "leaked" \in slips)
=============================================================================
