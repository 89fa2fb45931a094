------------------------------ MODULE Messages ------------------------------
(***************************************************************************)
(* The messages table of ONE room (db/messages.rs) and the handlers that    *)
(* write it (routes/messages.rs, routes/emoticons.rs).                       *)
(*                                                                         *)
(* Messages, reaction events and purge markers are rows of one table, and    *)
(* every write gives its row a fresh msg_serial, so that /sync can carry     *)
(* them all on one cursor.  A reply, a reaction, edit, remove and publish    *)
(* read a row in one statement and write in a later transaction: what they   *)
(* read is kept in `task` until they commit.  Sends and purges are one step. *)
(*                                                                         *)
(* A text is named by the serial it was written under; 0 is a scrubbed one. *)
(***************************************************************************)
EXTENDS Naturals, FiniteSets

CONSTANTS
    Users,      \* the members
    Admins,     \* the members who may purge
    Tasks,      \* reply, reaction, edit, remove and publish requests in flight at once
    Ops,        \* the writes this instance exercises
    Sealings,   \* whether messages come encrypted: a subset of BOOLEAN
    Clock,      \* what now_ms() may answer, in any order
    MaxIds,     \* bound: rows ever inserted
    MaxSerial   \* bound: the highest serial issued

Ids == 1..MaxIds
AllOps == {"reply", "edit", "remove", "publish", "emoticon", "purge"}

ASSUME MessagesAssumption ==
    /\ Admins \subseteq Users /\ Ops \subseteq AllOps
    /\ Sealings \subseteq BOOLEAN /\ Sealings # {}
    /\ Clock \subseteq Nat \ {0} /\ Clock # {}
    /\ MaxIds \in Nat /\ MaxSerial \in Nat

VARIABLES
    rows,        \* messages, by id; None where there is no row
    minted,      \* ids handed out so far: 1..minted
    next_serial, \* room_serials.next_serial
    top_serial,  \* history: the highest serial ever given to a row
    task         \* the requests between their read and their write

server == <<rows, minted, next_serial, top_serial, task>>

None == [kind |-> "none"]
Idle == [op |-> "idle"]
Renderable == {"add", "edit"}
Events == {"emoticon_add", "emoticon_remove"}

Exists(id) == rows[id] # None
\* get_message: a row that is not soft-deleted, of whatever kind.
get_message(id) == Exists(id) /\ rows[id].kind # "delete"
\* What requests name: the handlers take the id of any live row, clients send those of
\* messages.
Names(id) == get_message(id) /\ rows[id].kind \in Renderable

MessagesInit ==
    /\ rows = [id \in Ids |-> None] /\ minted = 0
    /\ next_serial = 1 /\ top_serial = 0
    /\ task = [t \in Tasks |-> Idle]

\* Faulty variant: the next serial taken from the rows that are left.
Serial_FromRows(now) ==
    LET top == {rows[id].serial : id \in {i \in Ids : Exists(i)}} \cup {0}
        last == CHOOSE s \in top : \A o \in top : o <= s
    IN IF last + 1 >= now THEN last + 1 ELSE now
\* MAX(next_serial, now): above everything issued, however the clock moves.
Serial(now) == IF next_serial >= now THEN next_serial ELSE now

\* A write under the next serial of the time it is.
Write(now, new) ==
    /\ Serial(now) <= MaxSerial
    /\ rows' = new
    /\ next_serial' = Serial(now) + 1
    /\ top_serial' = IF Serial(now) > top_serial THEN Serial(now) ELSE top_serial
NoWrite == UNCHANGED <<rows, next_serial, top_serial>>

\* `of` is the target of a reaction event and the thread root of a reply.
Row(id, kind, serial, now, by, sealed, of) ==
    [id |-> id, kind |-> kind, serial |-> serial, at |-> now, by |-> by, of |-> of, sealed |-> sealed,
     text |-> IF kind = "add" THEN serial ELSE 0, anchor |-> 0]

-----------------------------------------------------------------------------
(***************************************************************************)
(* Writes that are one transaction.                                         *)
(***************************************************************************)

\* send, a message of the channel: create_message.
Send(u) ==
    /\ minted < MaxIds
    /\ minted' = minted + 1
    /\ \E sealed \in Sealings, now \in Clock :
         Write(now, [rows EXCEPT ![minted + 1] = Row(minted + 1, "add", Serial(now), now, u, sealed, 0)])
    /\ UNCHANGED task

\* purge: every row goes and one delete_all marker is inserted.
Purge(u) ==
    /\ "purge" \in Ops /\ u \in Admins /\ minted < MaxIds
    /\ minted' = minted + 1
    /\ \E now \in Clock :
         Write(now, [id \in Ids |-> IF id = minted + 1 THEN Row(id, "delete_all", Serial(now), now, u, FALSE, 0)
                                   ELSE None])
    /\ UNCHANGED task

-----------------------------------------------------------------------------
(***************************************************************************)
(* Replies, reactions, edit, remove and publish: a read, checks, and a       *)
(* transaction later.                                                       *)
(***************************************************************************)

Begin(t, what) == task' = [task EXCEPT ![t] = what] /\ UNCHANGED <<rows, minted, next_serial, top_serial>>
End(t) == task' = [task EXCEPT ![t] = Idle]

\* thread_root: a reply to a reply joins the thread that reply is in.
thread_root(id) == IF rows[id].of # 0 THEN rows[id].of ELSE id

\* send with a parent: resolve_parent finds a live row and its thread.
BeginReply(t) ==
    /\ "reply" \in Ops /\ task[t] = Idle /\ minted < MaxIds
    /\ \E id \in Ids, u \in Users, sealed \in Sealings :
         /\ Names(id)
         /\ Begin(t, [op |-> "append", kind |-> "add", by |-> u, of |-> thread_root(id), sealed |-> sealed])

\* add and remove of routes/emoticons: target_room finds a live row.
BeginEmoticon(t) ==
    /\ "emoticon" \in Ops /\ task[t] = Idle /\ minted < MaxIds
    /\ \E id \in Ids, u \in Users, kind \in Events :
         /\ Names(id)
         /\ Begin(t, [op |-> "append", kind |-> kind, by |-> u, of |-> id, sealed |-> FALSE])

\* create_message and create_emoticon_event insert whatever became of the target.
CommitAppend(t) ==
    /\ task[t].op = "append" /\ minted < MaxIds
    /\ minted' = minted + 1
    /\ LET k == task[t] IN
       \E now \in Clock :
         Write(now, [rows EXCEPT ![minted + 1] = Row(minted + 1, k.kind, Serial(now), now, k.by, k.sealed, k.of)])
    /\ End(t)

EditAllowed(id, sealed) == rows[id].sealed => sealed

\* edit: the row is live, the caller's own, and an encrypted one stays encrypted.
BeginEdit(t) ==
    /\ "edit" \in Ops /\ task[t] = Idle
    /\ \E id \in Ids, sealed \in Sealings :
         /\ Names(id) /\ EditAllowed(id, sealed)
         /\ Begin(t, [op |-> "edit", id |-> id, sealed |-> sealed, read |-> rows[id].serial])

\* Faulty variant: the UPDATE does not ask for is_deleted = 0.
Update_Any(id, s, sealed) ==
    [rows EXCEPT ![id] = IF Exists(id) THEN [@ EXCEPT !.kind = "edit", !.serial = s, !.text = s, !.sealed = sealed] ELSE @]
\* update_message: nothing changes when the row is gone or deleted meanwhile.
Update(id, s, sealed) ==
    [rows EXCEPT ![id] = IF get_message(id) THEN [@ EXCEPT !.kind = "edit", !.serial = s, !.text = s, !.sealed = sealed] ELSE @]

CommitEdit(t) ==
    /\ task[t].op = "edit"
    /\ LET new(s) == Update(task[t].id, s, task[t].sealed) IN
       IF new(0) = rows THEN NoWrite ELSE \E now \in Clock : Write(now, new(Serial(now)))
    /\ End(t) /\ UNCHANGED minted

\* remove: any member, any live row.
BeginRemove(t) ==
    /\ "remove" \in Ops /\ task[t] = Idle
    /\ \E id \in Ids : Names(id) /\ Begin(t, [op |-> "remove", id |-> id])

\* soft_delete_message: scrubbed, kept as a tombstone.
SoftDelete(id, s) ==
    [rows EXCEPT ![id] = IF get_message(id) THEN [@ EXCEPT !.kind = "delete", !.serial = s, !.text = 0] ELSE @]
\* The serial is spent even when another delete came first.
CommitRemove(t) ==
    /\ task[t].op = "remove"
    /\ \E now \in Clock : Write(now, SoftDelete(task[t].id, Serial(now)))
    /\ End(t) /\ UNCHANGED minted

\* publish: a live row of the caller's, not anchored yet.
BeginPublish(t) ==
    /\ "publish" \in Ops /\ task[t] = Idle
    /\ \E id \in Ids : /\ Names(id) /\ rows[id].anchor = 0
                       /\ Begin(t, [op |-> "publish", id |-> id])

\* publish_tx_hash: WHERE id = ?1, whatever has become of the row.
Anchor(id, s) == [rows EXCEPT ![id] = [@ EXCEPT !.anchor = s, !.serial = s]]
CommitPublish(t) ==
    /\ task[t].op = "publish"
    /\ IF Exists(task[t].id) THEN \E now \in Clock : Write(now, Anchor(task[t].id, Serial(now))) ELSE NoWrite
    /\ End(t) /\ UNCHANGED minted

ServerStep ==
    \/ \E u \in Users : Send(u) \/ Purge(u)
    \/ \E t \in Tasks : \/ BeginReply(t) \/ BeginEmoticon(t) \/ CommitAppend(t)
                        \/ BeginEdit(t) \/ CommitEdit(t)
                        \/ BeginRemove(t) \/ CommitRemove(t)
                        \/ BeginPublish(t) \/ CommitPublish(t)

MessagesSpec == MessagesInit /\ [][ServerStep]_server

-----------------------------------------------------------------------------
(***************************************************************************)
(* Properties.                                                              *)
(***************************************************************************)
Rows == [id : Ids, kind : Renderable \cup Events \cup {"delete", "delete_all"}, serial : 1..MaxSerial,
         at : Clock, by : Users, text : 0..MaxSerial, sealed : BOOLEAN,
         anchor : 0..MaxSerial, of : 0..MaxIds]

\* Every variable in its domain; no two rows share a serial, or /sync would page
\* between them.
MessagesTypeOK ==
    /\ rows \in [Ids -> Rows \cup {None}] /\ minted \in 0..MaxIds
    /\ next_serial \in 1..(MaxSerial + 1) /\ top_serial \in 0..MaxSerial
    /\ \A id \in Ids : id > minted => rows[id] = None
    /\ \A i, j \in Ids : Exists(i) /\ Exists(j) /\ rows[i].serial = rows[j].serial => i = j

\* A row that is new or has changed carries a serial above every serial issued
\* before, purged rows included: a cursor a client holds can never be in its way.
SerialsClimb ==
    [][\A id \in Ids : rows'[id] # rows[id] /\ rows'[id] # None => rows'[id].serial > top_serial]_server

\* A tombstone stays scrubbed until a purge takes it, whatever edit was in flight.
TombstonesStay ==
    [][\A id \in Ids : Exists(id) /\ rows[id].kind = "delete" /\ rows'[id] # None =>
          rows'[id].kind = "delete" /\ rows'[id].text = 0]_server

\* An edit never stores an encrypted message as plaintext, unless the row was written
\* between its read and its commit (edit, "omitting them would store it as plaintext").
SealedStaysSealed ==
    [][\A id \in Ids : Exists(id) /\ rows[id].sealed /\ rows'[id] # None /\ ~rows'[id].sealed =>
          \E t \in Tasks : /\ task[t].op = "edit" /\ task[t].id = id /\ task'[t] = Idle
                           /\ task[t].read < rows[id].serial]_server

\* Threads are one level deep, whatever is replied to and however old the reply's
\* reading of its parent is by the time it is stored.
ThreadsAreFlat ==
    \A id \in Ids : Exists(id) /\ rows[id].kind \in Renderable /\ rows[id].of # 0 /\ Exists(rows[id].of) =>
        rows[rows[id].of].of = 0

\* What a row has become it stays: scrubbed, sealed and one level deep.
RowsNeverGoBack == TombstonesStay /\ SealedStaysSealed /\ [](MessagesTypeOK /\ ThreadsAreFlat)
=============================================================================
