---------------------------- MODULE EventStream ----------------------------
(***************************************************************************)
(* One client's resumable event stream (GET /api/events): events published   *)
(* by concurrent requests through Hub::publish (append to the log, then       *)
(* broadcast), the stream task of sse_handler (subscribe, replay from         *)
(* Last-Event-ID, live tail with lag, lifetime, expiry and suspension), and   *)
(* a client that reconnects with the last id it received.                    *)
(*                                                                         *)
(* The log is the gapless sequence SeqLog promises: a record's seq is its     *)
(* position.  publish takes two steps, because the log's lock is released     *)
(* before the broadcast.                                                     *)
(***************************************************************************)
EXTENDS Naturals, Sequences, FiniteSets

CONSTANTS
    Publishers,  \* requests that may be inside Hub::publish at once
    MaxEvents,   \* bound: events published
    Capacity,    \* BROADCAST_CAPACITY, 1024 in the code
    MaxReplay,   \* MAX_REPLAY, 1000 in the code
    MaxDrops     \* bound: connections the network or the lifetime cuts

ASSUME EventStreamAssumption ==
    /\ MaxEvents \in Nat /\ MaxDrops \in Nat
    /\ Capacity \in Nat \ {0} /\ MaxReplay \in Nat \ {0}

\* What an event is to this stream: accepted by its view and replayable, accepted
\* but transient (typing, presence, a shout), or somebody else's.
Kinds == {"mine", "typing", "other"}

VARIABLES
    log,      \* the kind of every event logged; its seq is its position
    inflight, \* per publisher: the seq appended but not yet broadcast, or 0
    ring,     \* everything broadcast, in order
    stream,   \* the stream: "off", "open" (subscribed), "replaying", "live"
    rpos,     \* how much of the ring the receiver has consumed
    backlog,  \* the seqs of the replayed envelopes still to be sent, oldest first
    cursor,   \* the client's Last-Event-ID, 0 before the first
    known,    \* seqs the client has received or covered by a full sync
    denied,   \* whether the credential is refused: it expired or its owner is suspended
    drops,    \* connections cut so far
    hole      \* history: what may have moved the cursor past an event the client
              \* was owed: "crossed", "lifetime", "replaced"

vars == <<log, inflight, ring, stream, rpos, backlog, cursor, known, denied, drops,
          hole>>

lagged_seq == Len(log)
Everything == 1..Len(log)

-----------------------------------------------------------------------------
Init ==
    /\ log = <<>> /\ inflight = [p \in Publishers |-> 0] /\ ring = <<>>
    /\ stream = "off" /\ rpos = 0 /\ backlog = {}
    /\ cursor = 0 /\ known = {} /\ denied = FALSE /\ drops = 0 /\ hole = {}

\* publish, first half: the seq and the line under the log's lock.
AppendEvent(p) ==
    /\ inflight[p] = 0 /\ Len(log) < MaxEvents
    /\ \E k \in Kinds : log' = Append(log, k)
    /\ inflight' = [inflight EXCEPT ![p] = Len(log) + 1]
    /\ UNCHANGED <<ring, stream, rpos, backlog, cursor, known, denied, drops, hole>>

\* publish, second half: tx.send; another publish may have overtaken it.
Broadcast(p) ==
    /\ inflight[p] # 0
    /\ hole' = hole \cup {h \in {"crossed"} : \E q \in Publishers : inflight[q] \in 1..(inflight[p] - 1)}
    /\ ring' = Append(ring, inflight[p])
    /\ inflight' = [inflight EXCEPT ![p] = 0]
    /\ UNCHANGED <<log, stream, rpos, backlog, cursor, known, denied, drops>>

\* sse_handler up to the spawned task: the credential is checked, the view loaded,
\* the connection registered and subscribed.  A client without a cursor is a fresh
\* one, which syncs every room once the stream is up.
Connect ==
    /\ stream = "off" /\ ~denied
    /\ stream' = "open"
    /\ rpos' = Len(ring)
    /\ known' = IF cursor = 0 THEN known \cup Everything ELSE known
    /\ UNCHANGED <<log, inflight, ring, backlog, cursor, denied, drops, hole>>

\* A frame reaches the client: sse_event puts an id on every replayable event,
\* and the client's cursor is whatever id came last.
Deliver(s) ==
    /\ known' = known \cup {s}
    /\ cursor' = IF log[s] = "typing" THEN cursor ELSE s

\* resync_required carries the newest seq; the client syncs every room.
ResyncAll ==
    /\ known' = known \cup Everything
    /\ cursor' = lagged_seq

\* The seqs after a cursor, whoever the records are for.
Missed(c) == (c + 1)..Len(log)

\* The spawned task: replay the gap, or ask for a full sync when it is too long.
Replay ==
    /\ stream = "open"
    /\ IF cursor = 0
       THEN stream' = "live" /\ UNCHANGED <<backlog, cursor, known>>
       ELSE IF Len(log) - cursor > MaxReplay
       THEN stream' = "live" /\ ResyncAll /\ UNCHANGED backlog
       ELSE /\ stream' = "replaying"
            /\ backlog' = {s \in Missed(cursor) : log[s] = "mine"}
            /\ UNCHANGED <<cursor, known>>
    /\ UNCHANGED <<log, inflight, ring, rpos, denied, drops, hole>>

Oldest(S) == CHOOSE s \in S : \A o \in S : s <= o
\* Faulty variant: the receiver is created once the replay is through.
SendReplayed_ThenSubscribe ==
    /\ stream = "replaying"
    /\ IF backlog = {} THEN stream' = "live" /\ rpos' = Len(ring) /\ UNCHANGED <<backlog, cursor, known>>
       ELSE /\ Deliver(Oldest(backlog))
            /\ backlog' = backlog \ {Oldest(backlog)}
            /\ UNCHANGED <<stream, rpos>>
    /\ UNCHANGED <<log, inflight, ring, denied, drops, hole>>
\* One replayed envelope into the channel; behind the last one, the live tail.
SendReplayed ==
    /\ stream = "replaying"
    /\ IF backlog = {} THEN stream' = "live" /\ UNCHANGED <<backlog, cursor, known>>
       ELSE /\ Deliver(Oldest(backlog))
            /\ backlog' = backlog \ {Oldest(backlog)}
            /\ UNCHANGED stream
    /\ UNCHANGED <<log, inflight, ring, rpos, denied, drops, hole>>

Lagging == rpos + Capacity < Len(ring)

\* Faulty variant: the lag is skipped over without a word.
Lagged_Silent ==
    /\ stream = "live" /\ Lagging
    /\ rpos' = Len(ring) - Capacity
    /\ UNCHANGED <<log, inflight, ring, stream, backlog, cursor, known, denied, drops, hole>>
\* The receiver fell out of the ring: told to resync, it goes on from the oldest
\* envelope still there.
Lagged ==
    /\ stream = "live" /\ Lagging
    /\ rpos' = Len(ring) - Capacity
    /\ ResyncAll
    /\ UNCHANGED <<log, inflight, ring, stream, backlog, denied, drops, hole>>

\* Faulty variant: the live tail does not look at the credential again.
Recv_Unchecked ==
    /\ stream = "live" /\ ~Lagging /\ rpos < Len(ring)
    /\ rpos' = rpos + 1
    /\ LET s == ring[rpos + 1] IN
       IF log[s] = "other" THEN UNCHANGED <<cursor, known>> ELSE Deliver(s)
    /\ UNCHANGED <<log, inflight, ring, stream, backlog, denied, drops, hole>>

\* receiver.recv(): the view, then the token's expiry, then the suspension; a
\* refused credential ends the stream with a session_expired frame that carries
\* the id of the event it replaces.
Recv ==
    /\ stream = "live" /\ ~Lagging /\ rpos < Len(ring)
    /\ rpos' = rpos + 1
    /\ LET s == ring[rpos + 1] IN
       IF log[s] = "other" THEN UNCHANGED <<stream, cursor, known>>
       ELSE IF denied
       THEN stream' = "off" /\ cursor' = s /\ UNCHANGED known
       ELSE Deliver(s) /\ UNCHANGED stream
    /\ hole' = hole \cup {h \in {"replaced"} : stream' = "off"}
    /\ UNCHANGED <<log, inflight, ring, backlog, denied, drops>>

\* SSE_MAX_LIFETIME: a session_expired frame with the newest seq, then the end.
Lifetime ==
    /\ stream = "live" /\ drops < MaxDrops
    /\ stream' = "off"
    /\ cursor' = lagged_seq
    /\ drops' = drops + 1
    /\ hole' = hole \cup {"lifetime"}
    /\ UNCHANGED <<log, inflight, ring, rpos, backlog, known, denied>>

\* The network cuts the connection; the task sees tx.closed and disconnects.
Drop ==
    /\ stream # "off" /\ drops < MaxDrops
    /\ stream' = "off" /\ backlog' = {}
    /\ drops' = drops + 1
    /\ UNCHANGED <<log, inflight, ring, rpos, cursor, known, denied, hole>>

\* The token runs out or the account is suspended, and is later renewed.
Deny ==
    /\ ~denied /\ denied' = TRUE
    /\ UNCHANGED <<log, inflight, ring, stream, rpos, backlog, cursor, known, drops, hole>>
Renew ==
    /\ denied /\ stream = "off" /\ denied' = FALSE
    /\ UNCHANGED <<log, inflight, ring, stream, rpos, backlog, cursor, known, drops, hole>>

Task == Replay \/ SendReplayed \/ Lagged \/ Recv

Next ==
    \/ \E p \in Publishers : AppendEvent(p) \/ Broadcast(p)
    \/ Connect \/ Task \/ Lifetime \/ Drop \/ Deny \/ Renew

\* publish has no await between append and send; the runtime polls a ready stream
\* task; the client reconnects ("retry: 3000").
Fairness ==
    /\ \A p \in Publishers : WF_vars(Broadcast(p))
    /\ WF_vars(Task) /\ WF_vars(Connect)

Spec == Init /\ [][Next]_vars /\ Fairness

-----------------------------------------------------------------------------
(***************************************************************************)
(* Properties.                                                              *)
(***************************************************************************)

\* Every variable in its domain, and no cursor beyond the log.
TypeOK ==
    /\ log \in Seq(Kinds) /\ ring \in Seq(1..MaxEvents) /\ backlog \subseteq 1..Len(log)
    /\ inflight \in [Publishers -> 0..MaxEvents]
    /\ stream \in {"off", "open", "replaying", "live"}
    /\ rpos \in 0..Len(ring) /\ cursor \in 0..Len(log)
    /\ known \subseteq 1..Len(log) /\ denied \in BOOLEAN /\ drops \in 0..MaxDrops
    /\ hole \subseteq {"crossed", "lifetime", "replaced"}

\* A client is never past an event it was owed and has not seen: resuming from its
\* cursor cannot lose one (sse_handler, "so the gap is closed in order").  Excepted
\* are publishes that broadcast out of order and session_expired frames, whose id
\* may stand for events not sent.
NothingSkipped == hole = {} => \A s \in 1..cursor : log[s] = "mine" => s \in known

\* Once the credential is refused, the live tail passes nothing more on but the
\* word that it must sync ("no event crosses after the suspension, however long the
\* socket itself lingers").
LiveTailStops ==
    [][denied /\ stream = "live" /\ stream' = "live" /\ ~Lagging => UNCHANGED <<known, cursor>>]_vars

\* Every event this client may see reaches it, by the stream or by a full sync it
\* was told to make, whatever connections are cut in between, unless it stays
\* refused or met one of the holes above.
EventuallyKnown ==
    \A s \in 1..MaxEvents :
        (s <= Len(log) /\ log[s] = "mine") ~> (s \in known \/ denied \/ hole # {})
=============================================================================
