---------------------------- MODULE FollowProofs ----------------------------
(***************************************************************************)
(* Two readers that follow a log by a cursor and must end up with all of it: *)
(* the event stream's client (EventStream) and the browser tabs on one        *)
(* account's local database (LocalRooms).  For any number of publishers,      *)
(* events, tabs and messages, any ring, replay and page.                      *)
(***************************************************************************)
EXTENDS EventStream, LocalRooms, SequenceTheorems, FiniteSetTheorems, WellFoundedInduction, TLAPS

-----------------------------------------------------------------------------
(***************************************************************************)
(* EventStream.                                                              *)
(***************************************************************************)

\* What is in flight or was broadcast is logged.
FlightsLogged ==
    /\ Len(log) <= MaxEvents
    /\ inflight \in [Publishers -> 0..Len(log)] /\ ring \in Seq(1..Len(log))

\* As long as no publish overtakes another, the ring is a prefix of the log and the
\* seqs missing from it are the ones in flight, each once.
RingInOrder ==
    hole = {} =>
        /\ Len(ring) <= Len(log)
        /\ \A i \in 1..Len(ring) : ring[i] = i
        /\ \A p \in Publishers : inflight[p] # 0 => inflight[p] \in (Len(ring) + 1)..Len(log)
        /\ \A s \in (Len(ring) + 1)..Len(log) : \E p \in Publishers : inflight[p] = s
        /\ \A p, q \in Publishers : inflight[p] # 0 /\ inflight[p] = inflight[q] => p = q

\* The client has everything it is owed up to seq n, but for what is in the backlog.
Owed(n, rest) == \A s \in 1..n : log[s] = "mine" => s \in known \/ s \in rest

\* What the receiver has consumed was delivered or is in the backlog, which runs on from
\* the cursor without a gap.
NothingPending ==
    hole = {} =>
        /\ stream = "live" \/ (stream = "open" /\ cursor = 0) => Owed(rpos, {})
        /\ stream = "replaying" => Owed(rpos, backlog) /\ \A b \in backlog : Owed(b, backlog)

StreamInv == TypeOK /\ FlightsLogged /\ RingInOrder /\ NothingSkipped /\ NothingPending

-----------------------------------------------------------------------------
\* A nonempty set of numbers has a least one: what SendReplayed sends is there.
LEMMA OldestIsLeast ==
  ASSUME NEW S \in SUBSET Nat, S # {}
  PROVE  Oldest(S) \in S /\ \A o \in S : Oldest(S) <= o
<1> DEFINE R == {ss \in Nat \X Nat : ss[1] < ss[2]}
<1>0. IsWellFoundedOn(R, Nat)
  BY NatLessThanWellFounded, Zenon DEF OpToRel
<1> HIDE DEF R
<1>1. PICK m \in S : \A y \in S : ~(<<y, m>> \in R)
  BY <1>0, WFMin
<1>2. ASSUME NEW y \in S PROVE m <= y
  <2>1. <<y, m>> \in Nat \X Nat /\ <<y, m>>[1] = y /\ <<y, m>>[2] = m
    OBVIOUS
  <2>2. ~(<<y, m>>[1] < <<y, m>>[2])
    BY <1>1, <2>1, Zenon DEF R
  <2> QED
    BY <2>1, <2>2
<1> QED
  BY <1>2 DEF Oldest

\* No event has been published and nothing is owed.
LEMMA StreamInitInv == Init => StreamInv
<1> SUFFICES ASSUME Init PROVE StreamInv
  OBVIOUS
<1>1. Len(log) = 0 /\ Len(ring) = 0 /\ log \in Seq(Kinds) /\ \A S : ring \in Seq(S)
  BY DEF Init
<1>2. denied \in BOOLEAN
  BY DEF Init
<1>3. TypeOK /\ FlightsLogged
  BY <1>1, <1>2, EventStreamAssumption DEF Init, TypeOK, FlightsLogged
<1>4. RingInOrder /\ NothingSkipped /\ NothingPending
  BY <1>1, EventStreamAssumption DEF Init, RingInOrder, NothingSkipped, NothingPending
<1> QED
  BY <1>3, <1>4 DEF StreamInv

\* Hub::publish takes a number and logs the event.
LEMMA AppendStep ==
  ASSUME StreamInv, NEW p \in Publishers, AppendEvent(p)
  PROVE  StreamInv'
<1> USE DEF StreamInv
<1>1. PICK k \in Kinds : log' = Append(log, k)
  BY DEF AppendEvent
<1>2. /\ log' \in Seq(Kinds) /\ Len(log') = Len(log) + 1 /\ Len(log) \in Nat
      /\ \A s \in 1..Len(log) : log'[s] = log[s]
  BY <1>1 DEF TypeOK
<1>3. inflight' = [inflight EXCEPT ![p] = Len(log) + 1] /\ Len(log) + 1 <= MaxEvents
  BY <1>2, EventStreamAssumption DEF AppendEvent
<1>4. TypeOK' /\ FlightsLogged'
  <2>1. ring \in Seq(1..Len(log')) /\ ring \in Seq(1..MaxEvents)
    <3>1. \A i \in 1..Len(ring) : ring[i] \in 1..Len(log)
      BY DEF FlightsLogged
    <3>2. \A i \in 1..Len(ring) : ring[i] \in 1..Len(log')
      BY <1>2, <3>1
    <3>3. ring \in Seq(1..MaxEvents) /\ Len(ring) \in Nat /\ ring = [i \in 1..Len(ring) |-> ring[i]]
      BY DEF TypeOK
    <3> QED
      BY <3>2, <3>3
  <2>2. inflight' \in [Publishers -> 0..Len(log')] /\ inflight' \in [Publishers -> 0..MaxEvents]
    BY <1>2, <1>3, EventStreamAssumption DEF FlightsLogged
  <2>3. backlog \subseteq 1..Len(log') /\ known \subseteq 1..Len(log') /\ cursor \in 0..Len(log')
    BY <1>2 DEF TypeOK
  <2> QED
    BY <1>2, <1>3, <2>1, <2>2, <2>3 DEF AppendEvent, TypeOK, FlightsLogged
<1>5. RingInOrder'
  <2> SUFFICES ASSUME hole = {} PROVE RingInOrder'
    BY DEF AppendEvent, RingInOrder
  <2>0. Len(ring) \in Nat /\ Len(ring) <= Len(log) /\ inflight[p] = 0 /\ ring' = ring
    BY DEF TypeOK, RingInOrder, AppendEvent
  <2>1. inflight'[p] = Len(log) + 1 /\ \A q \in Publishers \ {p} : inflight'[q] = inflight[q]
    BY <1>3 DEF TypeOK
  <2>2. \A q \in Publishers : inflight[q] <= Len(log) /\ inflight[q] \in Nat
    BY <1>2 DEF FlightsLogged
  <2>3. \A q \in Publishers : inflight'[q] # 0 => inflight'[q] \in (Len(ring) + 1)..Len(log')
    BY <1>2, <2>0, <2>1 DEF RingInOrder
  <2>4. ASSUME NEW s \in (Len(ring) + 1)..Len(log') PROVE \E q \in Publishers : inflight'[q] = s
    <3>1. CASE s = Len(log) + 1
      BY <2>1, <3>1
    <3>2. CASE s # Len(log) + 1
      <4>1. s \in (Len(ring) + 1)..Len(log) /\ s # 0
        BY <1>2, <2>0, <3>2
      <4>2. PICK q \in Publishers : inflight[q] = s
        BY <4>1 DEF RingInOrder
      <4> QED
        BY <2>0, <2>1, <4>1, <4>2
    <3> QED
      BY <3>1, <3>2
  <2>5. \A q, r \in Publishers : inflight'[q] # 0 /\ inflight'[q] = inflight'[r] => q = r
    BY <1>2, <2>1, <2>2 DEF RingInOrder
  <2>6. \A i \in 1..Len(ring) : ring[i] = i
    BY DEF RingInOrder
  <2> QED
    BY <1>2, <2>0, <2>3, <2>4, <2>5, <2>6 DEF RingInOrder
<1>6. NothingSkipped'
  BY <1>2 DEF AppendEvent, NothingSkipped, TypeOK
<1>7. NothingPending'
  <2> SUFFICES ASSUME hole = {} PROVE NothingPending'
    BY DEF AppendEvent, NothingPending
  <2>1. rpos \in 0..Len(log) /\ backlog \subseteq 1..Len(log)
    BY DEF TypeOK, RingInOrder
  <2>2. ASSUME NEW n \in 0..Len(log), NEW rest, Owed(n, rest) PROVE Owed(n, rest)'
    BY <1>2, <2>2 DEF Owed, AppendEvent
  <2> QED
    BY <2>1, <1>2 DEF NothingPending, Owed, AppendEvent
<1> QED
  BY <1>4, <1>5, <1>6, <1>7

\* Hub::publish hands its event to the ring.
LEMMA BroadcastStep ==
  ASSUME StreamInv, NEW p \in Publishers, Broadcast(p)
  PROVE  StreamInv'
<1> USE DEF StreamInv
<1>0. inflight[p] \in 1..Len(log) /\ Len(log) \in Nat /\ Len(ring) \in Nat /\ Len(log) <= MaxEvents
  BY DEF FlightsLogged, Broadcast, TypeOK
<1>1. ring' = Append(ring, inflight[p])
  BY DEF Broadcast
<1>2. /\ ring' \in Seq(1..Len(log)) /\ Len(ring') = Len(ring) + 1 /\ ring'[Len(ring) + 1] = inflight[p]
      /\ \A i \in 1..Len(ring) : ring'[i] = ring[i]
  BY <1>0, <1>1 DEF FlightsLogged
<1>3. TypeOK' /\ FlightsLogged'
  <2>1. ring' \in Seq(1..MaxEvents)
    BY <1>0, <1>1, EventStreamAssumption DEF TypeOK
  <2>2. inflight' \in [Publishers -> 0..Len(log)] /\ inflight' \in [Publishers -> 0..MaxEvents]
    BY <1>0, EventStreamAssumption DEF Broadcast, FlightsLogged
  <2>3. rpos' \in 0..Len(ring')
    BY <1>0, <1>2 DEF Broadcast, TypeOK
  <2>4. hole' \subseteq {"crossed", "lifetime", "replaced"}
    BY DEF Broadcast, TypeOK
  <2> QED
    BY <1>2, <2>1, <2>2, <2>3, <2>4 DEF Broadcast, TypeOK, FlightsLogged
<1>4. CASE hole' # {}
  BY <1>3, <1>4 DEF RingInOrder, NothingSkipped, NothingPending
<1>5. CASE hole' = {}
  <2>0. hole = {} /\ \A q \in Publishers : inflight[q] \notin 1..(inflight[p] - 1)
    BY <1>5 DEF Broadcast
  <2>1. inflight[p] = Len(ring) + 1
    <3>1. inflight[p] \in (Len(ring) + 1)..Len(log)
      BY <1>0, <2>0 DEF RingInOrder
    <3>2. Len(ring) + 1 \in (Len(ring) + 1)..Len(log)
      BY <1>0, <3>1
    <3>3. PICK q \in Publishers : inflight[q] = Len(ring) + 1
      BY <2>0, <3>2 DEF RingInOrder
    <3> QED
      BY <1>0, <2>0, <3>1, <3>3
  <2>2. inflight'[p] = 0 /\ \A q \in Publishers \ {p} : inflight'[q] = inflight[q]
    BY DEF Broadcast, TypeOK
  <2>3. \A q \in Publishers : inflight[q] # 0 => inflight[q] \in (Len(ring) + 1)..Len(log)
    BY <2>0 DEF RingInOrder
  <2>4. \A q, r \in Publishers : inflight[q] # 0 /\ inflight[q] = inflight[r] => q = r
    BY <2>0 DEF RingInOrder
  <2>5. \A q \in Publishers : inflight'[q] # 0 => inflight'[q] \in (Len(ring') + 1)..Len(log')
    <3> SUFFICES ASSUME NEW q \in Publishers, inflight'[q] # 0
                 PROVE  inflight'[q] \in (Len(ring') + 1)..Len(log')
      OBVIOUS
    <3>1. q # p /\ inflight'[q] = inflight[q] /\ inflight[q] # inflight[p]
      BY <1>0, <2>2, <2>4
    <3> QED
      BY <1>0, <1>2, <2>1, <2>3, <3>1 DEF Broadcast
  <2>6. \A s \in (Len(ring') + 1)..Len(log') : \E q \in Publishers : inflight'[q] = s
    <3> SUFFICES ASSUME NEW s \in (Len(ring') + 1)..Len(log')
                 PROVE  \E q \in Publishers : inflight'[q] = s
      OBVIOUS
    <3>1. s \in (Len(ring) + 1)..Len(log) /\ s # inflight[p]
      BY <1>0, <1>2, <2>1 DEF Broadcast
    <3>2. PICK q \in Publishers : inflight[q] = s
      BY <2>0, <3>1 DEF RingInOrder
    <3> QED
      BY <2>2, <3>1, <3>2
  <2>7. \A i \in 1..Len(ring') : ring'[i] = i
    <3>1. \A i \in 1..Len(ring) : ring'[i] = i
      BY <1>2, <2>0 DEF RingInOrder
    <3> QED
      BY <1>0, <1>2, <2>1, <3>1
  <2>8. \A q, r \in Publishers : inflight'[q] # 0 /\ inflight'[q] = inflight'[r] => q = r
    BY <2>2, <2>4
  <2>9. RingInOrder'
    <3>1. Len(ring') <= Len(log')
      BY <1>0, <1>2, <2>1 DEF Broadcast
    <3> QED
      BY <2>5, <2>6, <2>7, <2>8, <3>1 DEF RingInOrder
  <2>10. NothingSkipped' /\ NothingPending'
    BY <2>0 DEF Broadcast, NothingSkipped, NothingPending, Owed
  <2> QED
    BY <1>3, <2>9, <2>10
<1> QED
  BY <1>4, <1>5

\* The ring, the flights and the log are left alone by everything but publish.
LEMMA RestOfRing ==
  ASSUME RingInOrder, UNCHANGED <<log, inflight, ring>>, hole \subseteq hole'
  PROVE  RingInOrder'
BY DEF RingInOrder

\* A step that leaves publishing alone and the rest in its bounds keeps the types.
LEMMA RestTyped ==
  ASSUME TypeOK, FlightsLogged, UNCHANGED <<log, inflight, ring, denied>>,
         stream' \in {"off", "open", "replaying", "live"}, rpos' \in 0..Len(ring), cursor' \in 0..Len(log),
         known' \subseteq 1..Len(log), backlog' \subseteq 1..Len(log), drops' \in 0..MaxDrops,
         hole' \subseteq {"crossed", "lifetime", "replaced"}
  PROVE  TypeOK' /\ FlightsLogged'
BY DEF TypeOK, FlightsLogged

\* A stream is opened at the client's cursor.
LEMMA ConnectStep ==
  ASSUME StreamInv, Connect
  PROVE  StreamInv'
<1> USE DEF StreamInv
<1>1. TypeOK' /\ FlightsLogged'
  <2>0. known \subseteq 1..Len(log) /\ Len(ring) \in Nat
    BY DEF TypeOK
  <2>r. rpos' \in 0..Len(ring)
    BY <2>0 DEF Connect
  <2>1. rpos' \in 0..Len(ring) /\ known' \subseteq 1..Len(log)
    BY <2>0, <2>r, Zenon DEF Connect, Everything
  <2>2. backlog' \subseteq 1..Len(log) /\ cursor' \in 0..Len(log)
    BY DEF Connect, TypeOK
  <2>3. UNCHANGED <<log, inflight, ring, denied>>
        /\ stream' \in {"off", "open", "replaying", "live"} /\ drops' \in 0..MaxDrops
        /\ hole' \subseteq {"crossed", "lifetime", "replaced"}
    BY DEF Connect, TypeOK
  <2> QED
    BY <2>1, <2>2, <2>3, RestTyped
<1>2. RingInOrder'
  BY RestOfRing DEF Connect
<1>3. NothingSkipped'
  BY DEF Connect, NothingSkipped
<1>4. NothingPending'
  <2> SUFFICES ASSUME hole = {}, cursor = 0 PROVE Owed(Len(ring), {})'
    BY DEF Connect, NothingPending, Owed
  <2>1. Len(ring) <= Len(log) /\ Len(ring) \in Nat /\ Len(log) \in Nat
    BY DEF RingInOrder, TypeOK
  <2> QED
    BY <2>1 DEF Connect, Owed, Everything
<1> QED
  BY <1>1, <1>2, <1>3, <1>4

\* The events past the cursor are read back from the log, or a resync is asked for.
LEMMA ReplayStep ==
  ASSUME StreamInv, Replay
  PROVE  StreamInv'
<1> USE DEF StreamInv
<1>0. Len(log) \in Nat /\ Len(ring) \in Nat /\ rpos \in 0..Len(ring) /\ cursor \in 0..Len(log)
  BY DEF TypeOK
<1>1. TypeOK' /\ FlightsLogged'
  <2>0. known \subseteq 1..Len(log) /\ backlog \subseteq 1..Len(log)
    BY DEF TypeOK
  <2>1. backlog' \subseteq 1..Len(log) /\ cursor' \in 0..Len(log) /\ known' \subseteq 1..Len(log)
    <3>1. CASE cursor = 0
      BY <1>0, <2>0, <3>1 DEF Replay
    <3>2. CASE cursor # 0 /\ Len(log) - cursor > MaxReplay
      <4>1. cursor' = Len(log) /\ backlog' = backlog /\ known' = known \cup 1..Len(log)
        BY <3>2 DEF Replay, ResyncAll, Everything, lagged_seq
      <4>2. cursor' \in 0..Len(log)
        BY <1>0, <4>1
      <4> QED
        BY <2>0, <4>1, <4>2, Zenon
    <3>3. CASE cursor # 0 /\ ~(Len(log) - cursor > MaxReplay)
      <4>1. cursor' = cursor /\ known' = known /\ backlog' = {s \in (cursor + 1)..Len(log) : log[s] = "mine"}
        BY <3>3 DEF Replay, Missed
      <4>2. backlog' \subseteq 1..Len(log)
        BY <1>0, <4>1
      <4> QED
        BY <1>0, <2>0, <4>1, <4>2, Zenon
    <3> QED
      BY <3>1, <3>2, <3>3
  <2>2. rpos' \in 0..Len(ring)
    BY DEF Replay, TypeOK
  <2>3. UNCHANGED <<log, inflight, ring, denied>>
        /\ stream' \in {"off", "open", "replaying", "live"} /\ drops' \in 0..MaxDrops
        /\ hole' \subseteq {"crossed", "lifetime", "replaced"}
    BY DEF Replay, TypeOK
  <2> QED
    BY <2>1, <2>2, <2>3, RestTyped
<1>2. RingInOrder'
  BY RestOfRing DEF Replay
<1>3. NothingSkipped' /\ NothingPending'
  <2> SUFFICES ASSUME hole = {} PROVE NothingSkipped' /\ NothingPending'
    BY DEF Replay, NothingSkipped, NothingPending
  <2>0. rpos \in 0..Len(log) /\ hole' = hole /\ rpos' = rpos /\ log' = log
    BY <1>0 DEF RingInOrder, Replay
  <2>1. CASE cursor = 0
    BY <2>0, <2>1 DEF Replay, NothingSkipped, NothingPending, Owed
  <2>2. CASE cursor # 0 /\ Len(log) - cursor > MaxReplay
    BY <1>0, <2>0, <2>2 DEF Replay, ResyncAll, Everything, lagged_seq, NothingSkipped, NothingPending, Owed
  <2>3. CASE cursor # 0 /\ ~(Len(log) - cursor > MaxReplay)
    <3>1. stream' = "replaying" /\ known' = known /\ cursor' = cursor
          /\ backlog' = {s \in (cursor + 1)..Len(log) : log[s] = "mine"}
      BY <2>3 DEF Replay, Missed
    <3>2. ASSUME NEW n \in 0..Len(log) PROVE Owed(n, backlog)'
      BY <1>0, <2>0, <3>1 DEF Owed, NothingSkipped
    <3>3. \A b \in backlog' : b \in 0..Len(log)
      BY <1>0, <3>1
    <3>4. NothingPending'
      BY <2>0, <3>1, <3>2, <3>3 DEF NothingPending, Owed
    <3> QED
      BY <2>0, <3>1, <3>4 DEF NothingSkipped
  <2> QED
    BY <2>1, <2>2, <2>3
<1> QED
  BY <1>1, <1>2, <1>3

\* The oldest of the backlog is sent.
LEMMA SendReplayedStep ==
  ASSUME StreamInv, SendReplayed
  PROVE  StreamInv'
<1> USE DEF StreamInv
<1>0. Len(log) \in Nat /\ backlog \subseteq 1..Len(log)
  BY DEF TypeOK
<1>1. CASE backlog = {}
  <2>1. TypeOK' /\ FlightsLogged'
    <3>1. /\ backlog' \subseteq 1..Len(log) /\ cursor' \in 0..Len(log)
          /\ known' \subseteq 1..Len(log) /\ rpos' \in 0..Len(ring)
      BY <1>1 DEF SendReplayed, TypeOK
    <3>2. UNCHANGED <<log, inflight, ring, denied>>
          /\ stream' \in {"off", "open", "replaying", "live"} /\ drops' \in 0..MaxDrops
          /\ hole' \subseteq {"crossed", "lifetime", "replaced"}
      BY <1>1 DEF SendReplayed, TypeOK
    <3> QED
      BY <3>1, <3>2, RestTyped
  <2>2. RingInOrder'
    BY RestOfRing DEF SendReplayed
  <2>3. NothingSkipped' /\ NothingPending'
    BY <1>1 DEF SendReplayed, NothingSkipped, NothingPending, Owed
  <2> QED
    BY <2>1, <2>2, <2>3
<1>2. CASE backlog # {}
  <2> DEFINE o == Oldest(backlog)
  <2>0. o \in backlog /\ o \in 1..Len(log) /\ \A b \in backlog : o <= b
    <3>1. backlog \in SUBSET Nat
      BY <1>0
    <3>2. o \in backlog /\ \A b \in backlog : o <= b
      BY <1>2, <3>1, OldestIsLeast
    <3> QED
      BY <1>0, <3>2, Zenon
  <2>1. /\ known' = known \cup {o} /\ cursor' = (IF log[o] = "typing" THEN cursor ELSE o)
        /\ backlog' = backlog \ {o} /\ stream = "replaying"
        /\ UNCHANGED <<stream, log, inflight, ring, rpos, denied, drops, hole>>
    BY <1>2 DEF SendReplayed, Deliver
  <2> HIDE DEF o
  <2>2. TypeOK' /\ FlightsLogged'
    <3>0. known \subseteq 1..Len(log) /\ cursor \in 0..Len(log)
      BY DEF TypeOK
    <3>1. cursor' \in 0..Len(log) /\ known' \subseteq 1..Len(log) /\ backlog' \subseteq 1..Len(log)
      <4>1. cursor' \in 0..Len(log)
        BY <1>0, <2>0, <2>1, <3>0
      <4> QED
        BY <1>0, <2>0, <2>1, <3>0, <4>1, Zenon
    <3>2. rpos' \in 0..Len(ring)
      BY <2>1 DEF TypeOK
    <3>3. UNCHANGED <<log, inflight, ring, denied>>
          /\ stream' \in {"off", "open", "replaying", "live"} /\ drops' \in 0..MaxDrops
          /\ hole' \subseteq {"crossed", "lifetime", "replaced"}
      BY <2>1 DEF TypeOK
    <3> QED
      BY <3>1, <3>2, <3>3, RestTyped
  <2>3. RingInOrder'
    BY <2>1, RestOfRing
  <2>4. ASSUME NEW n \in Nat, \A i \in 1..n : log[i] = "mine" => i \in known \/ i \in backlog
        PROVE  \A i \in 1..n : log'[i] = "mine" => i \in known' \/ i \in backlog'
    BY <2>1, <2>4
  <2>5. NothingPending'
    <3> SUFFICES ASSUME hole = {}
                 PROVE  /\ \A i \in 1..rpos' : log'[i] = "mine" => i \in known' \/ i \in backlog'
                        /\ \A b \in backlog' : \A i \in 1..b : log'[i] = "mine" => i \in known' \/ i \in backlog'
      BY <2>1 DEF NothingPending, Owed
    <3>1. rpos \in Nat /\ \A b \in backlog : b \in Nat
      BY <1>0 DEF TypeOK
    <3>2. \A i \in 1..rpos : log[i] = "mine" => i \in known \/ i \in backlog
      BY <2>1 DEF NothingPending, Owed
    <3>3. \A b \in backlog : \A i \in 1..b : log[i] = "mine" => i \in known \/ i \in backlog
      BY <2>1 DEF NothingPending, Owed
    <3>4. \A i \in 1..rpos' : log'[i] = "mine" => i \in known' \/ i \in backlog'
      BY <2>1, <2>4, <3>1, <3>2
    <3>5. ASSUME NEW b \in backlog' PROVE \A i \in 1..b : log'[i] = "mine" => i \in known' \/ i \in backlog'
      BY <2>1, <2>4, <3>1, <3>3
    <3> QED
      BY <3>4, <3>5
  <2>6. NothingSkipped'
    <3> SUFFICES ASSUME hole = {}, NEW s \in 1..cursor', log[s] = "mine" PROVE s \in known'
      BY <2>1 DEF NothingSkipped
    <3>1. CASE s \in 1..cursor
      BY <2>1, <3>1 DEF NothingSkipped
    <3>2. CASE s \notin 1..cursor
      <4>1. s \in 1..o
        BY <2>1, <3>2
      <4>2. s \in known \/ s \in backlog
        BY <2>0, <2>1, <4>1 DEF NothingPending, Owed
      <4>3. s \in backlog => s = o
        BY <1>0, <2>0, <4>1
      <4> QED
        BY <2>1, <4>2, <4>3
    <3> QED
      BY <3>1, <3>2
  <2> QED
    BY <2>2, <2>3, <2>5, <2>6
<1> QED
  BY <1>1, <1>2

\* A receiver that fell out of the ring is told to resync and goes on from what is there.
LEMMA LaggedStep ==
  ASSUME StreamInv, Lagged
  PROVE  StreamInv'
<1> USE DEF StreamInv
<1>0. Len(log) \in Nat /\ Len(ring) \in Nat /\ rpos \in Nat
  BY DEF TypeOK
<1>1. /\ rpos' = Len(ring) - Capacity /\ rpos' \in 0..Len(ring)
      /\ known' = known \cup 1..Len(log) /\ cursor' = Len(log) /\ stream = "live"
      /\ UNCHANGED <<log, inflight, ring, stream, backlog, denied, drops, hole>>
  BY <1>0, EventStreamAssumption DEF Lagged, Lagging, ResyncAll, Everything, lagged_seq
<1>2. TypeOK' /\ FlightsLogged'
  <2>0. known \subseteq 1..Len(log)
    BY DEF TypeOK
  <2>1. cursor' \in 0..Len(log) /\ known' \subseteq 1..Len(log)
    <3>1. cursor' \in 0..Len(log)
      BY <1>0, <1>1, <2>0
    <3> QED
      BY <1>1, <2>0, <3>1, Zenon
  <2>2. backlog' \subseteq 1..Len(log)
    BY <1>1 DEF TypeOK
  <2>3. UNCHANGED <<log, inflight, ring, denied>>
        /\ stream' \in {"off", "open", "replaying", "live"} /\ drops' \in 0..MaxDrops
        /\ hole' \subseteq {"crossed", "lifetime", "replaced"}
    BY <1>1 DEF TypeOK
  <2> QED
    BY <1>1, <2>1, <2>2, <2>3, RestTyped
<1>3. RingInOrder'
  BY <1>1, RestOfRing
<1>4. NothingSkipped'
  BY <1>1 DEF NothingSkipped
<1>5. NothingPending'
  <2> SUFFICES ASSUME hole = {} PROVE Owed(rpos, {})'
    BY <1>1 DEF NothingPending
  <2>1. rpos' \in 0..Len(log)
    BY <1>0, <1>1 DEF RingInOrder
  <2> QED
    BY <1>0, <1>1, <2>1 DEF Owed
<1> QED
  BY <1>2, <1>3, <1>4, <1>5

\* An event of the ring is sent or passed over.
LEMMA RecvStep ==
  ASSUME StreamInv, Recv
  PROVE  StreamInv'
<1> USE DEF StreamInv
<1> DEFINE s == ring[rpos + 1]
<1>0. Len(log) \in Nat /\ Len(ring) \in Nat /\ rpos \in Nat /\ rpos + 1 \in 1..Len(ring) /\ s \in 1..Len(log)
  BY DEF TypeOK, Recv, FlightsLogged
<1>1. /\ rpos' = rpos + 1 /\ stream = "live"
      /\ hole' = hole \cup {h \in {"replaced"} : stream' = "off"}
      /\ UNCHANGED <<log, inflight, ring, backlog, denied, drops>>
      /\ \/ log[s] = "other" /\ UNCHANGED <<stream, cursor, known>>
         \/ stream' = "off" /\ cursor' = s /\ UNCHANGED known
         \/ /\ known' = known \cup {s} /\ cursor' = (IF log[s] = "typing" THEN cursor ELSE s)
            /\ UNCHANGED stream
  BY DEF Recv, Deliver
<1> HIDE DEF s
<1>2. TypeOK' /\ FlightsLogged'
  <2>1. stream' \in {"off", "live"} /\ hole' \subseteq {"crossed", "lifetime", "replaced"}
    BY <1>1 DEF TypeOK
  <2>0. known \subseteq 1..Len(log) /\ cursor \in 0..Len(log)
    BY DEF TypeOK
  <2>2. cursor' \in 0..Len(log) /\ known' \subseteq 1..Len(log) /\ rpos' \in 0..Len(ring)
    <3>1. cursor' \in 0..Len(log)
      BY <1>0, <1>1, <2>0
    <3>2. rpos' \in 0..Len(ring)
      BY <1>0, <1>1
    <3>3. known' = known \/ known' = known \cup {s}
      BY <1>1
    <3> QED
      BY <1>0, <2>0, <3>1, <3>2, <3>3, Zenon
  <2>3. backlog' \subseteq 1..Len(log)
    BY <1>1 DEF TypeOK
  <2>4. UNCHANGED <<log, inflight, ring, denied>>
        /\ stream' \in {"off", "open", "replaying", "live"} /\ drops' \in 0..MaxDrops
        /\ hole' \subseteq {"crossed", "lifetime", "replaced"}
    BY <1>1, <2>1 DEF TypeOK
  <2> QED
    BY <2>2, <2>3, <2>4, RestTyped
<1>3. RingInOrder'
  BY <1>1, RestOfRing
<1>4. NothingSkipped' /\ NothingPending'
  <2> SUFFICES ASSUME hole' = {} PROVE NothingSkipped' /\ NothingPending'
    BY DEF NothingSkipped, NothingPending
  <2>1. hole = {} /\ stream' = "live"
    BY <1>1 DEF TypeOK
  <2>2. s = rpos + 1
    BY <1>0, <2>1 DEF RingInOrder, s
  <2>3. Owed(rpos, {})
    BY <1>1, <2>1 DEF NothingPending
  <2>4. log[s] = "mine" => s \in known'
    BY <1>1, <2>1
  <2>5. known \subseteq known' /\ cursor' \in {cursor, s}
    BY <1>1, <2>1
  <2>6. \A i \in 1..s : log[i] = "mine" => i \in known'
    BY <1>0, <2>2, <2>3, <2>4, <2>5 DEF Owed
  <2>7. NothingPending'
    BY <1>1, <2>1, <2>2, <2>6 DEF NothingPending, Owed
  <2>8. NothingSkipped'
    BY <1>1, <2>1, <2>5, <2>6 DEF NothingSkipped
  <2> QED
    BY <2>7, <2>8
<1> QED
  BY <1>2, <1>3, <1>4

\* A lifetime's end, a cut connection, a credential refused or renewed.
LEMMA CutStep ==
  ASSUME StreamInv, Lifetime \/ Drop \/ Deny \/ Renew
  PROVE  StreamInv'
<1> USE DEF StreamInv
<1>0. Len(log) \in Nat
  BY DEF TypeOK
<1>1. CASE Lifetime
  <2>1. TypeOK' /\ FlightsLogged'
    BY <1>0, <1>1, EventStreamAssumption DEF Lifetime, lagged_seq, TypeOK, FlightsLogged
  <2>2. hole' # {}
    BY <1>1 DEF Lifetime
  <2> QED
    BY <2>1, <2>2 DEF RingInOrder, NothingSkipped, NothingPending
<1>2. CASE Drop
  <2>1. TypeOK' /\ FlightsLogged'
    BY <1>0, <1>2, EventStreamAssumption DEF Drop, TypeOK, FlightsLogged
  <2>2. RingInOrder' /\ NothingSkipped' /\ NothingPending'
    BY <1>2 DEF Drop, RingInOrder, NothingSkipped, NothingPending
  <2> QED
    BY <2>1, <2>2
<1>3. CASE Deny \/ Renew
  <2>1. denied' \in BOOLEAN /\ UNCHANGED <<log, inflight, ring, stream, rpos, backlog, cursor, known, drops, hole>>
    BY <1>3 DEF Deny, Renew
  <2> QED
    BY <2>1 DEF TypeOK, FlightsLogged, RingInOrder, NothingSkipped, NothingPending, Owed
<1> QED
  BY <1>1, <1>2, <1>3

\* Every step of the stream keeps the invariant.
LEMMA StreamStep == StreamInv /\ [Next]_vars => StreamInv'
<1> SUFFICES ASSUME StreamInv, [Next]_vars PROVE StreamInv'
  OBVIOUS
<1>1. CASE UNCHANGED vars
  BY <1>1 DEF vars, StreamInv, TypeOK, FlightsLogged, RingInOrder, NothingSkipped, NothingPending, Owed
<1>2. CASE Next
  BY <1>2, AppendStep, BroadcastStep, ConnectStep, ReplayStep, SendReplayedStep, LaggedStep, RecvStep, CutStep
  DEF Next, Task
<1> QED
  BY <1>1, <1>2

\* Every reachable state of the log, the ring, the stream and the client is well typed,
\* and no cursor is beyond the log.
THEOREM StreamTypeCorrect == Spec => []TypeOK
<1>1. StreamInv => TypeOK
  BY DEF StreamInv
<1> QED
  BY <1>1, StreamInitInv, StreamStep, PTL DEF Spec

\* Resuming from the client's cursor loses no event it was owed (sse_handler,
\* Hub::publish, replay_since): whatever the ring's capacity and the replay bound, however
\* many publish at once and however often the stream is cut, short of a publish that
\* overtakes another and of session_expired frames.
THEOREM NothingIsSkipped == Spec => []NothingSkipped
<1>1. StreamInv => NothingSkipped
  BY DEF StreamInv
<1> QED
  BY <1>1, StreamInitInv, StreamStep, PTL DEF Spec

\* A live tail whose credential is refused passes nothing on but the word to sync (the
\* checks of sse_handler's loop), at whatever point of whatever behaviour.
THEOREM RefusedTailIsSilent == Spec => LiveTailStops
<1>1. [Next]_vars =>
        [denied /\ stream = "live" /\ stream' = "live" /\ ~Lagging => UNCHANGED <<known, cursor>>]_vars
  <2> SUFFICES ASSUME Next, denied, stream = "live", stream' = "live", ~Lagging
               PROVE  UNCHANGED <<known, cursor>>
    OBVIOUS
  <2>1. CASE Recv
    BY <2>1 DEF Recv
  <2>2. CASE ~Recv
    BY <2>2 DEF Next, Task, AppendEvent, Broadcast, Connect, Replay, SendReplayed, Lagged, Lifetime, Drop, Deny, Renew
  <2> QED
    BY <2>1, <2>2
<1> QED
  BY <1>1, PTL DEF Spec, LiveTailStops

-----------------------------------------------------------------------------
(***************************************************************************)
(* LocalRooms.                                                              *)
(***************************************************************************)

\* What a purge has left, the words on a message, and what the last of them says.
Cleared(rows) == Max({0} \cup {r.serial : r \in {q \in rows : q.type = "delete_all"}})
WordsOn(rows, i) == {r \in rows : r.serial > Cleared(rows) /\ r.type # "emoticon" /\ r.id = i}
Said(words, i) ==
    {[id |-> i, content |-> r.serial] :
        r \in {w \in words : w.type \in {"add", "edit"} /\ \A q \in words : q.serial <= w.serial}}
Shown(shows, i) == {m \in shows : m.id = i}

\* What a tab shows is current up to its cursor: unless a purge is still to come, a message
\* with no word behind the cursor is shown as its last word says.
UpTo(n, shows, rows) ==
    Cleared(rows) <= n =>
        \A i \in MsgIds : (\A r \in WordsOn(rows, i) : r.serial <= n) =>
            Shown(shows, i) = Said(WordsOn(rows, i), i)

Row == [serial : Nat, id : MsgIds \cup {0}, type : {"add", "edit", "delete", "emoticon", "delete_all"}]
Tab == [op : {"idle", "edit", "delete", "emoticon", "purge", "mint"}, id : MsgIds \cup {0},
        key : Nat, salt : Nat, cursor : Nat, shows : SUBSET [id : MsgIds, content : Nat]]

\* Every variable in its domain.
LoTypeOK ==
    /\ serial \in Nat /\ table \subseteq Row /\ msgid \in [MsgIds -> Nat]
    /\ meta_salt \in Nat /\ mints \in Nat /\ sealed \subseteq Nat
    /\ tab \in [Tabs -> Tab] /\ mishap \subseteq {"torn", "crossed"}

\* A serial is drawn once, and names a message's row or its successor's place.
RowsSound ==
    /\ IsFiniteSet(table)
    /\ \A r \in table : /\ 1 <= r.serial /\ r.serial <= serial
                        /\ r.type # "delete_all" => r.id \in MsgIds
    /\ \A r, q \in table : r.serial = q.serial => r = q
    /\ \A i \in MsgIds : /\ msgid[i] <= serial
                         /\ \A r \in table : r.serial = msgid[i] => r.id = i /\ r.type # "delete_all"

\* A mutation under way read the row of its message.
TabsSound ==
    \A t \in Tabs :
        /\ tab[t].cursor <= serial
        /\ tab[t].op \in {"edit", "delete", "emoticon"} => tab[t].id \in MsgIds
        /\ tab[t].op \in {"edit", "delete"} =>
               /\ tab[t].key <= serial
               /\ \A r \in table : r.serial = tab[t].key => r.id = tab[t].id /\ r.type # "delete_all"

TabsFollow ==
    "torn" \notin mishap /\ (\A t \in Tabs : tab[t].op # "purge") =>
        \A t \in Tabs : UpTo(tab[t].cursor, tab[t].shows, table)

\* Who has a salt has the stored one, and nothing is sealed without.
SaltsSound ==
    /\ NoSalt \notin sealed /\ \A t \in Tabs : tab[t].op = "mint" => tab[t].key # NoSalt
    /\ "crossed" \notin mishap =>
           /\ \A s \in sealed : s = meta_salt
           /\ \A t \in Tabs : tab[t].salt # NoSalt => tab[t].salt = meta_salt

LoInv == LoTypeOK /\ RowsSound /\ TabsSound /\ TabsFollow /\ SaltsSound

-----------------------------------------------------------------------------
\* The greatest of some serials.
LEMMA LargestSerial ==
  ASSUME NEW n \in Nat, NEW S \in SUBSET (0..n), S # {}
  PROVE  Max(S) \in S /\ \A y \in S : y <= Max(S)
<1> DEFINE T == {n - x : x \in S}
<1>1. T \in SUBSET Nat /\ T # {}
  <2>1. \A x \in S : x \in 0..n /\ n - x \in Nat
    OBVIOUS
  <2> QED
    BY <2>1
<1>2. PICK m \in T : \A y \in T : m <= y
  BY <1>1, OldestIsLeast
<1>3. PICK x \in S : m = n - x
  OBVIOUS
<1>4. \A y \in S : y <= x
  <2>1. ASSUME NEW y \in S PROVE y <= x
    <3>1. m <= n - y
      BY <1>2
    <3> QED
      BY <1>3, <3>1
  <2> QED
    BY <2>1
<1>5. \A y \in S : x >= y
  BY <1>4
<1>6. \E z \in S : \A y \in S : z >= y
  BY <1>5
<1>7. Max(S) \in S /\ \A y \in S : Max(S) >= y
  BY <1>6 DEF Max
<1> QED
  BY <1>7

\* What a purge has left is the serial of its marker, the last there is.
LEMMA ClearedIs ==
  ASSUME NEW n \in Nat, NEW rs, \A r \in rs : r.serial \in 1..n
  PROVE  /\ Cleared(rs) \in 0..n
         /\ \A r \in rs : r.type = "delete_all" => r.serial <= Cleared(rs)
         /\ Cleared(rs) = 0 \/ \E r \in rs : r.type = "delete_all" /\ r.serial = Cleared(rs)
<1> DEFINE S == {0} \cup {r.serial : r \in {q \in rs : q.type = "delete_all"}}
<1>1. S \in SUBSET (0..n) /\ S # {}
  OBVIOUS
<1>2. Max(S) \in S /\ \A y \in S : y <= Max(S)
  BY <1>1, LargestSerial
<1>3. Cleared(rs) = Max(S)
  BY DEF Cleared
<1> QED
  BY <1>1, <1>2, <1>3

\* The last of some words is there when there are any.
LEMMA LastWord ==
  ASSUME NEW n \in Nat, NEW words, words # {}, \A r \in words : r.serial \in 0..n
  PROVE  \E w \in words : \A q \in words : q.serial <= w.serial
<1> DEFINE S == {r.serial : r \in words}
<1>1. S \in SUBSET (0..n) /\ S # {}
  OBVIOUS
<1>2. Max(S) \in S /\ \A y \in S : y <= Max(S)
  BY <1>1, LargestSerial
<1>3. PICK w \in words : Max(S) = w.serial
  BY <1>2
<1>4. \A q \in words : q.serial \in S
  OBVIOUS
<1> QED
  BY <1>2, <1>3, <1>4

\* What a page folded into what is shown makes of one message.
LEMMA PageFolded ==
  ASSUME NEW n \in Nat, NEW page, \A r \in page : r.serial \in 1..n, NEW shows, NEW i
  PROVE  /\ WordsOn(page, i) # {} => Shown(FoldPage(shows, page), i) = Said(WordsOn(page, i), i)
         /\ WordsOn(page, i) = {} => Shown(FoldPage(shows, page), i) =
                                        IF Cleared(page) = 0 THEN Shown(shows, i) ELSE {}
<1> DEFINE cleared == Cleared(page)
           words == {r \in page : r.serial > cleared /\ r.type # "emoticon"}
           last == {r \in words : \A q \in words : q.id = r.id => q.serial <= r.serial}
           spared == {m \in shows : cleared = 0 /\ \A r \in last : r.id # m.id}
           said == UNION {FoldRow({}, r) : r \in last}
           mine == WordsOn(page, i)
<1>1. FoldPage(shows, page) = spared \cup said
  BY DEF FoldPage, Cleared
<1>2. cleared \in 0..n /\ \A r \in page : r.type = "delete_all" => r.serial <= cleared
  BY ClearedIs, Zenon
<1>3. mine = {r \in words : r.id = i}
  BY DEF WordsOn
<1>4. \A r \in words : r.type # "delete_all" /\ r.serial \in 1..n
  <2>1. ASSUME NEW r \in words, r.type = "delete_all" PROVE FALSE
    <3>1. r \in page /\ r.serial > cleared /\ r.serial <= cleared /\ r.serial \in 1..n
      BY <1>2, <2>1
    <3> QED
      BY <1>2, <3>1
  <2> QED
    BY <2>1
<1>5. ASSUME NEW r \in last
      PROVE  FoldRow({}, r) = IF r.type \in {"add", "edit"} THEN {[id |-> r.id, content |-> r.serial]} ELSE {}
  <2>1. r.type # "delete_all"
    BY <1>4
  <2>2. CASE r.type \in {"add", "edit"}
    BY <2>2 DEF FoldRow
  <2>3. CASE r.type = "delete"
    BY <2>3 DEF FoldRow
  <2>4. CASE r.type \notin {"add", "edit", "delete"}
    BY <2>1, <2>4 DEF FoldRow
  <2> QED
    BY <2>2, <2>3, <2>4
<1> HIDE DEF cleared
<1>6. \A r \in words : r.id = i => (r \in last <=> \A q \in mine : q.serial <= r.serial)
  BY <1>3
<1>7. mine # {} => \E r \in last : r.id = i
  <2> SUFFICES ASSUME mine # {} PROVE \E r \in last : r.id = i
    OBVIOUS
  <2>1. \A r \in mine : r.serial \in 0..n
    BY <1>3, <1>4
  <2>2. PICK w \in mine : \A q \in mine : q.serial <= w.serial
    BY <2>1, LastWord
  <2> QED
    BY <1>3, <1>6, <2>2
<1>8. {m \in said : m.id = i} = Said(mine, i)
  <2>1. ASSUME NEW m \in said, m.id = i PROVE m \in Said(mine, i)
    <3>1. PICK r \in last : m \in FoldRow({}, r)
      OBVIOUS
    <3>2. r.type \in {"add", "edit"} /\ m = [id |-> r.id, content |-> r.serial]
      BY <1>5, <3>1
    <3>3. r.id = i
      BY <2>1, <3>2
    <3>4. r \in mine /\ \A q \in mine : q.serial <= r.serial
      BY <1>3, <1>6, <3>3
    <3> QED
      BY <3>2, <3>3, <3>4 DEF Said
  <2>2. ASSUME NEW m \in Said(mine, i) PROVE m \in said /\ m.id = i
    <3>1. PICK r \in mine : /\ r.type \in {"add", "edit"} /\ m = [id |-> i, content |-> r.serial]
                            /\ \A q \in mine : q.serial <= r.serial
      BY DEF Said
    <3>2. r \in last /\ r.id = i
      BY <1>3, <1>6, <3>1
    <3>3. m \in FoldRow({}, r)
      BY <1>5, <3>1, <3>2
    <3> QED
      BY <3>1, <3>2, <3>3
  <2> QED
    BY <2>1, <2>2
<1>9. {m \in spared : m.id = i} = IF cleared = 0 /\ mine = {} THEN Shown(shows, i) ELSE {}
  BY <1>3, <1>7 DEF Shown
<1>10. Shown(FoldPage(shows, page), i) = {m \in spared : m.id = i} \cup {m \in said : m.id = i}
  BY <1>1 DEF Shown
<1>11. mine = {} => Said(mine, i) = {}
  BY DEF Said
<1> HIDE DEF mine, spared, said, last, words
<1>12. /\ mine # {} => Shown(FoldPage(shows, page), i) = Said(mine, i)
       /\ mine = {} => Shown(FoldPage(shows, page), i) = IF cleared = 0 THEN Shown(shows, i) ELSE {}
  BY <1>8, <1>9, <1>10, <1>11
<1> QED
  BY <1>12 DEF mine, cleared

\* A page that takes every row behind the cursor up to a later one leaves what is shown
\* current up to there.
LEMMA PageKeepsUp ==
  ASSUME NEW n \in Nat, NEW rs, \A r \in rs : r.serial \in 1..n,
         NEW c \in Nat, NEW d \in Nat, c <= d, NEW shows, UpTo(c, shows, rs)
  PROVE  UpTo(d, FoldPage(shows, {r \in rs : c < r.serial /\ r.serial <= d}), rs)
<1> DEFINE page == {r \in rs : c < r.serial /\ r.serial <= d}
           K == Cleared(rs)
           k == Cleared(page)
<1> SUFFICES ASSUME K <= d, NEW i \in MsgIds, \A r \in WordsOn(rs, i) : r.serial <= d
             PROVE  Shown(FoldPage(shows, page), i) = Said(WordsOn(rs, i), i)
  BY DEF UpTo
<1> DEFINE W == WordsOn(rs, i)
           P == WordsOn(page, i)
<1>1. /\ K \in 0..n /\ \A r \in rs : r.type = "delete_all" => r.serial <= K
      /\ K = 0 \/ \E r \in rs : r.type = "delete_all" /\ r.serial = K
  BY ClearedIs, Zenon
<1>2. /\ k \in 0..n /\ \A r \in page : r.type = "delete_all" => r.serial <= k
      /\ k = 0 \/ \E r \in page : r.type = "delete_all" /\ r.serial = k
  <2>1. \A r \in page : r.serial \in 1..n
    OBVIOUS
  <2> HIDE DEF page
  <2> QED
    BY <2>1, ClearedIs, Zenon
<1>3. /\ P # {} => Shown(FoldPage(shows, page), i) = Said(P, i)
      /\ P = {} => Shown(FoldPage(shows, page), i) = IF k = 0 THEN Shown(shows, i) ELSE {}
  <2>1. \A r \in page : r.serial \in 1..n
    OBVIOUS
  <2> HIDE DEF page
  <2> QED
    BY <2>1, PageFolded, Zenon
<1>4. /\ W = {r \in rs : r.serial > K /\ r.type # "emoticon" /\ r.id = i}
      /\ P = {r \in rs : c < r.serial /\ r.serial <= d /\ r.serial > k /\ r.type # "emoticon" /\ r.id = i}
  BY DEF WordsOn
<1>5. \A r \in W : r.serial \in 1..n /\ r.serial <= d
  BY <1>4
<1> HIDE DEF K, k, W, P
<1>6. CASE k = 0
  <2>1. K <= c
    <3> SUFFICES ASSUME c < K PROVE FALSE
      BY <1>1
    <3>1. PICK r \in rs : r.type = "delete_all" /\ r.serial = K
      BY <1>1
    <3>2. r \in page
      BY <1>1, <3>1
    <3> QED
      BY <1>2, <1>6, <3>1, <3>2
  <2>2. P = {r \in W : c < r.serial}
    <3>1. \A r \in rs : r.serial \in 1..n
      OBVIOUS
    <3>2. ASSUME NEW r \in P PROVE r \in W /\ c < r.serial
      BY <1>1, <1>4, <2>1, <3>1
    <3>3. ASSUME NEW r \in W, c < r.serial PROVE r \in P
      BY <1>4, <1>5, <1>6, <3>1, <3>3
    <3> QED
      BY <3>2, <3>3
  <2>3. CASE P = {}
    <3>1. \A r \in W : r.serial <= c
      BY <1>5, <2>2, <2>3
    <3>2. Shown(shows, i) = Said(W, i)
      BY <2>1, <3>1 DEF UpTo, K, W
    <3> QED
      BY <1>3, <1>6, <2>3, <3>2 DEF W
  <2>4. CASE P # {}
    <3>1. PICK p \in P : c < p.serial /\ p \in W
      BY <2>2, <2>4
    <3>2. {w \in P : \A q \in P : q.serial <= w.serial} = {w \in W : \A q \in W : q.serial <= w.serial}
      <4>1. ASSUME NEW w \in P, \A q \in P : q.serial <= w.serial PROVE \A q \in W : q.serial <= w.serial
        BY <1>5, <2>2, <4>1
      <4>2. ASSUME NEW w \in W, \A q \in W : q.serial <= w.serial PROVE w \in P
        BY <1>5, <2>2, <3>1, <4>2
      <4>3. P \subseteq W
        BY <2>2
      <4> QED
        BY <4>1, <4>2, <4>3
    <3>3. Said(P, i) = Said(W, i)
      <4>1. ASSUME NEW V
            PROVE  {w \in V : w.type \in {"add", "edit"} /\ \A q \in V : q.serial <= w.serial}
                     = {w \in {v \in V : \A q \in V : q.serial <= v.serial} : w.type \in {"add", "edit"}}
        OBVIOUS
      <4>2. {w \in P : w.type \in {"add", "edit"} /\ \A q \in P : q.serial <= w.serial}
              = {w \in W : w.type \in {"add", "edit"} /\ \A q \in W : q.serial <= w.serial}
        BY <3>2, <4>1
      <4> QED
        BY <4>2 DEF Said
    <3> QED
      BY <1>3, <2>4, <3>3 DEF W
  <2> QED
    BY <2>3, <2>4
<1>7. CASE k # 0
  <2>1. PICK r \in rs : c < r.serial /\ r.serial <= d /\ r.type = "delete_all" /\ r.serial = k
    BY <1>2, <1>7
  <2>2. k <= K /\ c < k /\ k \in Nat /\ K \in Nat
    BY <1>1, <1>2, <2>1
  <2>3. PICK q \in rs : q.type = "delete_all" /\ q.serial = K
    BY <1>1, <2>2
  <2>4. q \in page
    BY <2>2, <2>3 DEF K
  <2>5. K = k
    BY <1>2, <2>2, <2>3, <2>4
  <2>6. P = W
    BY <1>4, <1>5, <2>2, <2>5
  <2>7. W = {} => Said(W, i) = {}
    BY DEF Said
  <2> QED
    BY <1>3, <1>7, <2>6, <2>7 DEF W
<1> QED
  BY <1>6, <1>7

\* Rows after a write of serial n, in place of the ones dropped.
Rewritten(rs, drop, n, i, type) == {r \in rs : r.serial \notin drop} \cup {RowAt(n, i, type)}

\* A write behind every cursor: the row it replaces was a word on the same message.
LEMMA WriteKeepsUp ==
  ASSUME NEW n \in Nat, NEW rs, \A r \in rs : r.serial \in 1..n,
         NEW drop, NEW i, NEW type \in {"add", "edit", "delete", "emoticon"},
         \A r \in rs : r.serial \in drop => r.id = i /\ r.type # "delete_all",
         type = "emoticon" => drop = {},
         NEW c \in 0..n, NEW shows, UpTo(c, shows, rs)
  PROVE  UpTo(c, shows, Rewritten(rs, drop, n + 1, i, type))
<1> DEFINE new == RowAt(n + 1, i, type)
           ts == {r \in rs : r.serial \notin drop} \cup {new}
<1>1. new.serial = n + 1 /\ new.id = i /\ new.type = type
  BY DEF RowAt
<1> SUFFICES UpTo(c, shows, ts)
  BY DEF Rewritten
<1> HIDE DEF new
<1>2. Cleared(ts) = Cleared(rs)
  <2>1. {r \in ts : r.type = "delete_all"} = {r \in rs : r.type = "delete_all"}
    BY <1>1
  <2> QED
    BY <2>1 DEF Cleared
<1>3. Cleared(rs) \in 0..n
  BY ClearedIs, Zenon
<1> SUFFICES ASSUME Cleared(ts) <= c, NEW j \in MsgIds, \A r \in WordsOn(ts, j) : r.serial <= c
             PROVE  Shown(shows, j) = Said(WordsOn(ts, j), j)
  BY DEF UpTo
<1>4. type = "emoticon" \/ i # j
  <2> SUFFICES ASSUME type # "emoticon", i = j PROVE FALSE
    OBVIOUS
  <2>1. new \in WordsOn(ts, j)
    BY <1>1, <1>2, <1>3 DEF WordsOn
  <2>2. n + 1 <= c
    BY <1>1, <2>1
  <2> QED
    BY <2>2
<1>5. WordsOn(ts, j) = WordsOn(rs, j)
  <2>1. new \notin WordsOn(ts, j)
    BY <1>1, <1>4 DEF WordsOn
  <2>2. ASSUME NEW r \in rs, r.type # "emoticon", r.id = j PROVE r.serial \notin drop
    BY <1>4, <2>2
  <2> QED
    BY <1>2, <2>1, <2>2 DEF WordsOn
<1>6. \A r \in WordsOn(rs, j) : r.serial <= c
  BY <1>5
<1>7. Cleared(rs) <= c
  BY <1>2
<1> QED
  BY <1>5, <1>6, <1>7 DEF UpTo

\* A page is every row behind the cursor up to the last one in it, and is empty only when
\* nothing is behind the cursor.
LEMMA PageOfRows ==
  ASSUME LoTypeOK, RowsSound, NEW t \in Tabs
  PROVE  /\ sync_page(t) = {} => \A r \in table : r.serial <= tab[t].cursor
         /\ sync_page(t) # {} =>
               LET d == Max({r.serial : r \in sync_page(t)}) IN
               /\ d \in Nat /\ tab[t].cursor <= d /\ d <= serial
               /\ sync_page(t) = {r \in table : tab[t].cursor < r.serial /\ r.serial <= d}
<1> DEFINE c == tab[t].cursor
           past == {r \in table : r.serial > c}
           before(r) == {q \in past : q.serial < r.serial}
           page == {r \in past : Cardinality(before(r)) < PageRows}
<1>1. sync_page(t) = page
  BY DEF sync_page
<1>2. c \in Nat /\ serial \in Nat /\ PageRows \in Nat /\ PageRows # 0
      /\ IsFiniteSet(past) /\ \A r \in past : r.serial \in Nat /\ r.serial <= serial /\ c < r.serial
  <2>1. tab[t] \in Tab
    BY DEF LoTypeOK
  <2>2. c \in Nat
    BY <2>1 DEF Tab
  <2>3. \A r \in table : r.serial \in Nat /\ r.serial <= serial
    BY DEF LoTypeOK, Row, RowsSound
  <2>4. past \subseteq table
    OBVIOUS
  <2>5. IsFiniteSet(past)
    BY <2>4, FS_Subset DEF RowsSound
  <2> QED
    BY <2>2, <2>3, <2>5, LocalAssumption DEF LoTypeOK
<1> HIDE DEF c
<1>3. ASSUME NEW r \in past PROVE IsFiniteSet(before(r)) /\ Cardinality(before(r)) \in Nat
  <2>1. before(r) \subseteq past
    OBVIOUS
  <2> QED
    BY <1>2, <2>1, FS_Subset, FS_CardinalityType
<1>4. ASSUME NEW p \in page, NEW q \in past, q.serial <= p.serial PROVE q \in page
  <2>1. before(q) \subseteq before(p)
    BY <1>2, <1>4
  <2>2. IsFiniteSet(before(p)) /\ Cardinality(before(p)) \in Nat /\ Cardinality(before(q)) \in Nat
    BY <1>3
  <2>3. Cardinality(before(q)) <= Cardinality(before(p))
    BY <2>1, <2>2, FS_Subset
  <2>4. Cardinality(before(p)) < PageRows
    OBVIOUS
  <2> HIDE DEF before
  <2>5. Cardinality(before(q)) < PageRows
    BY <1>2, <2>2, <2>3, <2>4
  <2> QED
    BY <2>5
<1>5. page = {} => past = {}
  <2> SUFFICES ASSUME past # {} PROVE page # {}
    OBVIOUS
  <2> DEFINE S == {r.serial : r \in past}
  <2>1. S \in SUBSET Nat /\ S # {}
    BY <1>2
  <2>2. PICK m \in S : \A y \in S : m <= y
    BY <2>1, OldestIsLeast
  <2>3. PICK r \in past : m = r.serial
    OBVIOUS
  <2>4. before(r) = {}
    <3>1. ASSUME NEW q \in past PROVE ~(q.serial < r.serial)
      <4>1. q.serial \in S
        OBVIOUS
      <4> QED
        BY <1>2, <2>2, <2>3, <4>1
    <3> QED
      BY <3>1
  <2>5. Cardinality(before(r)) < PageRows
    <3>1. Cardinality(before(r)) = Cardinality({})
      BY <2>4
    <3>2. Cardinality({}) = 0
      BY FS_EmptySet
    <3> HIDE DEF before
    <3> QED
      BY <1>2, <3>1, <3>2
  <2> QED
    BY <2>5
<1>6. ASSUME page # {}
      PROVE  LET d == Max({r.serial : r \in page}) IN
             d \in Nat /\ c <= d /\ d <= serial /\ page = {r \in table : c < r.serial /\ r.serial <= d}
  <2> DEFINE S == {r.serial : r \in page}
             d == Max(S)
  <2>1. S \in SUBSET (0..serial) /\ S # {}
    <3>1. \A r \in page : r.serial \in 0..serial
      BY <1>2
    <3> HIDE DEF page
    <3> QED
      BY <1>6, <3>1
  <2>2. d \in S /\ \A y \in S : y <= d
    BY <2>1, LargestSerial, <1>2
  <2>3. PICK p \in page : d = p.serial
    BY <2>2
  <2>4. \A r \in page : r.serial <= d
    BY <2>2
  <2> HIDE DEF d
  <2>5. d \in Nat /\ c <= d /\ d <= serial
    BY <1>2, <2>3
  <2>6. ASSUME NEW r \in table, c < r.serial, r.serial <= d PROVE r \in page
    <3>1. r \in past
      BY <2>6
    <3> HIDE DEF past, page
    <3> QED
      BY <1>4, <2>3, <2>6, <3>1
  <2>7. ASSUME NEW r \in page PROVE r \in table /\ c < r.serial /\ r.serial <= d
    BY <1>2, <2>4
  <2>8. page = {r \in table : c < r.serial /\ r.serial <= d}
    BY <2>6, <2>7
  <2> QED
    BY <2>5, <2>8 DEF d
<1>7. page = {} => \A r \in table : r.serial <= c
  <2>1. \A r \in table : r.serial \in Nat
    BY DEF LoTypeOK, Row
  <2> QED
    BY <1>2, <1>5, <2>1
<1> QED
  BY <1>1, <1>6, <1>7 DEF c

\* One transaction draws the next serial and puts the row it numbers.
LEMMA CommitKeepsRows ==
  ASSUME LoTypeOK, RowsSound, NEW drop, NEW i, NEW type,
         \/ i \in MsgIds /\ type \in {"add", "edit", "delete", "emoticon"}
         \/ i = 0 /\ type = "delete_all",
         commit_with_serial(drop, i, type)
  PROVE  /\ serial' = serial + 1 /\ serial' \in Nat /\ table' \subseteq Row /\ IsFiniteSet(table')
         /\ table' = Rewritten(table, drop, serial + 1, i, type)
         /\ \A r \in table : r.serial \in 1..serial
         /\ \A r \in table' : /\ 1 <= r.serial /\ r.serial <= serial'
                              /\ r.type # "delete_all" => r.id \in MsgIds
         /\ \A r, q \in table' : r.serial = q.serial => r = q
         /\ \A r \in table' : r \in table \/ (r.serial = serial + 1 /\ r.id = i /\ r.type = type)
<1> DEFINE new == RowAt(serial + 1, i, type)
           kept == {r \in table : r.serial \notin drop}
<1>1. serial' = serial + 1 /\ table' = kept \cup {new}
  BY DEF commit_with_serial
<1>2. /\ serial \in Nat /\ table \subseteq Row /\ IsFiniteSet(table)
      /\ \A r \in table : r.serial \in Nat /\ 1 <= r.serial /\ r.serial <= serial
      /\ \A r \in table : r.type # "delete_all" => r.id \in MsgIds
      /\ \A r, q \in table : r.serial = q.serial => r = q
  BY DEF LoTypeOK, RowsSound, Row
<1>3. new.serial = serial + 1 /\ new.id = i /\ new.type = type /\ new \in Row
  BY <1>2 DEF RowAt, Row
<1> HIDE DEF new
<1>4. kept \subseteq table
  OBVIOUS
<1>5. IsFiniteSet(table')
  BY <1>1, <1>2, <1>4, FS_Subset, FS_AddElement
<1>6. table' \subseteq Row
  BY <1>1, <1>2, <1>3, <1>4
<1>7. serial' \in Nat /\ \A r \in table : r.serial \in 1..serial
  BY <1>1, <1>2
<1>8. \A r \in table' : r \in table \/ r = new
  BY <1>1
<1>9. \A r \in table' : /\ 1 <= r.serial /\ r.serial <= serial'
                        /\ r.type # "delete_all" => r.id \in MsgIds
  <2>1. 1 <= new.serial /\ new.serial <= serial' /\ (new.type # "delete_all" => new.id \in MsgIds)
    BY <1>1, <1>2, <1>3
  <2>2. \A r \in table : 1 <= r.serial /\ r.serial <= serial' /\ (r.type # "delete_all" => r.id \in MsgIds)
    BY <1>1, <1>2
  <2> QED
    BY <1>8, <2>1, <2>2
<1>10. \A r, q \in table' : r.serial = q.serial => r = q
  <2>1. \A r \in table : r.serial # new.serial
    BY <1>2, <1>3
  <2>0. \A a, b \in table : a.serial = b.serial => a = b
    BY <1>2
  <2>2. ASSUME NEW x \in table', NEW y \in table', x.serial = y.serial PROVE x = y
    <3>1. CASE x \in table /\ y \in table
      BY <2>0, <2>2, <3>1
    <3>2. CASE ~(x \in table /\ y \in table)
      <4>1. x = new \/ y = new
        BY <1>8, <3>2
      <4>2. x = new /\ y = new
        BY <1>8, <2>1, <2>2, <4>1
      <4> QED
        BY <4>2
    <3> QED
      BY <3>1, <3>2
  <2> QED
    BY <2>2
<1> QED
  BY <1>1, <1>3, <1>5, <1>6, <1>7, <1>8, <1>9, <1>10 DEF new, Rewritten

\* A new account's tabs show nothing.
LEMMA LoInitInv == LoInit => LoInv
<1> SUFFICES ASSUME LoInit PROVE LoInv
  OBVIOUS
<1>1. /\ serial = 0 /\ table = {} /\ msgid = [i \in MsgIds |-> 0] /\ meta_salt = 0 /\ mints = 0
      /\ sealed = {} /\ mishap = {} /\ tab = [t \in Tabs |-> NewTab]
  BY DEF LoInit, NoSalt
<1>2. NewTab \in Tab /\ NewTab.op = "idle" /\ NewTab.cursor = 0 /\ NewTab.salt = 0 /\ NewTab.shows = {}
  BY DEF NewTab, Tab, NoSalt
<1>3. LoTypeOK
  BY <1>1, <1>2 DEF LoTypeOK
<1>4. RowsSound
  BY <1>1, FS_EmptySet DEF RowsSound
<1>5. TabsSound /\ SaltsSound
  BY <1>1, <1>2 DEF TabsSound, SaltsSound, NoSalt
<1>6. UpTo(0, {}, {})
  BY DEF UpTo, WordsOn, Shown, Said
<1>7. TabsFollow
  BY <1>1, <1>2, <1>6 DEF TabsFollow
<1> QED
  BY <1>3, <1>4, <1>5, <1>7 DEF LoInv

\* A step that leaves the rows alone, and of the tabs what they show.
LEMMA SameRowsFollow ==
  ASSUME TabsFollow, table' = table, "torn" \in mishap => "torn" \in mishap',
         \A t \in Tabs : /\ tab'[t].cursor = tab[t].cursor /\ tab'[t].shows = tab[t].shows
                         /\ tab[t].op = "purge" => tab'[t].op = "purge"
  PROVE  TabsFollow'
<1> SUFFICES ASSUME "torn" \notin mishap', \A t \in Tabs : tab'[t].op # "purge", NEW t \in Tabs
             PROVE  UpTo(tab'[t].cursor, tab'[t].shows, table')
  BY DEF TabsFollow
<1>1. UpTo(tab[t].cursor, tab[t].shows, table)
  BY DEF TabsFollow
<1> QED
  BY <1>1

\* A write of a message or a reaction.
LEMMA WriteStep ==
  ASSUME LoInv, NEW drop, NEW i \in MsgIds, NEW type \in {"add", "edit", "delete", "emoticon"},
         commit_with_serial(drop, i, type),
         \A r \in table : r.serial \in drop => r.id = i /\ r.type # "delete_all",
         type = "emoticon" => drop = {},
         msgid' = msgid \/ (msgid' = [msgid EXCEPT ![i] = serial']),
         UNCHANGED <<meta_salt, mints, sealed, mishap>>,
         \/ tab' = tab
         \/ \E t \in Tabs : tab[t].op # "purge" /\ Keep(t, "idle", 0, 0)
  PROVE  LoInv'
<1>1. /\ LoTypeOK /\ RowsSound /\ TabsSound /\ TabsFollow /\ SaltsSound
      /\ serial \in Nat /\ msgid \in [MsgIds -> Nat] /\ tab \in [Tabs -> Tab]
  BY DEF LoInv, LoTypeOK
<1>2. /\ serial' = serial + 1 /\ serial' \in Nat /\ table' \subseteq Row /\ IsFiniteSet(table')
      /\ table' = Rewritten(table, drop, serial + 1, i, type)
      /\ \A r \in table : r.serial \in 1..serial
      /\ \A r \in table' : /\ 1 <= r.serial /\ r.serial <= serial'
                           /\ r.type # "delete_all" => r.id \in MsgIds
      /\ \A r, q \in table' : r.serial = q.serial => r = q
      /\ \A r \in table' : r \in table \/ (r.serial = serial + 1 /\ r.id = i /\ r.type = type)
  <2>1. i \in MsgIds /\ type \in {"add", "edit", "delete", "emoticon"}
    OBVIOUS
  <2>2. /\ LoTypeOK /\ RowsSound /\ commit_with_serial(drop, i, type)
        /\ \/ i \in MsgIds /\ type \in {"add", "edit", "delete", "emoticon"}
           \/ i = 0 /\ type = "delete_all"
    BY <1>1, <2>1
  <2> QED
    BY <2>2, CommitKeepsRows, SMTT(30)
<1>3. /\ tab' \in [Tabs -> Tab]
      /\ \A t \in Tabs : /\ tab'[t].cursor = tab[t].cursor /\ tab'[t].shows = tab[t].shows
                         /\ tab'[t].salt = tab[t].salt
                         /\ tab[t].op = "purge" => tab'[t].op = "purge"
                         /\ tab'[t].op = "idle" \/ tab'[t] = tab[t]
  <2>1. CASE tab' = tab
    BY <1>1, <2>1
  <2>2. ASSUME NEW u \in Tabs, tab[u].op # "purge", Keep(u, "idle", 0, 0)
        PROVE  /\ tab' \in [Tabs -> Tab]
               /\ \A t \in Tabs : /\ tab'[t].cursor = tab[t].cursor /\ tab'[t].shows = tab[t].shows
                                  /\ tab'[t].salt = tab[t].salt
                                  /\ tab[t].op = "purge" => tab'[t].op = "purge"
                                  /\ tab'[t].op = "idle" \/ tab'[t] = tab[t]
    <3>1. tab' = [tab EXCEPT ![u] = [tab[u] EXCEPT !.op = "idle", !.id = 0, !.key = 0]]
      BY <1>1, <2>2 DEF Keep
    <3>2. tab[u] \in Tab
      BY <1>1
    <3>3. tab'[u] \in Tab /\ tab'[u].op = "idle" /\ tab'[u].cursor = tab[u].cursor
          /\ tab'[u].shows = tab[u].shows /\ tab'[u].salt = tab[u].salt
      BY <1>1, <3>1, <3>2 DEF Tab
    <3>4. \A t \in Tabs \ {u} : tab'[t] = tab[t]
      BY <1>1, <3>1
    <3>5. tab' \in [Tabs -> Tab]
      BY <1>1, <3>1, <3>3
    <3> QED
      BY <2>2, <3>3, <3>4, <3>5
  <2> QED
    BY <2>1, <2>2
<1>4. msgid' \in [MsgIds -> Nat]
  BY <1>1, <1>2
<1>5. LoTypeOK'
  BY <1>1, <1>2, <1>3, <1>4 DEF LoTypeOK
<1>6. RowsSound'
  <2>1. ASSUME NEW j \in MsgIds
        PROVE  /\ msgid'[j] <= serial'
               /\ \A r \in table' : r.serial = msgid'[j] => r.id = j /\ r.type # "delete_all"
    <3>1. CASE msgid'[j] = msgid[j]
      <4>1. msgid[j] \in Nat /\ msgid[j] <= serial
            /\ \A r \in table : r.serial = msgid[j] => r.id = j /\ r.type # "delete_all"
        BY <1>1 DEF RowsSound
      <4>2. msgid[j] # serial + 1 /\ msgid[j] <= serial'
        BY <1>1, <1>2, <4>1
      <4> QED
        BY <1>2, <3>1, <4>1, <4>2
    <3>2. CASE msgid'[j] # msgid[j]
      <4>1. j = i /\ msgid'[j] = serial'
        BY <1>1, <3>2
      <4>2. \A r \in table : r.serial # serial'
        BY <1>1, <1>2
      <4> QED
        BY <1>2, <4>1, <4>2
    <3> QED
      BY <3>1, <3>2
  <2> QED
    BY <1>2, <2>1 DEF RowsSound
<1>7. TabsSound'
  <2>1. ASSUME NEW t \in Tabs
        PROVE  /\ tab'[t].cursor <= serial'
               /\ tab'[t].op \in {"edit", "delete", "emoticon"} => tab'[t].id \in MsgIds
               /\ tab'[t].op \in {"edit", "delete"} =>
                      /\ tab'[t].key <= serial'
                      /\ \A r \in table' : r.serial = tab'[t].key => r.id = tab'[t].id /\ r.type # "delete_all"
    <3>1. tab[t].cursor <= serial /\ tab[t].cursor \in Nat /\ tab[t].key \in Nat
      BY <1>1 DEF TabsSound, Tab
    <3>2. tab'[t].cursor <= serial'
      BY <1>1, <1>2, <1>3, <3>1
    <3>3. ASSUME tab'[t].op # "idle", tab'[t].op \in {"edit", "delete"}
          PROVE  /\ tab[t].key <= serial'
                 /\ \A r \in table' : r.serial = tab[t].key => r.id = tab[t].id /\ r.type # "delete_all"
      <4>1. tab[t].key <= serial
            /\ \A r \in table : r.serial = tab[t].key => r.id = tab[t].id /\ r.type # "delete_all"
        BY <1>1, <1>3, <3>3 DEF TabsSound
      <4>2. tab[t].key # serial + 1 /\ tab[t].key <= serial'
        BY <1>1, <1>2, <3>1, <4>1
      <4> QED
        BY <1>2, <4>1, <4>2
    <3>4. tab'[t].op \in {"edit", "delete", "emoticon"} => tab'[t].id \in MsgIds
      BY <1>1, <1>3 DEF TabsSound
    <3> QED
      BY <1>3, <3>2, <3>3, <3>4
  <2> QED
    BY <2>1 DEF TabsSound
<1>8. TabsFollow'
  <2> SUFFICES ASSUME "torn" \notin mishap', \A t \in Tabs : tab'[t].op # "purge", NEW t \in Tabs
               PROVE  UpTo(tab'[t].cursor, tab'[t].shows, table')
    BY DEF TabsFollow
  <2>1. UpTo(tab[t].cursor, tab[t].shows, table)
    BY <1>1, <1>3 DEF TabsFollow
  <2>2. PICK n \in Nat, c \in Nat, s \in {tab[t].shows} : n = serial /\ c = tab[t].cursor /\ c <= n
    BY <1>1 DEF TabsSound, Tab
  <2>3. UpTo(c, s, Rewritten(table, drop, n + 1, i, type))
    <3>1. c \in 0..n /\ (\A r \in table : r.serial \in 1..n) /\ UpTo(c, s, table)
      BY <1>2, <2>1, <2>2
    <3> QED
      BY <3>1, WriteKeepsUp, ZenonT(30)
  <2> QED
    BY <1>2, <1>3, <2>2, <2>3
<1>9. SaltsSound'
  BY <1>1, <1>3 DEF SaltsSound
<1> QED
  BY <1>5, <1>6, <1>7, <1>8, <1>9 DEF LoInv

\* The steps that commit a row of a message: a send, a mutation, a reaction.
LEMMA CommitStep ==
  ASSUME LoInv, NEW t \in Tabs,
         \/ \E i \in MsgIds : send_message(t, i)
         \/ \E type \in {"edit", "delete"} : mutate_message(t, type)
         \/ react(t)
  PROVE  LoInv'
<1>1. ASSUME NEW i \in MsgIds, send_message(t, i) PROVE LoInv'
  <2>1. /\ commit_with_serial({}, i, "add") /\ msgid' = [msgid EXCEPT ![i] = serial']
        /\ UNCHANGED <<meta_salt, mints, sealed, mishap>> /\ tab' = tab
    BY <1>1 DEF send_message
  <2>2. PICK none \in {{}}, add \in {"add"} : TRUE
    OBVIOUS
  <2>3. /\ add \in {"add", "edit", "delete", "emoticon"} /\ add # "emoticon"
        /\ \A r \in table : r.serial \in none => r.id = i /\ r.type # "delete_all"
    BY <2>2
  <2>4. commit_with_serial(none, i, add)
    BY <2>1, <2>2
  <2>5. /\ msgid' = msgid \/ (msgid' = [msgid EXCEPT ![i] = serial'])
        /\ tab' = tab \/ \E u \in Tabs : tab[u].op # "purge" /\ Keep(u, "idle", 0, 0)
    BY <2>1
  <2>6. UNCHANGED <<meta_salt, mints, sealed, mishap>> /\ (add = "emoticon" => none = {})
    BY <2>1, <2>2
  <2> QED
    BY <2>3, <2>4, <2>5, <2>6, WriteStep, Zenon
<1>2. ASSUME NEW type \in {"edit", "delete"}, mutate_message(t, type) PROVE LoInv'
  <2>1. /\ tab[t].op = type /\ Keep(t, "idle", 0, 0)
        /\ commit_with_serial({tab[t].key}, tab[t].id, type)
        /\ msgid' = [msgid EXCEPT ![tab[t].id] = serial']
        /\ UNCHANGED <<meta_salt, mints, sealed, mishap>>
    BY <1>2 DEF mutate_message
  <2>2. /\ tab[t].id \in MsgIds
        /\ \A r \in table : r.serial \in {tab[t].key} => r.id = tab[t].id /\ r.type # "delete_all"
    BY <2>1 DEF LoInv, TabsSound
  <2>3. tab[t].op # "purge" /\ type \in {"add", "edit", "delete", "emoticon"} /\ type # "emoticon"
    BY <2>1
  <2> QED
    BY <2>1, <2>2, <2>3, WriteStep
<1>3. CASE react(t)
  <2>1. /\ tab[t].op = "emoticon" /\ Keep(t, "idle", 0, 0)
        /\ commit_with_serial({}, tab[t].id, "emoticon")
        /\ UNCHANGED <<msgid, meta_salt, mints, sealed, mishap>>
    BY <1>3 DEF react
  <2>2. tab[t].id \in MsgIds /\ tab[t].op # "purge"
    BY <2>1 DEF LoInv, TabsSound
  <2> QED
    BY <2>1, <2>2, WriteStep
<1> QED
  BY <1>1, <1>2, <1>3

\* What a step does to the tab that takes it.
LEMMA Kept ==
  ASSUME LoTypeOK, NEW t \in Tabs, NEW op \in {"idle", "edit", "delete", "emoticon", "purge", "mint"},
         NEW i \in MsgIds \cup {0}, NEW k \in Nat, Keep(t, op, i, k)
  PROVE  /\ tab' \in [Tabs -> Tab] /\ tab'[t].op = op /\ tab'[t].id = i /\ tab'[t].key = k
         /\ \A u \in Tabs \ {t} : tab'[u] = tab[u]
         /\ \A u \in Tabs : /\ tab'[u].cursor = tab[u].cursor /\ tab'[u].shows = tab[u].shows
                            /\ tab'[u].salt = tab[u].salt
<1>1. tab \in [Tabs -> Tab] /\ tab[t] \in Tab
  BY DEF LoTypeOK
<1>2. tab' = [tab EXCEPT ![t] = [tab[t] EXCEPT !.op = op, !.id = i, !.key = k]]
  BY <1>1 DEF Keep
<1>3. /\ tab'[t] \in Tab /\ tab'[t].op = op /\ tab'[t].id = i /\ tab'[t].key = k
      /\ tab'[t].cursor = tab[t].cursor /\ tab'[t].shows = tab[t].shows /\ tab'[t].salt = tab[t].salt
  BY <1>1, <1>2 DEF Tab
<1>4. \A u \in Tabs \ {t} : tab'[u] = tab[u]
  BY <1>1, <1>2
<1>5. tab' \in [Tabs -> Tab]
  BY <1>1, <1>2, <1>3
<1> QED
  BY <1>3, <1>4, <1>5

\* A tab reads the row it is about to change.
LEMMA FindStep ==
  ASSUME LoInv, NEW t \in Tabs, NEW i \in MsgIds, NEW op \in {"edit", "delete", "emoticon"},
         find_message(t, i, op)
  PROVE  LoInv'
<1>1. /\ Keep(t, op, i, msgid[i]) /\ tab[t].op = "idle"
      /\ UNCHANGED <<serial, table, msgid, meta_salt, mints, sealed, mishap>>
  BY DEF find_message
<1>2. LoTypeOK /\ RowsSound /\ TabsSound /\ TabsFollow /\ SaltsSound /\ msgid[i] \in Nat
  BY DEF LoInv, LoTypeOK
<1>3. op \in {"idle", "edit", "delete", "emoticon", "purge", "mint"} /\ i \in MsgIds \cup {0}
  OBVIOUS
<1>4. /\ tab' \in [Tabs -> Tab] /\ tab'[t].op = op /\ tab'[t].id = i /\ tab'[t].key = msgid[i]
      /\ \A u \in Tabs \ {t} : tab'[u] = tab[u]
      /\ \A u \in Tabs : /\ tab'[u].cursor = tab[u].cursor /\ tab'[u].shows = tab[u].shows
                         /\ tab'[u].salt = tab[u].salt
  BY <1>1, <1>2, <1>3, Kept
<1>5. LoTypeOK'
  BY <1>1, <1>2, <1>4 DEF LoTypeOK
<1>6. RowsSound'
  BY <1>1, <1>2 DEF RowsSound
<1>7. TabsSound'
  <2>1. /\ tab'[t].cursor <= serial' /\ tab'[t].id \in MsgIds /\ tab'[t].key <= serial'
        /\ \A r \in table' : r.serial = tab'[t].key => r.id = tab'[t].id /\ r.type # "delete_all"
    BY <1>1, <1>2, <1>4 DEF TabsSound, RowsSound
  <2> QED
    BY <1>1, <1>2, <1>4, <2>1 DEF TabsSound
<1>8. TabsFollow'
  <2>1. \A u \in Tabs : tab[u].op = "purge" => tab'[u].op = "purge"
    BY <1>1, <1>4
  <2> QED
    BY <1>1, <1>2, <1>4, <2>1, SameRowsFollow
<1>9. SaltsSound'
  BY <1>1, <1>2, <1>4 DEF SaltsSound
<1> QED
  BY <1>5, <1>6, <1>7, <1>8, <1>9 DEF LoInv

\* A purge takes the rows.
LEMMA PurgeRangeStep ==
  ASSUME LoInv, NEW t \in Tabs, PurgeRange(t)
  PROVE  LoInv'
<1>1. /\ Keep(t, "purge", 0, 0) /\ tab[t].op = "idle" /\ table' = {}
      /\ UNCHANGED <<serial, msgid, meta_salt, mints, sealed, mishap>>
  BY DEF PurgeRange
<1>2. LoTypeOK /\ RowsSound /\ TabsSound /\ TabsFollow /\ SaltsSound
  BY DEF LoInv
<1>4. /\ tab' \in [Tabs -> Tab] /\ tab'[t].op = "purge"
      /\ \A u \in Tabs \ {t} : tab'[u] = tab[u]
      /\ \A u \in Tabs : /\ tab'[u].cursor = tab[u].cursor /\ tab'[u].shows = tab[u].shows
                         /\ tab'[u].salt = tab[u].salt
  <2>1. 0 \in MsgIds \cup {0} /\ 0 \in Nat
    OBVIOUS
  <2> QED
    BY <1>1, <1>2, <2>1, Kept
<1>5. LoTypeOK'
  BY <1>1, <1>2, <1>4 DEF LoTypeOK
<1>6. RowsSound'
  BY <1>1, <1>2, FS_EmptySet DEF RowsSound
<1>7. TabsSound'
  BY <1>1, <1>2, <1>4 DEF TabsSound
<1>8. TabsFollow'
  BY <1>4 DEF TabsFollow
<1>9. SaltsSound'
  BY <1>1, <1>2, <1>4 DEF SaltsSound
<1> QED
  BY <1>5, <1>6, <1>7, <1>8, <1>9 DEF LoInv

\* A purge leaves its marker, behind every cursor.
LEMMA PurgeMarkerStep ==
  ASSUME LoInv, NEW t \in Tabs, PurgeMarker(t)
  PROVE  LoInv'
<1>1. /\ Keep(t, "idle", 0, 0) /\ tab[t].op = "purge" /\ commit_with_serial({}, 0, "delete_all")
      /\ mishap' = mishap \ {"torn"} /\ UNCHANGED <<msgid, meta_salt, mints, sealed>>
  BY DEF PurgeMarker
<1>2. /\ LoTypeOK /\ RowsSound /\ TabsSound /\ TabsFollow /\ SaltsSound
      /\ serial \in Nat /\ msgid \in [MsgIds -> Nat]
  BY DEF LoInv, LoTypeOK
<1>3. /\ serial' = serial + 1 /\ serial' \in Nat /\ table' \subseteq Row /\ IsFiniteSet(table')
      /\ table' = Rewritten(table, {}, serial + 1, 0, "delete_all")
      /\ \A r \in table : r.serial \in 1..serial
      /\ \A r \in table' : /\ 1 <= r.serial /\ r.serial <= serial'
                           /\ r.type # "delete_all" => r.id \in MsgIds
      /\ \A r, q \in table' : r.serial = q.serial => r = q
      /\ \A r \in table' : r \in table \/ (r.serial = serial + 1 /\ r.id = 0 /\ r.type = "delete_all")
  BY <1>1, <1>2, CommitKeepsRows, SMTT(30)
<1>4. /\ tab' \in [Tabs -> Tab] /\ tab'[t].op = "idle"
      /\ \A u \in Tabs \ {t} : tab'[u] = tab[u]
      /\ \A u \in Tabs : /\ tab'[u].cursor = tab[u].cursor /\ tab'[u].shows = tab[u].shows
                         /\ tab'[u].salt = tab[u].salt
  <2>1. 0 \in MsgIds \cup {0} /\ 0 \in Nat
    OBVIOUS
  <2> QED
    BY <1>1, <1>2, <2>1, Kept
<1>5. LoTypeOK'
  BY <1>1, <1>2, <1>3, <1>4 DEF LoTypeOK
<1>6. RowsSound'
  <2>1. ASSUME NEW j \in MsgIds
        PROVE  /\ msgid'[j] <= serial'
               /\ \A r \in table' : r.serial = msgid'[j] => r.id = j /\ r.type # "delete_all"
    <3>1. msgid[j] \in Nat /\ msgid[j] <= serial /\ msgid'[j] = msgid[j]
          /\ \A r \in table : r.serial = msgid[j] => r.id = j /\ r.type # "delete_all"
      BY <1>1, <1>2 DEF RowsSound
    <3>2. msgid[j] # serial + 1 /\ msgid[j] <= serial'
      BY <1>2, <1>3, <3>1
    <3> QED
      BY <1>3, <3>1, <3>2
  <2> QED
    BY <1>3, <2>1 DEF RowsSound
<1>7. TabsSound'
  <2>1. ASSUME NEW u \in Tabs
        PROVE  /\ tab'[u].cursor <= serial'
               /\ tab'[u].op \in {"edit", "delete", "emoticon"} => tab'[u].id \in MsgIds
               /\ tab'[u].op \in {"edit", "delete"} =>
                      /\ tab'[u].key <= serial'
                      /\ \A r \in table' : r.serial = tab'[u].key => r.id = tab'[u].id /\ r.type # "delete_all"
    <3>1. tab[u].cursor <= serial /\ tab[u].cursor \in Nat /\ tab[u].key \in Nat
      BY <1>2 DEF TabsSound, LoTypeOK, Tab
    <3>2. tab'[u].cursor <= serial'
      BY <1>2, <1>3, <1>4, <3>1
    <3>3. ASSUME u # t, tab[u].op \in {"edit", "delete"}
          PROVE  /\ tab[u].key <= serial'
                 /\ \A r \in table' : r.serial = tab[u].key => r.id = tab[u].id /\ r.type # "delete_all"
      <4>1. tab[u].key <= serial
            /\ \A r \in table : r.serial = tab[u].key => r.id = tab[u].id /\ r.type # "delete_all"
        BY <1>2, <3>3 DEF TabsSound
      <4>2. tab[u].key # serial + 1 /\ tab[u].key <= serial'
        BY <1>2, <1>3, <3>1, <4>1
      <4> QED
        BY <1>3, <4>1, <4>2
    <3>4. u # t => (tab[u].op \in {"edit", "delete", "emoticon"} => tab[u].id \in MsgIds)
      BY <1>2 DEF TabsSound
    <3> QED
      BY <1>4, <3>2, <3>3, <3>4
  <2> QED
    BY <2>1 DEF TabsSound
<1>8. TabsFollow'
  <2> SUFFICES ASSUME NEW u \in Tabs PROVE UpTo(tab'[u].cursor, tab'[u].shows, table')
    BY DEF TabsFollow
  <2>1. PICK n \in Nat, rs \in {table'} : n = serial + 1
    BY <1>2
  <2>2. \A r \in rs : r.serial \in 1..n
    <3>1. \A r \in rs : r.serial \in Nat /\ 1 <= r.serial /\ r.serial <= n
      BY <1>2, <1>3, <2>1 DEF Row
    <3> QED
      BY <2>1, <3>1
  <2>3. Cleared(rs) \in 0..n /\ \A r \in rs : r.type = "delete_all" => r.serial <= Cleared(rs)
    BY <2>2, ClearedIs, Zenon
  <2>4. \E r \in rs : r.type = "delete_all" /\ r.serial = n
    <3>1. RowAt(n, 0, "delete_all") \in rs
      BY <1>3, <2>1 DEF Rewritten
    <3>2. RowAt(n, 0, "delete_all").type = "delete_all" /\ RowAt(n, 0, "delete_all").serial = n
      BY DEF RowAt
    <3> QED
      BY <3>1, <3>2
  <2>5. ~(Cleared(rs) <= tab[u].cursor)
    BY <1>2, <2>1, <2>3, <2>4 DEF TabsSound, LoTypeOK, Tab
  <2>6. UpTo(tab[u].cursor, tab[u].shows, rs)
    BY <2>5 DEF UpTo
  <2> QED
    BY <1>4, <2>6
<1>9. SaltsSound'
  BY <1>1, <1>2, <1>4 DEF SaltsSound
<1> QED
  BY <1>5, <1>6, <1>7, <1>8, <1>9 DEF LoInv
\* What a fold leaves shown are messages with the serials of their words.
LEMMA FoldKeepsType ==
  ASSUME NEW page \in SUBSET Row, \A r \in page : r.type # "delete_all" => r.id \in MsgIds,
         NEW shows \in SUBSET [id : MsgIds, content : Nat]
  PROVE  FoldPage(shows, page) \in SUBSET [id : MsgIds, content : Nat]
<1> DEFINE cleared == Cleared(page)
           words == {r \in page : r.serial > cleared /\ r.type # "emoticon"}
           last == {r \in words : \A q \in words : q.id = r.id => q.serial <= r.serial}
           spared == {m \in shows : cleared = 0 /\ \A r \in last : r.id # m.id}
<1>1. FoldPage(shows, page) = spared \cup UNION {FoldRow({}, r) : r \in last}
  BY DEF FoldPage, Cleared
<1>2. ASSUME NEW r \in page, NEW m \in FoldRow({}, r) PROVE m \in [id : MsgIds, content : Nat]
  <2>1. r.type \in {"add", "edit", "delete", "emoticon", "delete_all"} /\ r.serial \in Nat
    BY DEF Row
  <2>2. r.type \in {"add", "edit"} /\ m = [id |-> r.id, content |-> r.serial]
    BY <1>2, <2>1 DEF FoldRow
  <2> QED
    BY <2>1, <2>2
<1>3. last \subseteq page /\ spared \subseteq shows
  OBVIOUS
<1> HIDE DEF last, spared
<1> QED
  BY <1>1, <1>2, <1>3

\* A drained page brings what the tab shows up to the page's last row.
LEMMA DrainStep ==
  ASSUME LoInv, NEW t \in Tabs, Drain(t)
  PROVE  LoInv'
<1> DEFINE page == sync_page(t)
           d == Max({r.serial : r \in sync_page(t)})
           folded == FoldPage(tab[t].shows, page)
<1>1. /\ LoTypeOK /\ RowsSound /\ TabsSound /\ TabsFollow /\ SaltsSound
      /\ tab \in [Tabs -> Tab] /\ tab[t] \in Tab /\ table \subseteq Row
  BY DEF LoInv, LoTypeOK
<1>2. /\ page # {} /\ UNCHANGED <<serial, table, msgid, meta_salt, mints, sealed, mishap>>
      /\ tab' = [tab EXCEPT ![t] = [tab[t] EXCEPT !.shows = folded, !.cursor = d]]
  BY <1>1 DEF Drain
<1>3. /\ d \in Nat /\ tab[t].cursor <= d /\ d <= serial
      /\ page = {r \in table : tab[t].cursor < r.serial /\ r.serial <= d}
  BY <1>1, <1>2, PageOfRows
<1>4. folded \in SUBSET [id : MsgIds, content : Nat]
  <2>1. page \in SUBSET Row /\ \A r \in page : r.type # "delete_all" => r.id \in MsgIds
    BY <1>1, <1>3 DEF RowsSound
  <2>2. tab[t].shows \in SUBSET [id : MsgIds, content : Nat]
    BY <1>1 DEF Tab
  <2> HIDE DEF page
  <2> QED
    BY <2>1, <2>2, FoldKeepsType
<1>5. UpTo(tab[t].cursor, tab[t].shows, table) => UpTo(d, folded, table)
  <2>1. \A r \in table : r.serial \in 1..serial
    BY <1>1 DEF RowsSound, Row, LoTypeOK
  <2>2. serial \in Nat /\ tab[t].cursor \in Nat
    BY <1>1 DEF LoTypeOK, Tab
  <2>3. PICK c \in Nat : c = tab[t].cursor
    BY <2>2
  <2>4. PICK e \in Nat : e = d
    BY <1>3
  <2>5. folded = FoldPage(tab[t].shows, {r \in table : c < r.serial /\ r.serial <= e})
    BY <1>3, <2>3, <2>4
  <2>6. c <= e
    BY <1>3, <2>3, <2>4
  <2> HIDE DEF d, folded
  <2>7. UpTo(c, tab[t].shows, table)
        => UpTo(e, FoldPage(tab[t].shows, {r \in table : c < r.serial /\ r.serial <= e}), table)
    BY <2>1, <2>2, <2>6, PageKeepsUp
  <2> QED
    BY <2>3, <2>4, <2>5, <2>7
<1> HIDE DEF page, d, folded
<1>6. /\ tab'[t] \in Tab /\ tab'[t].shows = folded /\ tab'[t].cursor = d
      /\ tab'[t].op = tab[t].op /\ tab'[t].id = tab[t].id /\ tab'[t].key = tab[t].key
      /\ tab'[t].salt = tab[t].salt
  BY <1>1, <1>2, <1>3, <1>4 DEF Tab
<1>7. tab' \in [Tabs -> Tab] /\ \A u \in Tabs \ {t} : tab'[u] = tab[u]
  BY <1>1, <1>2, <1>6
<1>8. \A u \in Tabs : /\ tab'[u].op = tab[u].op /\ tab'[u].id = tab[u].id
                      /\ tab'[u].key = tab[u].key /\ tab'[u].salt = tab[u].salt
  BY <1>6, <1>7
<1>9. LoTypeOK'
  BY <1>1, <1>2, <1>7 DEF LoTypeOK
<1>10. RowsSound'
  BY <1>1, <1>2 DEF RowsSound
<1>11. TabsSound'
  <2>1. \A u \in Tabs : tab'[u].cursor <= serial
    BY <1>1, <1>3, <1>6, <1>7 DEF TabsSound
  <2> QED
    BY <1>1, <1>2, <1>8, <2>1 DEF TabsSound
<1>12. TabsFollow'
  <2> SUFFICES ASSUME "torn" \notin mishap', \A u \in Tabs : tab'[u].op # "purge", NEW u \in Tabs
               PROVE  UpTo(tab'[u].cursor, tab'[u].shows, table')
    BY DEF TabsFollow
  <2>1. \A v \in Tabs : UpTo(tab[v].cursor, tab[v].shows, table)
    BY <1>1, <1>2, <1>8 DEF TabsFollow
  <2>2. CASE u = t
    BY <1>2, <1>5, <1>6, <2>1, <2>2
  <2>3. CASE u # t
    BY <1>2, <1>7, <2>1, <2>3
  <2> QED
    BY <2>2, <2>3
<1>13. SaltsSound'
  BY <1>1, <1>2, <1>8 DEF SaltsSound
<1> QED
  BY <1>9, <1>10, <1>11, <1>12, <1>13 DEF LoInv

\* A salt read, or minted to be stored.
LEMMA ReadSaltStep ==
  ASSUME LoInv, NEW t \in Tabs, ReadSalt(t)
  PROVE  LoInv'
<1>1. /\ LoTypeOK /\ RowsSound /\ TabsSound /\ TabsFollow /\ SaltsSound
      /\ tab \in [Tabs -> Tab] /\ tab[t] \in Tab /\ meta_salt \in Nat /\ mints \in Nat
  BY DEF LoInv, LoTypeOK
<1>2. /\ tab[t].op = "idle" /\ tab[t].salt = NoSalt
      /\ UNCHANGED <<serial, table, msgid, meta_salt, sealed, mishap>>
  BY DEF ReadSalt
<1>3. /\ tab' \in [Tabs -> Tab] /\ mints' \in Nat /\ tab'[t].op \in {"idle", "mint"}
      /\ \A u \in Tabs \ {t} : tab'[u] = tab[u]
      /\ \A u \in Tabs : tab'[u].cursor = tab[u].cursor /\ tab'[u].shows = tab[u].shows
      /\ tab'[t].salt \in {NoSalt, meta_salt}
      /\ tab'[t].op = "mint" => tab'[t].key # NoSalt
  <2>1. CASE meta_salt # NoSalt
    <3>1. tab' = [tab EXCEPT ![t] = [tab[t] EXCEPT !.salt = meta_salt]] /\ mints' = mints
      BY <1>1, <2>1 DEF ReadSalt
    <3>2. /\ tab'[t] \in Tab /\ tab'[t].op = "idle" /\ tab'[t].salt = meta_salt
          /\ tab'[t].cursor = tab[t].cursor /\ tab'[t].shows = tab[t].shows
      BY <1>1, <1>2, <3>1 DEF Tab
    <3> QED
      BY <1>1, <3>1, <3>2
  <2>2. CASE meta_salt = NoSalt
    <3>1. mints' = mints + 1 /\ Keep(t, "mint", 0, mints + 1)
      BY <2>2 DEF ReadSalt
    <3>2. mints + 1 \in Nat /\ mints + 1 # NoSalt /\ 0 \in MsgIds \cup {0}
      BY <1>1 DEF NoSalt
    <3> QED
      BY <1>1, <1>2, <3>1, <3>2, Kept
  <2> QED
    BY <2>1, <2>2
<1>4. LoTypeOK'
  BY <1>1, <1>2, <1>3 DEF LoTypeOK
<1>5. RowsSound'
  BY <1>1, <1>2 DEF RowsSound
<1>6. TabsSound'
  BY <1>1, <1>2, <1>3 DEF TabsSound
<1>7. TabsFollow'
  <2>1. /\ table' = table /\ ("torn" \in mishap => "torn" \in mishap')
        /\ \A u \in Tabs : /\ tab'[u].cursor = tab[u].cursor /\ tab'[u].shows = tab[u].shows
                           /\ tab[u].op = "purge" => tab'[u].op = "purge"
    BY <1>2, <1>3
  <2> QED
    BY <1>1, <2>1, SameRowsFollow
<1>8. SaltsSound'
  BY <1>1, <1>2, <1>3 DEF SaltsSound
<1> QED
  BY <1>4, <1>5, <1>6, <1>7, <1>8 DEF LoInv

\* A minted salt stored: where none was, nothing was sealed and no tab had one.
LEMMA PutSaltStep ==
  ASSUME LoInv, NEW t \in Tabs, PutSalt(t)
  PROVE  LoInv'
<1>1. /\ LoTypeOK /\ RowsSound /\ TabsSound /\ TabsFollow /\ SaltsSound
      /\ tab \in [Tabs -> Tab] /\ tab[t] \in Tab /\ meta_salt \in Nat /\ tab[t].key \in Nat
  BY DEF LoInv, LoTypeOK, Tab
<1>2. /\ tab[t].op = "mint" /\ meta_salt' = tab[t].key /\ tab[t].key # NoSalt
      /\ mishap' = mishap \cup {x \in {"crossed"} : meta_salt # NoSalt}
      /\ tab' = [tab EXCEPT ![t] = [tab[t] EXCEPT !.op = "idle", !.key = 0, !.salt = tab[t].key]]
      /\ UNCHANGED <<serial, table, msgid, mints, sealed>>
  BY <1>1 DEF PutSalt, SaltsSound
<1>3. /\ tab'[t] \in Tab /\ tab'[t].op = "idle" /\ tab'[t].salt = tab[t].key
      /\ tab'[t].cursor = tab[t].cursor /\ tab'[t].shows = tab[t].shows
  BY <1>1, <1>2 DEF Tab
<1>4. tab' \in [Tabs -> Tab] /\ \A u \in Tabs \ {t} : tab'[u] = tab[u]
  BY <1>1, <1>2, <1>3
<1>5. LoTypeOK'
  BY <1>1, <1>2, <1>4 DEF LoTypeOK
<1>6. RowsSound'
  BY <1>1, <1>2 DEF RowsSound
<1>7. TabsSound'
  BY <1>1, <1>2, <1>3, <1>4 DEF TabsSound
<1>8. TabsFollow'
  <2>1. /\ table' = table /\ ("torn" \in mishap => "torn" \in mishap')
        /\ \A u \in Tabs : /\ tab'[u].cursor = tab[u].cursor /\ tab'[u].shows = tab[u].shows
                           /\ tab[u].op = "purge" => tab'[u].op = "purge"
    BY <1>2, <1>3, <1>4
  <2> QED
    BY <1>1, <2>1, SameRowsFollow
<1>9. SaltsSound'
  <2>1. "crossed" \notin mishap' => meta_salt = NoSalt /\ "crossed" \notin mishap
    BY <1>2
  <2>2. "crossed" \notin mishap' => sealed = {} /\ \A u \in Tabs : tab[u].salt = NoSalt
    BY <1>1, <2>1 DEF SaltsSound
  <2> QED
    BY <1>1, <1>2, <1>3, <1>4, <2>2 DEF SaltsSound
<1> QED
  BY <1>5, <1>6, <1>7, <1>8, <1>9 DEF LoInv

\* What is sealed, is sealed under the stored salt.
LEMMA SealStep ==
  ASSUME LoInv, NEW t \in Tabs, SealAtRest(t)
  PROVE  LoInv'
<1>1. /\ LoTypeOK /\ RowsSound /\ TabsSound /\ TabsFollow /\ SaltsSound /\ tab[t].salt \in Nat
  BY DEF LoInv, LoTypeOK, Tab
<1>2. /\ sealed' = sealed \cup {tab[t].salt} /\ tab[t].salt # NoSalt
      /\ UNCHANGED <<serial, table, msgid, meta_salt, mints, tab, mishap>>
  BY DEF SealAtRest
<1>3. LoTypeOK'
  BY <1>1, <1>2 DEF LoTypeOK
<1>4. RowsSound'
  BY <1>1, <1>2 DEF RowsSound
<1>5. TabsSound'
  BY <1>1, <1>2 DEF TabsSound
<1>6. TabsFollow'
  BY <1>1, <1>2 DEF TabsFollow
<1>7. SaltsSound'
  BY <1>1, <1>2 DEF SaltsSound
<1> QED
  BY <1>3, <1>4, <1>5, <1>6, <1>7 DEF LoInv

\* A reloaded tab shows nothing and is behind every row there is.
LEMMA ReloadStep ==
  ASSUME LoInv, NEW t \in Tabs, Reload(t)
  PROVE  LoInv'
<1>1. /\ LoTypeOK /\ RowsSound /\ TabsSound /\ TabsFollow /\ SaltsSound
      /\ tab \in [Tabs -> Tab] /\ serial \in Nat /\ table \subseteq Row
  BY DEF LoInv, LoTypeOK
<1>2. /\ tab' = [tab EXCEPT ![t] = NewTab]
      /\ mishap' = mishap \cup {x \in {"torn"} : tab[t].op = "purge"}
      /\ UNCHANGED <<serial, table, msgid, meta_salt, mints, sealed>>
  BY DEF Reload
<1>3. /\ NewTab \in Tab /\ NewTab.op = "idle" /\ NewTab.cursor = 0 /\ NewTab.salt = NoSalt
      /\ NewTab.shows = {}
  BY DEF NewTab, Tab, NoSalt
<1>4. tab' \in [Tabs -> Tab] /\ tab'[t] = NewTab /\ \A u \in Tabs \ {t} : tab'[u] = tab[u]
  BY <1>1, <1>2, <1>3
<1>5. LoTypeOK'
  BY <1>1, <1>2, <1>4 DEF LoTypeOK
<1>6. RowsSound'
  BY <1>1, <1>2 DEF RowsSound
<1>7. TabsSound'
  BY <1>1, <1>2, <1>3, <1>4 DEF TabsSound
<1>8. TabsFollow'
  <2> SUFFICES ASSUME "torn" \notin mishap', \A u \in Tabs : tab'[u].op # "purge", NEW u \in Tabs
               PROVE  UpTo(tab'[u].cursor, tab'[u].shows, table')
    BY DEF TabsFollow
  <2>1. "torn" \notin mishap /\ \A v \in Tabs : tab[v].op # "purge"
    BY <1>2, <1>4
  <2>2. CASE u = t
    <3>1. \A i : (\A r \in WordsOn(table, i) : r.serial <= 0) => WordsOn(table, i) = {}
      BY <1>1 DEF WordsOn, RowsSound, Row
    <3>2. \A i : Said({}, i) = {} /\ Shown({}, i) = {}
      BY DEF Said, Shown
    <3>3. UpTo(0, {}, table)
      BY <3>1, <3>2 DEF UpTo
    <3> QED
      BY <1>2, <1>3, <1>4, <2>2, <3>3
  <2>3. CASE u # t
    BY <1>1, <1>2, <1>4, <2>1, <2>3 DEF TabsFollow
  <2> QED
    BY <2>2, <2>3
<1>9. SaltsSound'
  BY <1>1, <1>2, <1>3, <1>4 DEF SaltsSound
<1> QED
  BY <1>5, <1>6, <1>7, <1>8, <1>9 DEF LoInv

\* Every step of the tabs keeps the invariant.
LEMMA LoStep == LoInv /\ [LoNext]_loVars => LoInv'
<1> SUFFICES ASSUME LoInv, [LoNext]_loVars PROVE LoInv'
  OBVIOUS
<1>1. CASE UNCHANGED loVars
  BY <1>1 DEF loVars, LoInv, LoTypeOK, RowsSound, TabsSound, TabsFollow, SaltsSound
<1>2. ASSUME LoNext PROVE LoInv'
  <2>1. PICK t \in Tabs :
           \/ \E i \in MsgIds : send_message(t, i)
           \/ \E i \in MsgIds, op \in {"edit", "delete", "emoticon"} : find_message(t, i, op)
           \/ \E type \in {"edit", "delete"} : mutate_message(t, type)
           \/ react(t) \/ PurgeRange(t) \/ PurgeMarker(t) \/ Drain(t)
           \/ ReadSalt(t) \/ PutSalt(t) \/ SealAtRest(t) \/ Reload(t)
    BY <1>2 DEF LoNext
  <2>2. CASE \/ \E i \in MsgIds : send_message(t, i)
             \/ \E type \in {"edit", "delete"} : mutate_message(t, type)
             \/ react(t)
    BY <2>2, CommitStep
  <2>3. CASE \E i \in MsgIds, op \in {"edit", "delete", "emoticon"} : find_message(t, i, op)
    BY <2>3, FindStep
  <2>4. CASE PurgeRange(t)
    BY <2>4, PurgeRangeStep
  <2>5. CASE PurgeMarker(t)
    BY <2>5, PurgeMarkerStep
  <2>6. CASE Drain(t)
    BY <2>6, DrainStep
  <2>7. CASE ReadSalt(t)
    BY <2>7, ReadSaltStep
  <2>8. CASE PutSalt(t)
    BY <2>8, PutSaltStep
  <2>9. CASE SealAtRest(t)
    BY <2>9, SealStep
  <2>10. CASE Reload(t)
    BY <2>10, ReloadStep
  <2> QED
    BY <2>1, <2>2, <2>3, <2>4, <2>5, <2>6, <2>7, <2>8, <2>9, <2>10
<1> QED
  BY <1>1, <1>2

\* Tabs with nothing left to drain show, of every message, what its last word says.
LEMMA LoInvSound == LoInv => LocalSound
<1> SUFFICES ASSUME LoInv PROVE LocalSound
  OBVIOUS
<1>1. /\ LoTypeOK /\ RowsSound /\ TabsFollow /\ SaltsSound
      /\ tab \in [Tabs -> Tab] /\ serial \in Nat
  BY DEF LoInv, LoTypeOK
<1>2. NothingOrphaned
  BY <1>1 DEF NothingOrphaned, SaltsSound
<1>3. ASSUME "torn" \notin mishap, \A v \in Tabs : tab[v].op # "purge", NEW t \in Tabs, Drained(t)
      PROVE  \A i \in MsgIds : Shown(tab[t].shows, i) = Said(WordsOn(table, i), i)
  <2>1. UpTo(tab[t].cursor, tab[t].shows, table)
    BY <1>1, <1>3 DEF TabsFollow
  <2>2. \A r \in table : r.serial <= tab[t].cursor
    BY <1>1, <1>3, PageOfRows DEF Drained
  <2>3. \A r \in table : r.serial \in 1..serial
    BY <1>1 DEF RowsSound, Row, LoTypeOK
  <2>4. Cleared(table) = 0 \/ \E r \in table : r.serial = Cleared(table)
    BY <1>1, <2>3, ClearedIs
  <2>5. Cleared(table) <= tab[t].cursor
    BY <1>1, <2>2, <2>4 DEF Tab
  <2>6. \A i \in MsgIds : \A r \in WordsOn(table, i) : r.serial <= tab[t].cursor
    BY <2>2 DEF WordsOn
  <2> QED
    BY <2>1, <2>5, <2>6 DEF UpTo
<1>4. ASSUME NEW t \in Tabs, NEW u \in Tabs,
             \A i \in MsgIds : Shown(tab[t].shows, i) = Shown(tab[u].shows, i)
      PROVE  tab[t].shows \subseteq tab[u].shows
  <2>1. ASSUME NEW m \in tab[t].shows PROVE m \in tab[u].shows
    <3>1. m.id \in MsgIds
      BY <1>1, <2>1 DEF Tab
    <3>2. m \in Shown(tab[t].shows, m.id)
      BY <2>1 DEF Shown
    <3>3. m \in Shown(tab[u].shows, m.id)
      BY <1>4, <3>1, <3>2
    <3> QED
      BY <3>3 DEF Shown
  <2> QED
    BY <2>1
<1>5. TabsAgree
  <2> SUFFICES ASSUME "torn" \notin mishap, \A v \in Tabs : tab[v].op # "purge",
                      NEW t \in Tabs, NEW u \in Tabs, Drained(t), Drained(u)
               PROVE  tab[t].shows = tab[u].shows
    BY DEF TabsAgree
  <2>1. \A i \in MsgIds : Shown(tab[t].shows, i) = Said(WordsOn(table, i), i)
    BY <1>3
  <2>2. \A i \in MsgIds : Shown(tab[u].shows, i) = Said(WordsOn(table, i), i)
    BY <1>3
  <2>3. tab[t].shows \subseteq tab[u].shows
    BY <1>4, <2>1, <2>2
  <2>4. tab[u].shows \subseteq tab[t].shows
    BY <1>4, <2>1, <2>2
  <2> QED
    BY <2>3, <2>4
<1> QED
  BY <1>2, <1>5 DEF LocalSound

\* LocalSound holds in every behaviour of the tabs, however many, whatever the page's size
\* (commit_with_serial, the /sync page, the client's fold, get_or_create_salt).
THEOREM TabsShowTheSame == LoInit /\ [][LoNext]_loVars => []LocalSound
<1>1. LoInit => LoInv
  BY LoInitInv
<1>2. LoInv /\ [LoNext]_loVars => LoInv'
  BY LoStep
<1>3. LoInv => LocalSound
  BY LoInvSound
<1> QED
  BY <1>1, <1>2, <1>3, PTL
=============================================================================
