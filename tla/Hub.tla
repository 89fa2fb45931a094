-------------------------------- MODULE Hub --------------------------------
(***************************************************************************)
(* The connection registry of the realtime hub (hub.rs), for the             *)
(* connections of ONE wallet: the caps, the indexes, the authorisation view   *)
(* each connection holds, presence and the beacons that stand in for it.      *)
(*                                                                         *)
(* The maps are DashMaps: each operation on one map is atomic, a sequence of  *)
(* them is not.  Connection tasks, view refreshes, beacon requests and the    *)
(* sweeper run concurrently, and the operations on different maps are steps   *)
(* of their own (a loop over the rooms of one view is one step).  Races lists *)
(* the overlaps an instance allows, so that a run can show what holds without *)
(* one and what breaks with it.                                              *)
(***************************************************************************)
EXTENDS Naturals, FiniteSets

CONSTANTS
    Conns,          \* connection ids, each used once
    Rooms,
    Refreshers,     \* refresh_user calls that may be in flight at once
    MaxPerWallet,   \* MAX_PER_WALLET, 8 in the code
    MaxConnections, \* MAX_CONNECTIONS, 5000 in the code
    Narrowed,       \* connections opened with ?room=
    Restless,       \* connections whose device idles or declares itself away
    Races           \* allowed overlaps, a subset of AllRaces

AllRaces == {"connect_connect", "connect_refresh", "connect_disconnect", "connect_beacon"}

ASSUME HubAssumption ==
    /\ Races \subseteq AllRaces /\ Narrowed \subseteq Conns /\ Restless \subseteq Conns
    /\ IsFiniteSet(Conns) /\ Rooms # {}
    /\ MaxPerWallet \in Nat \ {0} /\ MaxConnections \in Nat \ {0}

VARIABLES
    truth,     \* the rooms the database says the wallet is in
    pc,        \* where each connection's task is
    view,      \* ConnHandle.view: the rooms a connection is subscribed to
    asked,     \* history: the rooms a connection asked for
    conns,     \* Hub.conns
    by_user,   \* Hub.by_user of this wallet
    by_room,   \* Hub.by_room
    active,    \* connections with a recent sign of life, not declared away
    beacon,    \* Hub.beacons of this wallet: "none", "online", "away", "stale"
    announced, \* Hub.presence of this wallet
    refresh,   \* refresh_user calls: step, snapshot and connections still to swap
    put,       \* the PUT /api/presence handler: step, status and connection ids read
    derived    \* per announcing task: the status it derived and has not yet recorded

vars == <<truth, pc, view, asked, conns, by_user, by_room, active, beacon,
          announced, refresh, put, derived>>

Status == {"offline", "away", "online"}
Announcers == Conns \cup {"put", "sweep"}
Steps == {"new", "loaded", "admitted", "indexed", "pushed", "live", "leaving", "emptied", "gone"}

Registering == {c \in Conns : pc[c] \in {"admitted", "indexed", "pushed"}}
Leaving == {c \in Conns : pc[c] \in {"leaving", "emptied"}}
Alone(race, others) == race \in Races \/ others = {}

-----------------------------------------------------------------------------
Init ==
    /\ truth = {} /\ asked = [c \in Conns |-> {}]
    /\ pc = [c \in Conns |-> "new"] /\ view = [c \in Conns |-> {}]
    /\ conns = {} /\ by_user = {} /\ by_room = [r \in Rooms |-> {}]
    /\ active = {} /\ beacon = "none" /\ announced = "offline"
    /\ refresh = [f \in Refreshers |-> [step |-> "idle", snap |-> {}, todo |-> {}]]
    /\ put = [step |-> "idle", status |-> "online", ids |-> {}]
    /\ derived = [a \in Announcers |-> "none"]

\* The devices add up to the most present one; connections that by_user lost do
\* not count, nor does a beacon past its time.
AddUp(held, lively, lit) ==
    IF held \cap lively # {} \/ lit = "online" THEN "online"
    ELSE IF held # {} \/ lit = "away" THEN "away" ELSE "offline"

derive_presence == AddUp(by_user \cap conns, active, beacon)

\* announce_presence reads, then writes the presence map.
Derive(a) == derived' = [derived EXCEPT ![a] = derive_presence]

Announce(a) ==
    /\ derived[a] # "none"
    /\ announced' = derived[a]
    /\ derived' = [derived EXCEPT ![a] = "none"]
    /\ UNCHANGED <<truth, pc, view, asked, conns, by_user, by_room, active, beacon, refresh, put>>

-----------------------------------------------------------------------------
(***************************************************************************)
(* A connection's task: load_view, register, and disconnect.                *)
(***************************************************************************)

\* load_view behind has_capacity; ?room= narrows the view to one room.
Load(c) ==
    /\ pc[c] = "new" /\ Cardinality(conns) < MaxConnections
    /\ Alone("connect_refresh", {f \in Refreshers : refresh[f].step # "idle"})
    /\ \E rooms \in IF c \in Narrowed THEN {{r} : r \in Rooms} ELSE {Rooms} :
         /\ asked' = [asked EXCEPT ![c] = rooms]
         /\ view' = [view EXCEPT ![c] = truth \cap rooms]
    /\ pc' = [pc EXCEPT ![c] = "loaded"]
    /\ UNCHANGED <<truth, conns, by_user, by_room, active, beacon, announced, refresh, put, derived>>

\* register's two caps.
Admits == Cardinality(conns) < MaxConnections /\ Cardinality(by_user) < MaxPerWallet

\* The handle goes, its view with it.
Forget(c) == view' = [view EXCEPT ![c] = {}] /\ asked' = [asked EXCEPT ![c] = {}]

Admit(c) ==
    /\ pc[c] = "loaded"
    /\ Alone("connect_connect", Registering)
    /\ Alone("connect_disconnect", Leaving)
    /\ Alone("connect_beacon", IF put.step = "write" THEN {put} ELSE {})
    /\ IF Admits THEN pc' = [pc EXCEPT ![c] = "admitted"] /\ UNCHANGED <<view, asked>>
       ELSE pc' = [pc EXCEPT ![c] = "gone"] /\ Forget(c)
    /\ UNCHANGED <<truth, conns, by_user, by_room, active, beacon, announced, refresh, put, derived>>


\* The beacon is retired, the rooms are indexed.
IndexRooms(c) ==
    /\ pc[c] = "admitted"
    /\ beacon' = "none"
    /\ by_room' = [r \in Rooms |-> IF r \in view[c] THEN by_room[r] \cup {c} ELSE by_room[r]]
    /\ pc' = [pc EXCEPT ![c] = "indexed"]
    /\ UNCHANGED <<truth, view, asked, conns, by_user, active, announced, refresh, put, derived>>


\* The wallet's index entry.
PushUser(c) ==
    /\ pc[c] = "indexed"
    /\ by_user' = by_user \cup {c}
    /\ pc' = [pc EXCEPT ![c] = "pushed"]
    /\ UNCHANGED <<truth, view, asked, conns, by_room, active, beacon, announced, refresh, put, derived>>

\* The connection enters conns, starts out active, and announces itself.
Insert(c) ==
    /\ pc[c] = "pushed"
    /\ conns' = conns \cup {c} /\ active' = active \cup {c}
    /\ pc' = [pc EXCEPT ![c] = "live"]
    /\ derived' = [derived EXCEPT ![c] = AddUp(by_user \cap conns', active', beacon)]
    /\ UNCHANGED <<truth, view, asked, by_user, by_room, beacon, announced, refresh, put>>

\* unregister, first part: out of conns and out of the rooms of its view.
Remove(c) ==
    /\ pc[c] = "live" /\ derived[c] = "none"
    /\ Alone("connect_disconnect", Registering)
    /\ conns' = conns \ {c}
    /\ by_room' = [r \in Rooms |-> IF r \in view[c] THEN by_room[r] \ {c} ELSE by_room[r]]
    /\ pc' = [pc EXCEPT ![c] = "leaving"]
    /\ active' = active \ {c} /\ Forget(c)
    /\ UNCHANGED <<truth, by_user, beacon, announced, refresh, put, derived>>


\* ids.retain(..) under get_mut; whether the entry is now empty is remembered.
Retain(c) ==
    /\ pc[c] = "leaving"
    /\ by_user' = by_user \ {c}
    /\ IF by_user' = {} THEN pc' = [pc EXCEPT ![c] = "emptied"] /\ UNCHANGED derived
       ELSE pc' = [pc EXCEPT ![c] = "gone"] /\ Derive(c)
    /\ UNCHANGED <<truth, view, asked, conns, by_room, active, beacon, announced, refresh, put>>

\* by_user.remove(wallet), whatever has been pushed since.
DropEntry(c) ==
    /\ pc[c] = "emptied"
    /\ by_user' = {}
    /\ pc' = [pc EXCEPT ![c] = "gone"]
    /\ derived' = [derived EXCEPT ![c] = AddUp({}, active, beacon)]
    /\ UNCHANGED <<truth, view, asked, conns, by_room, active, beacon, announced, refresh, put>>

-----------------------------------------------------------------------------
(***************************************************************************)
(* refresh_user, after a handler has changed the wallet's rooms or blocks.  *)
(***************************************************************************)

Change(f) ==
    /\ refresh[f].step = "idle"
    /\ Alone("connect_refresh", {c \in Conns : pc[c] \in {"loaded", "admitted", "indexed", "pushed"}})
    /\ \E rooms \in SUBSET Rooms : rooms # truth /\ truth' = rooms
    /\ refresh' = [refresh EXCEPT ![f].step = "load"]
    /\ UNCHANGED <<pc, view, asked, conns, by_user, by_room, active, beacon, announced, put, derived>>

LoadView(f) ==
    /\ refresh[f].step = "load"
    /\ refresh' = [refresh EXCEPT ![f] = [step |-> "ids", snap |-> truth, todo |-> {}]]
    /\ UNCHANGED <<truth, pc, view, asked, conns, by_user, by_room, active, beacon, announced, put, derived>>

ReadIds(f) ==
    /\ refresh[f].step = "ids"
    /\ refresh' = [refresh EXCEPT ![f].step = IF by_user = {} THEN "idle" ELSE "swap",
                                  ![f].todo = by_user]
    /\ UNCHANGED <<truth, pc, view, asked, conns, by_user, by_room, active, beacon, announced, put, derived>>

\* Faulty variant: the snapshot is merged into the view it should replace.
Swap_Merged(f) ==
    /\ refresh[f].step = "swap"
    /\ \E c \in refresh[f].todo :
         /\ IF c \in conns
            THEN /\ view' = [view EXCEPT ![c] = @ \cup refresh[f].snap]
                 /\ by_room' = [r \in Rooms |-> IF r \in view'[c] THEN by_room[r] \cup {c} ELSE by_room[r]]
            ELSE UNCHANGED <<view, by_room>>
         /\ refresh' = [refresh EXCEPT ![f].todo = @ \ {c},
                                       ![f].step = IF refresh[f].todo = {c} THEN "idle" ELSE "swap"]
    /\ UNCHANGED <<truth, pc, asked, conns, by_user, active, beacon, announced, put, derived>>

\* set_user_view for one of the ids read: swap the view, move the index entries.
Swap(f) ==
    /\ refresh[f].step = "swap"
    /\ \E c \in refresh[f].todo :
         /\ IF c \in conns
            THEN /\ view' = [view EXCEPT ![c] = refresh[f].snap]
                 /\ by_room' = [r \in Rooms |-> IF r \in refresh[f].snap THEN by_room[r] \cup {c}
                                                ELSE by_room[r] \ {c}]
            ELSE UNCHANGED <<view, by_room>>
         /\ refresh' = [refresh EXCEPT ![f].todo = @ \ {c},
                                       ![f].step = IF refresh[f].todo = {c} THEN "idle" ELSE "swap"]
    /\ UNCHANGED <<truth, pc, asked, conns, by_user, active, beacon, announced, put, derived>>

-----------------------------------------------------------------------------
(***************************************************************************)
(* Presence.                                                                *)
(***************************************************************************)

\* note_activity: a frame arrived; announce unless already announced online.
KeepAlive(c) ==
    /\ pc[c] = "live" /\ derived[c] = "none"
    /\ c \notin active \/ announced # "online"
    /\ active' = active \cup {c}
    /\ IF announced = "online" THEN UNCHANGED derived
       ELSE derived' = [derived EXCEPT ![c] = AddUp(by_user \cap conns, active', beacon)]
    /\ UNCHANGED <<truth, pc, view, asked, conns, by_user, by_room, beacon, announced, refresh, put>>

\* Five silent minutes; nothing announces it but the sweeper.
FallIdle(c) ==
    /\ c \in Restless
    /\ pc[c] = "live" /\ c \in active
    /\ active' = active \ {c}
    /\ UNCHANGED <<truth, pc, view, asked, conns, by_user, by_room, beacon, announced, refresh, put, derived>>

\* declare_presence: a presence frame; either way the status is announced.
Declare(c) ==
    /\ c \in Restless
    /\ pc[c] = "live" /\ derived[c] = "none"
    /\ active' \in {active \cup {c}, active \ {c}}
    /\ derived' = [derived EXCEPT ![c] = AddUp(by_user \cap conns, active', beacon)]
    /\ UNCHANGED <<truth, pc, view, asked, conns, by_user, by_room, beacon, announced, refresh, put>>

\* beacon(): the ids are read, then the beacon is written or dropped.
PutPresence ==
    /\ put.step = "idle"
    /\ Alone("connect_beacon", Registering)
    /\ \E status \in {"online", "away"} :
         put' = [step |-> "write", status |-> status, ids |-> by_user]
    /\ UNCHANGED <<truth, pc, view, asked, conns, by_user, by_room, active, beacon, announced, refresh, derived>>

WriteBeacon ==
    /\ put.step = "write"
    /\ beacon' = IF put.ids = {} THEN put.status ELSE "none"
    /\ active' = IF put.status = "online" THEN active \cup (put.ids \cap conns)
                 ELSE active \ (put.ids \cap conns)
    /\ put' = [put EXCEPT !.step = "announce"]
    /\ UNCHANGED <<truth, pc, view, asked, conns, by_user, by_room, announced, refresh, derived>>

PutAnnounces ==
    /\ put.step = "announce" /\ derived["put"] = "none"
    /\ Derive("put")
    /\ put' = [step |-> "idle", status |-> "online", ids |-> {}]
    /\ UNCHANGED <<truth, pc, view, asked, conns, by_user, by_room, active, beacon, announced, refresh>>

\* BEACON_TTL_MS passes.
BeaconAges ==
    /\ beacon \in {"online", "away"} /\ beacon' = "stale"
    /\ UNCHANGED <<truth, pc, view, asked, conns, by_user, by_room, active, announced, refresh, put, derived>>

\* Faulty variant: the sweeper only drops beacons.
Sweep_NoAnnounce ==
    /\ derived["sweep"] = "none" /\ beacon = "stale"
    /\ beacon' = "none"
    /\ UNCHANGED <<truth, pc, view, asked, conns, by_user, by_room, active, announced, refresh, put, derived>>

\* sweep_presence: stale beacons go, then every announced wallet whose status
\* has moved is announced again.
Sweep ==
    /\ derived["sweep"] = "none"
    /\ beacon = "stale" \/ announced \notin {"offline", derive_presence}
    /\ beacon' = IF beacon = "stale" THEN "none" ELSE beacon
    /\ IF announced \notin {"offline", derive_presence} THEN Derive("sweep") ELSE UNCHANGED derived
    /\ UNCHANGED <<truth, pc, view, asked, conns, by_user, by_room, active, announced, refresh, put>>

-----------------------------------------------------------------------------
ConnStep(c) == IndexRooms(c) \/ PushUser(c) \/ Insert(c) \/ Retain(c) \/ DropEntry(c)
RefreshStep(f) == LoadView(f) \/ ReadIds(f) \/ Swap(f)
PutStep == WriteBeacon \/ PutAnnounces

Next ==
    \/ \E c \in Conns : Load(c) \/ Admit(c) \/ ConnStep(c) \/ Remove(c) \/ KeepAlive(c) \/ FallIdle(c) \/ Declare(c)
    \/ \E f \in Refreshers : Change(f) \/ RefreshStep(f)
    \/ PutPresence \/ PutStep \/ BeaconAges \/ Sweep
    \/ \E a \in Announcers : Announce(a)

\* Started tasks run on, the sweeper ticks, beacons age, and a connected client
\* keeps sending frames (every 25 s) or beacons (every 60 s).
Fairness ==
    /\ \A c \in Conns : WF_vars(ConnStep(c)) /\ WF_vars(KeepAlive(c))
    /\ \A f \in Refreshers : WF_vars(RefreshStep(f))
    /\ WF_vars(PutStep) /\ WF_vars(BeaconAges) /\ WF_vars(Sweep)
    /\ \A a \in Announcers : WF_vars(Announce(a))

Spec == Init /\ [][Next]_vars /\ Fairness

-----------------------------------------------------------------------------
(***************************************************************************)
(* Properties.                                                              *)
(***************************************************************************)

\* Every variable in its domain; a connection in an index has been admitted.
TypeOK ==
    /\ truth \subseteq Rooms /\ pc \in [Conns -> Steps]
    /\ view \in [Conns -> SUBSET Rooms] /\ asked \in [Conns -> SUBSET Rooms]
    /\ conns \subseteq Conns /\ by_user \subseteq Conns /\ by_room \in [Rooms -> SUBSET Conns]
    /\ active \subseteq Conns /\ beacon \in {"none", "online", "away", "stale"} /\ announced \in Status
    /\ refresh \in [Refreshers -> [step : {"idle", "load", "ids", "swap"},
                                   snap : SUBSET Rooms, todo : SUBSET Conns]]
    /\ put \in [step : {"idle", "write", "announce"}, status : Status, ids : SUBSET Conns]
    /\ derived \in [Announcers -> Status \cup {"none"}]
    /\ \A c \in conns \cup by_user : pc[c] \notin {"new", "loaded", "admitted"}

Settled == /\ \A c \in Conns : pc[c] \in {"new", "live", "gone"}
           /\ \A f \in Refreshers : refresh[f].step = "idle"

\* The caps hold, counted over the connections that are really open ("Admit a
\* connection, enforcing both caps").
CapsHold == Cardinality(conns) <= MaxPerWallet /\ Cardinality(conns) <= MaxConnections

\* With no task half way, the indexes list exactly the open connections, each
\* under the rooms of its view (unregister, "Remove a connection from every index").
IndexesExact ==
    Settled => /\ by_user = conns
               /\ \A r \in Rooms : by_room[r] = {c \in conns : r \in view[c]}

\* With no task half way, an open connection's view is what the database says
\* (refresh_user, "a patched set that drifts from the database is a silent
\* authorisation bug").
ViewsFresh == Settled => \A c \in conns : c \notin Narrowed => view[c] = truth

\* A stream opened for one room stays one ("A single-room stream is a narrowing of
\* the same view, never a widening").
StaysNarrow == \A c \in conns : view[c] \subseteq asked[c]

\* A beacon exists only while its owner has no connection (Hub.beacons, "an entry
\* exists only while its owner has no real one. That invariant is the whole design").
BeaconStandsAlone == beacon # "none" => conns = {}

\* The registry describes the open connections: no more than the caps admit, in every
\* index they belong to, with the view the database gives, and no beacon beside them.
RegistryExact == TypeOK /\ CapsHold /\ IndexesExact /\ ViewsFresh /\ BeaconStandsAlone

\* Once the devices stop changing, what is announced settles on what they add up
\* to, whichever announcements crossed on the way (announce_presence, "Two
\* announcements racing can in principle land in the opposite order").
PresenceSettles ==
    \A s \in Status : <>[](derive_presence = s) => <>[](announced = s)
=============================================================================
