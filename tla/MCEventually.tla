---------------------------- MODULE MCEventually ----------------------------
(* What must eventually happen, for TLC: the presence of a wallet and a client's   *)
(* copy of a room, each under its own fairness.  A behaviour plays one of them;     *)
(* the state of the other rests.                                                   *)
VARIABLES
    truth, pc, view, asked, conns, by_user, by_room, active, beacon, announced, refresh, put, derived,
    rows, minted, next_serial, top_serial, task,
    room, disk, saved, handle, job, echo, slips,
    scene

hubVars == <<truth, pc, view, asked, conns, by_user, by_room, active, beacon, announced, refresh, put, derived>>
syncVars == <<rows, minted, next_serial, top_serial, task, room, disk, saved, handle, job, echo, slips>>

\* Two connections that idle and come back, every overlap allowed.
H == INSTANCE Hub WITH
    Conns <- {"c1", "c2"}, Rooms <- {"r1"}, Refreshers <- {}, MaxPerWallet <- 2, MaxConnections <- 2,
    Narrowed <- {}, Restless <- {"c1", "c2"}, Races <- {"connect_connect", "connect_disconnect", "connect_beacon"}

\* Two users, one of them blocked by the viewer, every kind of write, pages of one row.
R == INSTANCE RoomSync WITH
    Users <- {"u1", "u2"}, Admins <- {"u1"}, Tasks <- {"t1"},
    Ops <- {"reply", "edit", "remove", "purge", "emoticon"}, Sealings <- {FALSE}, Clock <- {1},
    MaxIds <- 3, MaxSerial <- 3, Viewer <- "u1", Blocked <- {"u2"}, Jobs <- {"j1"}, Moves <- {},
    SyncLimit <- 1, HistoryLimit <- 1, MaxRows <- 3, MaxSlips <- 9

EventuallyInit == H!Init /\ R!SyncInit /\ scene \in {"presence", "room"}
EventuallyNext ==
    /\ UNCHANGED scene
    /\ \/ scene = "presence" /\ H!Next /\ UNCHANGED syncVars
       \/ scene = "room" /\ R!SyncNext /\ UNCHANGED hubVars

\* The fairness of each module, in its own scene.
PresenceFairness ==
    /\ \A c \in {"c1", "c2"} : /\ WF_hubVars(scene = "presence" /\ H!ConnStep(c))
                               /\ WF_hubVars(scene = "presence" /\ H!KeepAlive(c))
    /\ WF_hubVars(scene = "presence" /\ H!PutStep)
    /\ WF_hubVars(scene = "presence" /\ H!BeaconAges) /\ WF_hubVars(scene = "presence" /\ H!Sweep)
    /\ \A a \in H!Announcers : WF_hubVars(scene = "presence" /\ H!Announce(a))
RoomFairness ==
    /\ WF_syncVars(scene = "room" /\ R!Fetch("j1")) /\ WF_syncVars(scene = "room" /\ R!Wake("j1"))

EventuallySpec ==
    /\ EventuallyInit /\ [][EventuallyNext]_<<hubVars, syncVars, scene>>
    /\ PresenceFairness /\ RoomFairness

\* Once the devices stop changing, what is announced settles on what they add up to
\* (announce_presence, sweep_presence).
PresenceSettles == H!PresenceSettles

\* A client at the head of the stream shows the current messages and reactions
\* (drain_sync, fold_one, aggregate_emoticons).
HeadIsCurrent == R!HeadIsCurrent

\* However the room is written, the client comes back to showing its current state
\* (drain_sync, next_sync_cursor).
Converges == R!Converges
=============================================================================
