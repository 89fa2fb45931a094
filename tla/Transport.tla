----------------------------- MODULE Transport -----------------------------
(***************************************************************************)
(* The web client's way to the server: the ladder WebSocket -> SSE ->            *)
(* polling with its retries and demotions (web/src/realtime.rs), the effect of   *)
(* app.rs that runs it, keyed on (token, mode, tier_failures), the reachability  *)
(* probe, and the connection pill the presence beacon hangs on.                  *)
(*                                                                         *)
(* A render that changes the effect's key tears the old run of the effect down   *)
(* and starts the next one in the same step.  A torn-down socket says nothing    *)
(* more (its loop and its timer look at `cancelled`); a ticket request that is   *)
(* in flight then goes on, and is kept in `late` with the run's own snapshot.     *)
(***************************************************************************)
EXTENDS Naturals, FiniteSets

CONSTANTS
    MaxUser,     \* what the user does: change mode, sign in or out, refresh
    MaxNet,      \* failures of a network that is not blocked, and outages
    SlowFailure  \* whether a blocked handshake may take longer than the 2 s of health

Tiers == {"ws", "sse", "polling"}
MaxAttempts == 3       \* MAX_ATTEMPTS_PER_TIER

VARIABLES
    blocked,   \* tiers something between client and server never lets through
    mode,      \* the preference, ConnectionMode
    token,     \* signed in
    failures,  \* tier_failures
    run,       \* the effect's current run: tier, snapshot of its key, state, attempts
    late,      \* torn-down runs whose ticket was in flight: waiting or open
    conn,      \* ConnStatus
    reach,     \* whether the server answers
    online,    \* AppState.online
    lastUp,    \* last_up of the connectivity effect's current run
    probes,    \* the effect's runs with a probe in flight: "current", or the last_up of an old one
    userLeft, netLeft

trVars == <<blocked, mode, token, failures, run, late, conn, reach, online, lastUp, probes, userLeft, netLeft>>
netVars == <<blocked, reach, userLeft, netLeft>>
probeVars == <<online, lastUp, probes>>

\* select_transport
select_transport(preference, n) ==
    IF preference = "polling" \/ (preference = "sse" /\ n >= 2) \/ n >= 4 THEN "polling"
    ELSE IF preference = "sse" \/ n >= 2 THEN "sse"
    ELSE "ws"

\* A run of the effect as it starts, and with nobody signed in.
NewRun(m, n) == [tier |-> select_transport(m, n), pref |-> m, snap |-> n, attempt |-> 0,
                 st |-> IF select_transport(m, n) = "sse" THEN "ticket"
                        ELSE IF select_transport(m, n) = "ws" THEN "waiting" ELSE "none"]
NoRun == [tier |-> "polling", pref |-> "polling", snap |-> 0, attempt |-> 0, st |-> "none"]

TrInit ==
    /\ blocked \in SUBSET {"ws", "sse"} /\ mode \in Tiers /\ token = FALSE /\ failures = 0
    /\ run = NoRun /\ late = {} /\ conn = "offline"
    /\ reach = TRUE /\ online = TRUE /\ lastUp = TRUE /\ probes = {"current"}
    /\ userLeft = MaxUser /\ netLeft = MaxNet

\* The effect after a render: the old run is torn down and its open source closed;
\* with a token the next run starts.  `shows` is the pill the render came with.
Rekey(t, m, n, shows) ==
    /\ token' = t /\ mode' = m /\ failures' = n
    /\ late' = late \cup {[st |-> "ticket", pref |-> r.pref, snap |-> r.snap] :
                             r \in {s \in {run} : s.st = "ticket"}}
    /\ run' = IF t THEN NewRun(m, n) ELSE NoRun
    /\ conn' = IF t /\ select_transport(m, n) = "polling" THEN "polling" ELSE shows

-----------------------------------------------------------------------------
(***************************************************************************)
(* What the user does.                                                      *)
(***************************************************************************)

\* Action::SetMode, from the pill or the settings.
SetMode(m) ==
    /\ userLeft > 0 /\ userLeft' = userLeft - 1
    /\ mode # m
    /\ LET shows == IF m = "polling" THEN "polling" ELSE "syncing" IN
       IF token THEN Rekey(token, m, failures, shows)
       ELSE mode' = m /\ conn' = shows /\ UNCHANGED <<token, failures, run, late>>
    /\ UNCHANGED <<blocked, reach, netLeft, probeVars>>

\* Signing in and out also re-runs the connectivity effect: last_up starts from the
\* store, a first probe goes out, and one still in flight keeps its own last_up.
ConnectivityReruns ==
    /\ lastUp' = online
    /\ probes' = (IF "current" \in probes THEN {IF lastUp THEN "was up" ELSE "was down"} ELSE {})
                  \cup probes \cup {"current"}
    /\ UNCHANGED online
SignIn ==
    /\ userLeft > 0 /\ userLeft' = userLeft - 1
    /\ ~token /\ reach /\ Rekey(TRUE, mode, failures, conn)
    /\ ConnectivityReruns /\ UNCHANGED <<blocked, reach, netLeft>>
SignOut ==
    /\ userLeft > 0 /\ userLeft' = userLeft - 1
    /\ token /\ Rekey(FALSE, mode, failures, "offline")
    /\ ConnectivityReruns /\ UNCHANGED <<blocked, reach, netLeft>>

\* The chat's refresh button: on_refresh marks the pill and refetches the room.
Refresh ==
    /\ userLeft > 0 /\ userLeft' = userLeft - 1
    /\ token /\ conn' = "syncing"
    /\ UNCHANGED <<blocked, mode, token, failures, run, late, reach, netLeft, probeVars>>

-----------------------------------------------------------------------------
(***************************************************************************)
(* Signals of the current run (on_signal).                                  *)
(***************************************************************************)

\* Faulty variant: whichever tier proves itself clears the debt.
Healthy_AnyTier(r, t, shows, next) ==
    IF r.snap # 0 THEN Rekey(token, mode, 0, shows)
    ELSE run' = next /\ conn' = shows /\ UNCHANGED <<token, mode, failures, late>>
\* RealtimeSignal::Healthy: only the preferred tier clears the debt, which re-keys.
Healthy(r, t, shows, next) ==
    IF select_transport(r.pref, 0) = t /\ r.snap # 0 THEN Rekey(token, mode, 0, shows)
    ELSE run' = next /\ conn' = shows /\ UNCHANGED <<token, mode, failures, late>>

\* RealtimeSignal::Exhausted: one more failure than the run was started with.
Exhausted(r) == Rekey(token, mode, r.snap + 1, "offline")

Stays(next, shows) == run' = next /\ conn' = shows /\ UNCHANGED <<token, mode, failures, late>>

\* The network carries tier t now, or lets it fail at a cost of the budget.
Carries(t) == t \notin blocked /\ reach
Spend == IF run.tier \in blocked \/ ~reach THEN UNCHANGED netLeft ELSE netLeft > 0 /\ netLeft' = netLeft - 1

\* connect_ws, top of the loop: the object is constructed, which the pill takes for
\* a connection.
OpenSocket ==
    /\ run.tier = "ws" /\ run.st = "waiting"
    /\ Stays([run EXCEPT !.st = "opening"], "ws")
    /\ UNCHANGED <<netVars, probeVars>>
Handshake ==
    /\ run.tier = "ws" /\ run.st \in {"opening", "hanging"} /\ Carries("ws")
    /\ Stays([run EXCEPT !.st = IF @ = "opening" THEN "up" ELSE "proved"], conn)
    /\ UNCHANGED <<netVars, probeVars>>
\* The 2 s timer: the session is still there, be it only as a handshake in flight.
Prove ==
    /\ run.tier = "ws"
    /\ run.st = "up" \/ (run.st = "opening" /\ SlowFailure)
    /\ Healthy(run, "ws", conn, [run EXCEPT !.st = IF @ = "up" THEN "proved" ELSE "hanging"])
    /\ UNCHANGED <<netVars, probeVars>>

\* The read loop ends: session_was_healthy, one more attempt, and Exhausted at the
\* third; otherwise a backoff and round again.
SocketEnds ==
    /\ run.tier = "ws" /\ run.st \in {"opening", "hanging", "up", "proved"} /\ Spend
    /\ LET n == (IF run.st \in {"hanging", "proved"} THEN 0 ELSE run.attempt) + 1 IN
       IF n >= MaxAttempts THEN Exhausted(run)
       ELSE Stays([run EXCEPT !.st = "waiting", !.attempt = n], "offline")
    /\ UNCHANGED <<blocked, reach, userLeft, probeVars>>

\* events_ticket answers: the stream is opened with the ticket, or the pill says
\* polling and nothing retries.
TicketAnswered ==
    /\ run.st = "ticket" /\ reach
    /\ Stays([run EXCEPT !.st = "connecting"], conn)
    /\ UNCHANGED <<netVars, probeVars>>
TicketRefused ==
    /\ run.st = "ticket"
    /\ IF reach THEN netLeft > 0 /\ netLeft' = netLeft - 1 ELSE UNCHANGED netLeft
    /\ Stays([run EXCEPT !.st = "refused"], "polling")
    /\ UNCHANGED <<blocked, reach, userLeft, probeVars>>
\* EventSource: onopen; onerror while it reconnects by itself; onerror once it is
\* closed, which a reconnect with its spent ticket always ends in.
StreamOpens ==
    /\ run.tier = "sse" /\ run.st = "connecting" /\ Carries("sse")
    /\ Healthy(run, "sse", "sse", [run EXCEPT !.st = "up"])
    /\ UNCHANGED <<netVars, probeVars>>
StreamDrops ==
    /\ run.tier = "sse" /\ run.st \in {"connecting", "up"} /\ Spend
    /\ Stays([run EXCEPT !.st = "reconnecting"], "offline")
    /\ UNCHANGED <<blocked, reach, userLeft, probeVars>>
StreamCloses ==
    /\ run.tier = "sse" /\ run.st = "reconnecting" /\ reach
    /\ Exhausted(run)
    /\ UNCHANGED <<netVars, probeVars>>

\* The same request in a run that has been torn down: nothing looks at `cancelled`
\* before the stream is opened, nor in onopen.
LateTicket(l) ==
    /\ l \in late /\ l.st = "ticket" /\ reach
    /\ late' = (late \ {l}) \cup {[l EXCEPT !.st = "connecting"]}
    /\ UNCHANGED <<mode, token, failures, run, conn, netVars, probeVars>>
LateRefused(l) ==
    /\ l \in late /\ l.st = "ticket" /\ ~reach
    /\ late' = late \ {l} /\ conn' = "polling"
    /\ UNCHANGED <<mode, token, failures, run, netVars, probeVars>>
LateOpens(l) ==
    /\ l \in late /\ l.st = "connecting" /\ Carries("sse")
    /\ LET open == (late \ {l}) \cup {[l EXCEPT !.st = "open"]}
           clears == select_transport(l.pref, 0) = "sse" /\ l.snap # 0 /\ failures # 0
           torn == {[st |-> "ticket", pref |-> r.pref, snap |-> r.snap] : r \in {s \in {run} : s.st = "ticket"}}
       IN IF clears /\ token
          THEN /\ failures' = 0 /\ run' = NewRun(mode, 0) /\ late' = open \cup torn
               /\ conn' = IF select_transport(mode, 0) = "polling" THEN "polling" ELSE "sse"
          ELSE /\ failures' = IF clears THEN 0 ELSE failures
               /\ late' = open /\ conn' = "sse" /\ UNCHANGED run
    /\ UNCHANGED <<mode, token, netVars, probeVars>>
LateCloses(l) ==
    /\ l \in late /\ l.st \in {"connecting", "open"} /\ ~Carries("sse")
    /\ late' = late \ {l}
    /\ UNCHANGED <<mode, token, failures, run, conn, netVars, probeVars>>

-----------------------------------------------------------------------------
(***************************************************************************)
(* Reachability.                                                            *)
(***************************************************************************)

\* The interval, while down, and the browser's online and offline events.
Probe ==
    /\ "current" \notin probes /\ probes' = probes \cup {"current"}
    /\ UNCHANGED <<mode, token, failures, run, late, conn, netVars, online, lastUp>>

\* A probe's answer; only a change is told to the store.  refresh_all is RoomSync's.
Tell(up) ==
    /\ online' = up
    /\ conn' = IF up THEN "syncing" ELSE "offline"
ProbeAnswered(up) ==
    /\ "current" \in probes /\ probes' = probes \ {"current"} /\ up = reach
    /\ IF up = lastUp THEN UNCHANGED <<online, lastUp, conn>> ELSE Tell(up) /\ lastUp' = up
    /\ UNCHANGED <<mode, token, failures, run, late, netVars>>

\* The answer to a probe of an earlier run, which compares with its own last_up; its
\* request may fail when the server already answers others.
OldProbeAnswered(old, up) ==
    /\ old \in probes \ {"current"} /\ probes' = probes \ {old}
    /\ up => reach
    /\ IF ~up /\ reach THEN netLeft > 0 /\ netLeft' = netLeft - 1 ELSE UNCHANGED netLeft
    /\ IF up = (old = "was up") THEN UNCHANGED <<online, conn>> ELSE Tell(up)
    /\ UNCHANGED <<blocked, mode, token, failures, run, late, reach, userLeft, lastUp>>

Outage ==
    /\ netLeft > 0 /\ netLeft' = netLeft - 1 /\ reach /\ reach' = FALSE
    /\ UNCHANGED <<blocked, mode, token, failures, run, late, conn, userLeft, probeVars>>
Restored ==
    /\ ~reach /\ reach' = TRUE
    /\ UNCHANGED <<blocked, mode, token, failures, run, late, conn, userLeft, netLeft, probeVars>>

\* What happens by itself: timers, the browser and the network.
Runs == OpenSocket \/ Handshake \/ Prove \/ TicketAnswered \/ StreamOpens \/ StreamCloses
Fails == SocketEnds \/ StreamDrops
FailsOfItself == Fails /\ UNCHANGED netLeft
Lates == \E l \in late : LateTicket(l) \/ LateRefused(l) \/ LateOpens(l) \/ LateCloses(l)

TrNext ==
    \/ \E m \in Tiers : SetMode(m)
    \/ SignIn \/ SignOut \/ Refresh
    \/ Runs \/ Fails \/ TicketRefused \/ Lates
    \/ Probe \/ \E up \in BOOLEAN : ProbeAnswered(up) \/ \E old \in {"was up", "was down"} : OldProbeAnswered(old, up)
    \/ Outage \/ Restored

-----------------------------------------------------------------------------
\* The ladder comes to rest: however often the user and the network interfere, the
\* client ends on a tier that carries it and stays there, on the socket, the stream
\* or the timer; it neither retries a transport that cannot work for ever nor swings
\* between two tiers (on_signal, connect_ws: "the two would alternate for the life
\* of the session").
Settled == token => run.st \in {"up", "proved", "none", "refused"}
LadderRests == <>[]Settled

\* A client that is left to itself on the stream or on the timer is named so by the
\* pill, which is what keeps its presence beacon going (app.rs: "without this an SSE
\* reader would age into a false away ... and a polling client would never appear").
BeaconKept == <>[](token /\ run.tier \in {"sse", "polling"} /\ Settled => conn \in {"sse", "polling"})
=============================================================================
