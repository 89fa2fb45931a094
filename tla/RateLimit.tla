----------------------------- MODULE RateLimit -----------------------------
(***************************************************************************)
(* The fixed-window limiter (ratelimit.rs) for one scope: requests of several  *)
(* addresses read the clock, then take the window's entry under its lock; the  *)
(* opportunistic sweep drops windows that have run out.  A request may hold an  *)
(* older instant than the window it finds.                                   *)
(***************************************************************************)
EXTENDS Naturals, FiniteSets

CONSTANTS
    Peers,        \* client addresses, as client_ip bills them
    Checks,       \* requests inside check_at at once
    Limit,        \* max_per_minute of the scope
    Window,       \* WINDOW in clock ticks
    Threshold,    \* SWEEP_THRESHOLD
    MaxClock      \* bound: ticks

\* A tick is longer than a request takes from the clock to the lock, and WINDOW is longer
\* than that.
ASSUME RateAssumption ==
    /\ Limit \in Nat \ {0} /\ Window \in Nat \ {0, 1} /\ MaxClock \in Nat /\ Peers # {}

VARIABLES
    clock,    \* Instant::now()
    window,   \* per address: start and count; count 0 where there is no entry, and then
              \* start is what the entry had that was dropped
    check,    \* per request: address and the instant it read
    opened,   \* history: per address, how many windows there were
    admitted, \* history: per address, the requests let through in the last Window ticks:
              \* when, in which window, and as which of that window
    crossed   \* history: addresses of which a sweep dropped the window before a request
              \* with an older instant, one still inside the window, could count in it

rateVars == <<clock, window, check, opened, admitted, crossed>>

NoWindow == [start |-> 0, count |-> 0]
NoCheck == [step |-> "free", peer |-> CHOOSE p \in Peers : TRUE, now |-> 0]
RateInit ==
    /\ clock = 0 /\ window = [p \in Peers |-> NoWindow]
    /\ check = [q \in Checks |-> NoCheck]
    /\ opened = [p \in Peers |-> 0] /\ admitted = [p \in Peers |-> {}] /\ crossed = {}

\* Instant::duration_since saturates at zero.
duration_since(now, start) == IF now > start THEN now - start ELSE 0

\* Nothing awaits between reading the clock and the entry's lock: a request is
\* overtaken by the clock by one tick at most.
Tick ==
    /\ clock < MaxClock /\ \A q \in Checks : check[q].step # "free" => check[q].now = clock
    /\ clock' = clock + 1
    /\ admitted' = [p \in Peers |-> {e \in admitted[p] : e.at + Window > clock'}]
    /\ UNCHANGED <<window, check, opened, crossed>>

\* enforce: the clock is read before the map is touched.
Arrive(q, p) ==
    /\ check[q].step = "free"
    /\ check' = [check EXCEPT ![q] = [step |-> "sweep", peer |-> p, now |-> clock]]
    /\ UNCHANGED <<clock, window, opened, admitted, crossed>>

\* Every 1024th check, once the map is large, drops the windows that have run out.
SweepWindows(q) ==
    /\ check[q].step = "sweep"
    /\ \/ Cardinality({p \in Peers : window[p].count > 0}) > Threshold
          /\ window' = [p \in Peers |-> IF duration_since(check[q].now, window[p].start) < Window
                                        THEN window[p] ELSE [window[p] EXCEPT !.count = 0]]
       \/ UNCHANGED window
    /\ check' = [check EXCEPT ![q].step = "count"]
    /\ UNCHANGED <<clock, opened, admitted, crossed>>

\* Whether check_at starts a window, the first, one behind a sweep, or one that has run out.
\* Faulty variant: a tick early.
Opens_Early(w, now) == w.count = 0 \/ duration_since(now, w.start) + 1 >= Window
Opens(w, now) == w.count = 0 \/ duration_since(now, w.start) >= Window
\* The entry as check_at leaves it: a new or restarted window, one more counted.
\* Counts above the limit are refused alike, and are one value here.
Counted(w, now) ==
    IF Opens(w, now) THEN [start |-> now, count |-> 1]
    ELSE [w EXCEPT !.count = IF @ > Limit THEN @ ELSE @ + 1]

\* The slot is consumed whether or not the request is let through.
Count(q) ==
    /\ check[q].step = "count"
    /\ LET p == check[q].peer  now == check[q].now  w == Counted(window[p], now) IN
       /\ window' = [window EXCEPT ![p] = w]
       /\ opened' = [opened EXCEPT ![p] = IF Opens(window[p], now) THEN @ + 1 ELSE @]
       /\ admitted' = [admitted EXCEPT ![p] =
              IF w.count <= Limit THEN @ \cup {[at |-> clock, of |-> opened'[p], nth |-> w.count]} ELSE @]
       /\ crossed' = IF window[p].count = 0 /\ opened[p] > 0 /\ duration_since(now, window[p].start) < Window
                     THEN crossed \cup {p} ELSE crossed
    /\ check' = [check EXCEPT ![q] = NoCheck]
    /\ UNCHANGED clock

RateNext ==
    \/ Tick
    \/ \E q \in Checks : (\E p \in Peers : Arrive(q, p)) \/ SweepWindows(q) \/ Count(q)
RateSpec == RateInit /\ [][RateNext]_rateVars

-----------------------------------------------------------------------------
\* No address gets more than two windows' worth through in any span of one window
\* ("a fixed window admits up to twice the nominal rate across a boundary"), whatever
\* requests with an older instant do; and not three when a sweep took its window away
\* before such a request.
BurstBounded ==
    \A p \in Peers : Cardinality(admitted[p]) <= IF p \in crossed THEN 3 * Limit ELSE 2 * Limit
=============================================================================
