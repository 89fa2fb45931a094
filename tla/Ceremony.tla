------------------------------ MODULE Ceremony ------------------------------
(***************************************************************************)
(* Threshold signing in the browser: the one prompt that asks for share files,  *)
(* the check of the files presented, and the ceremony itself, whose parties      *)
(* talk through the in-process relay (tss/src/relay.rs) and are driven on one    *)
(* thread by block_on(join_all(..)).                                          *)
(*                                                                         *)
(* The protocol is external (sl-dkls23): in each round a party publishes one     *)
(* message, asks for the others' and reads its stream until it has them; a party *)
(* that fails publishes an abort, which everybody asked for at the start.         *)
(***************************************************************************)
EXTENDS Naturals, Sequences, FiniteSets

CONSTANTS
    Sends,    \* operations of the page that need a signature or a wallet
    Shares,   \* party indexes at keygen, a set of positive naturals
    Quorum,   \* t
    Rounds    \* message rounds of a ceremony

Ours == "ours"        \* the wallet of the session
Other == "other"      \* a wallet whose share files may be picked by mistake
Nil == "nil"

VARIABLES
    host,      \* PROMPT.host: whether the prompt's component is mounted
    shown,     \* the request in the dialog, or Nil
    send,      \* per operation: idle, asking, signing, signed, cancelled, failed
    ceremony,  \* the operation whose worker is running, or Nil
    members,   \* the parties of that ceremony
    slot,      \* Shared.messages: per message id, Slot::Ready or Slot::Waiters with the parties
    queue,     \* Shared.queues: per party, the message ids delivered to it
    waker,     \* per party, whether poll_next left a waker
    party,     \* per party: round, what it still has to publish, ask and get, its end
    turn,      \* the party join_all is polling, 0 between two passes
    awake      \* whether the thread was woken since the pass began

cerVars == <<host, shown, send, ceremony, members, slot, queue, waker, party, turn, awake>>
relayVars == <<members, slot, queue, waker, party, turn, awake>>

ShareFiles == [wallet : {Ours, Other}, party : Shares]
Abort == 0
Ids == (0..Rounds) \X Shares
Waiters(ps) == [ready |-> FALSE, waiters |-> ps]
Ready == [ready |-> TRUE, waiters |-> {}]

Unused == [round |-> 0, publish |-> FALSE, ask |-> {}, get |-> {}, end |-> "none"]
CerInit ==
    /\ host = FALSE /\ shown = Nil /\ send = [c \in Sends |-> "idle"] /\ ceremony = Nil
    /\ members = {} /\ slot = [i \in Ids |-> Waiters({})] /\ queue = [p \in Shares |-> <<>>]
    /\ waker = [p \in Shares |-> FALSE] /\ party = [p \in Shares |-> Unused]
    /\ turn = 0 /\ awake = FALSE

Least(S) == CHOOSE x \in S : \A y \in S : x <= y
After(p) == LET later == {q \in members : q > p} IN IF later = {} THEN 0 ELSE Least(later)

-----------------------------------------------------------------------------
(***************************************************************************)
(* The prompt.                                                              *)
(***************************************************************************)

\* register_prompt_host on mount; on unmount the request it held is dropped.
Mount == host = FALSE /\ host' = TRUE /\ UNCHANGED <<shown, send, ceremony, relayVars>>
Unmount ==
    /\ host /\ host' = FALSE /\ shown' = Nil
    /\ send' = [c \in Sends |-> IF c = shown THEN "cancelled" ELSE send[c]]
    /\ UNCHANGED <<ceremony, relayVars>>

\* Faulty variant: the host leaves a request it is poked about where it is while
\* another one is on the screen.
Poke_Keeps(c) ==
    /\ shown' = IF shown = Nil THEN c ELSE shown
    /\ send' = [send EXCEPT ![c] = "asking"]
\* The host takes the request it is poked about; the one it was showing is dropped,
\* which cancels it.
Poke(c) ==
    /\ shown' = c
    /\ send' = [d \in Sends |-> IF d = c THEN "asking" ELSE IF d = shown THEN "cancelled" ELSE send[d]]

\* request_quorum: without a host nothing can ask.  A pending request the host has
\* not collected would refuse too, but emit() collects it before returning.
request_quorum(c) ==
    /\ send[c] = "idle"
    /\ IF host THEN Poke(c) ELSE send' = [send EXCEPT ![c] = "cancelled"] /\ UNCHANGED shown
    /\ UNCHANGED <<host, ceremony, relayVars>>

\* tss_quorum: one wallet, at least t distinct parties; then on_sign's own check.
tss_quorum(pool) ==
    /\ pool # {} /\ \A f, g \in pool : f.wallet = g.wallet
    /\ Cardinality({f.party : f \in pool}) >= Quorum
Presentable(pool) == tss_quorum(pool) /\ \A f \in pool : f.wallet = Ours

\* open_shares: the lowest t distinct parties sign.
open_shares(pool) ==
    {p \in {f.party : f \in pool} : Cardinality({f \in pool : f.party < p}) < Quorum}

\* A ceremony's state as run_dkg and sign_prehash build it.
Assemble(group) ==
    /\ members' = group
    /\ slot' = [i \in Ids |-> Waiters({})] /\ queue' = [p \in Shares |-> <<>>]
    /\ waker' = [p \in Shares |-> FALSE]
    /\ party' = [p \in Shares |-> IF p \in group
                                  THEN [round |-> 1, publish |-> TRUE,
                                        ask |-> {Abort, 1} \X (group \ {p}),
                                        get |-> group \ {p}, end |-> "none"]
                                  ELSE Unused]
    /\ turn' = Least(group) /\ awake' = FALSE

\* on_sign: the dialog closes and the send's worker opens the files; a wrong
\* passphrase ends it there.  One worker at a time is modelled.
Submit(pool, right) ==
    /\ shown # Nil /\ ceremony = Nil /\ Presentable(pool)
    /\ shown' = Nil
    /\ IF right THEN /\ ceremony' = shown /\ send' = [send EXCEPT ![shown] = "signing"]
                     /\ Assemble(open_shares(pool))
       ELSE send' = [send EXCEPT ![shown] = "failed"] /\ UNCHANGED <<ceremony, relayVars>>
    /\ UNCHANGED host

Cancelled ==
    /\ shown # Nil /\ shown' = Nil /\ send' = [send EXCEPT ![shown] = "cancelled"]
    /\ UNCHANGED <<host, ceremony, relayVars>>

\* The creation wizard's keygen: every party, no prompt.
Keygen(c) ==
    /\ send[c] = "idle" /\ ceremony = Nil
    /\ ceremony' = c /\ send' = [send EXCEPT ![c] = "signing"]
    /\ Assemble(Shares)
    /\ UNCHANGED <<host, shown>>

\* The page lets go of a finished operation.
Forget(c) ==
    /\ send[c] \in {"signed", "cancelled", "failed"}
    /\ send' = [send EXCEPT ![c] = "idle"]
    /\ UNCHANGED <<host, shown, ceremony, relayVars>>

-----------------------------------------------------------------------------
(***************************************************************************)
(* The relay.                                                               *)
(***************************************************************************)

Polled(p) == turn = p /\ p \in members /\ party[p].end = "none"

\* start_send with a payload: the message is kept, everybody already asking gets it
\* and is woken.  A second publication of an id finds nobody waiting.
PublishTo(id) ==
    LET asked == slot[id].waiters IN
    /\ slot' = [slot EXCEPT ![id] = Ready]
    /\ queue' = [q \in Shares |-> IF q \in asked THEN Append(queue[q], id) ELSE queue[q]]
    /\ waker' = [q \in Shares |-> waker[q] /\ q \notin asked]
    /\ awake' = (awake \/ \E q \in asked : waker[q])

Publish(p) ==
    /\ Polled(p) /\ party[p].publish
    /\ PublishTo(<<party[p].round, p>>)
    /\ party' = [party EXCEPT ![p].publish = FALSE]
    /\ UNCHANGED <<host, shown, send, ceremony, members, turn>>

\* Faulty variant: an ask for a published message waits for the next publication.
Ask_Waits(p, id) ==
    /\ Polled(p) /\ id \in party[p].ask
    /\ slot' = [slot EXCEPT ![id] = Waiters(@.waiters \cup {p})]
    /\ party' = [party EXCEPT ![p].ask = @ \ {id}]
    /\ UNCHANGED <<host, shown, send, ceremony, members, queue, waker, turn, awake>>
\* start_send with a bare header: served from the map, or put on the list.
Ask(p, id) ==
    /\ Polled(p) /\ id \in party[p].ask
    /\ IF slot[id].ready
       THEN /\ queue' = [queue EXCEPT ![p] = Append(@, id)]
            /\ waker' = [waker EXCEPT ![p] = FALSE] /\ awake' = (awake \/ waker[p])
            /\ UNCHANGED slot
       ELSE slot' = [slot EXCEPT ![id] = Waiters(@.waiters \cup {p})] /\ UNCHANGED <<queue, waker, awake>>
    /\ party' = [party EXCEPT ![p].ask = @ \ {id}]
    /\ UNCHANGED <<host, shown, send, ceremony, members, turn>>

\* What a party becomes with a message: aborted, a message nearer, in the next
\* round, or through.
Advance(p, id) ==
    LET s == party[p]  missing == s.get \ {id[2]} IN
    IF id[1] = Abort THEN [s EXCEPT !.end = "failed"]
    ELSE IF missing # {} THEN [s EXCEPT !.get = missing]
    ELSE IF s.round = Rounds THEN [s EXCEPT !.get = {}, !.end = "ok"]
    ELSE [round |-> s.round + 1, publish |-> TRUE, ask |-> {s.round + 1} \X (members \ {p}),
          get |-> members \ {p}, end |-> "none"]

\* poll_next: the first message, or a waker is left and join_all goes on.
Receive(p) ==
    /\ Polled(p) /\ ~party[p].publish /\ party[p].ask = {}
    /\ IF queue[p] # <<>>
       THEN /\ party' = [party EXCEPT ![p] = Advance(p, Head(queue[p]))]
            /\ queue' = [queue EXCEPT ![p] = Tail(@)] /\ UNCHANGED <<waker, turn>>
       ELSE waker' = [waker EXCEPT ![p] = TRUE] /\ turn' = After(p) /\ UNCHANGED <<party, queue>>
    /\ UNCHANGED <<host, shown, send, ceremony, members, slot, awake>>

\* A party that cannot go on tells the others and returns its error.
FailParty(p) ==
    /\ Polled(p) /\ \A q \in members : party[q].end # "failed"
    /\ PublishTo(<<Abort, p>>)
    /\ party' = [party EXCEPT ![p].end = "failed"]
    /\ UNCHANGED <<host, shown, send, ceremony, members, turn>>

\* join_all passes over a party that has returned.
SkipDone(p) ==
    /\ turn = p /\ p \in members /\ party[p].end # "none"
    /\ turn' = After(p)
    /\ UNCHANGED <<host, shown, send, ceremony, members, slot, queue, waker, party, awake>>

\* block_on: another pass once woken, and the results once all have returned; the
\* worker then reports its one terminal event.
NextPass ==
    /\ ceremony # Nil /\ turn = 0 /\ awake /\ \E p \in members : party[p].end = "none"
    /\ awake' = FALSE /\ turn' = Least(members)
    /\ UNCHANGED <<host, shown, send, ceremony, members, slot, queue, waker, party>>
Finish ==
    /\ ceremony # Nil /\ turn = 0 /\ \A p \in members : party[p].end # "none"
    /\ send' = [send EXCEPT ![ceremony] = IF \A p \in members : party[p].end = "ok" THEN "signed" ELSE "failed"]
    /\ ceremony' = Nil
    /\ UNCHANGED <<host, shown, relayVars>>

Driven == \/ \E p \in Shares : \/ Publish(p) \/ Receive(p) \/ SkipDone(p)
                               \/ \E id \in Ids : Ask(p, id)
          \/ NextPass \/ Finish
CerNext ==
    \/ Mount \/ Unmount \/ Cancelled
    \/ \E c \in Sends : request_quorum(c) \/ Keygen(c) \/ Forget(c)
    \/ \E pool \in SUBSET ShareFiles, right \in BOOLEAN : Submit(pool, right)
    \/ \E p \in Shares : FailParty(p)
    \/ Driven
CerSpec == CerInit /\ [][CerNext]_cerVars

-----------------------------------------------------------------------------
\* An operation that waits for share files is the one on the screen: no send hangs
\* behind a prompt nobody can see (request_quorum, TssQuorumHost), whichever
\* operations ask at once and when the host goes away.
NobodyForgotten == \A c \in Sends : send[c] = "asking" => shown = c

\* Every ceremony ends, as a signature or a failure, whatever order the parties
\* publish, ask and read in and whoever fails.
CeremonyEnds == []<>(ceremony = Nil)
=============================================================================
