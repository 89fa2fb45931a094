------------------------------- MODULE Banker -------------------------------
(***************************************************************************)
(* The AI banker (web/src/components/banker.rs): a turn asks a model, runs the   *)
(* tool it names and feeds the result back, at most MAX_TOOL_ROUNDS times; a tool *)
(* that moves value may have to stop at the approval dialog first.               *)
(*                                                                         *)
(* A turn is a task that outlives the view it was asked in: leaving the page and *)
(* coming back gives a view that is not busy and a dialog slot the old turn does *)
(* not reach.  The model and the chain are external: a reply is any tool or prose,*)
(* a call may fail at any point, a transaction's confirmation too.  The transcript *)
(* the view stores is left out: it decides nothing here.                         *)
(***************************************************************************)
EXTENDS Naturals, FiniteSets

CONSTANTS
    Turns,      \* questions asked over the session
    MaxRounds,  \* MAX_TOOL_ROUNDS
    MaxViews    \* how often the page is opened

NoDialog == "none"
ASSUME BankerAssumption == NoDialog \notin Turns /\ MaxRounds \in Nat /\ MaxViews \in Nat

\* The tools by what the confirmation policy tells apart; "small" and "big" are
\* native sends up to and over NATIVE_CONFIRM_THRESHOLD.
Tools == {"read", "small", "big", "token", "swap"}
Idle == [st |-> "unasked", view |-> 0, mainnet |-> FALSE, round |-> 0,
         tool |-> "read", consent |-> FALSE, out |-> FALSE]

VARIABLES
    view,      \* number of the mounted view, 0 when the page is elsewhere
    views,     \* views mounted so far
    net,       \* whether the page's network is a mainnet
    busy,      \* of the mounted view
    dialog,    \* of the mounted view: the turn whose approval it shows, or NoDialog
    turnOf,    \* per question, its turn: its state and view, the network it took along, its
               \* round and tool, whether the user approved that call and whether it went out
    decision   \* per turn, the decision cell of its last approval: open, yes or no

bkVars == <<view, views, net, busy, dialog, turnOf, decision>>

BkInit ==
    /\ view = 0 /\ views = 0 /\ net \in BOOLEAN /\ busy = FALSE /\ dialog = NoDialog
    /\ turnOf = [t \in Turns |-> Idle] /\ decision = [t \in Turns |-> "open"]

-----------------------------------------------------------------------------
(***************************************************************************)
(* The view.                                                                *)
(***************************************************************************)

MountView ==
    /\ view = 0 /\ views < MaxViews
    /\ view' = views + 1 /\ views' = views + 1 /\ busy' = FALSE /\ dialog' = NoDialog
    /\ UNCHANGED <<net, turnOf, decision>>
\* Leaving drops the dialog and leaves its decision cell open.
LeaveView ==
    /\ view # 0 /\ view' = 0 /\ busy' = FALSE /\ dialog' = NoDialog
    /\ UNCHANGED <<views, net, turnOf, decision>>
SwitchNetwork ==
    /\ net' = ~net
    /\ UNCHANGED <<view, views, busy, dialog, turnOf, decision>>

\* ask: refused while busy; the turn takes the network and keys of the render along.
AskBanker(t) ==
    /\ view # 0 /\ ~busy /\ turnOf[t].st = "unasked"
    /\ busy' = TRUE
    /\ turnOf' = [turnOf EXCEPT ![t] = [Idle EXCEPT !.st = "thinking", !.view = view, !.mainnet = net]]
    /\ UNCHANGED <<view, views, net, dialog, decision>>

\* The dialog's buttons, and closing it, which declines.
Decide(yes) ==
    /\ dialog # NoDialog
    /\ decision' = [decision EXCEPT ![dialog] = IF yes THEN "yes" ELSE "no"]
    /\ turnOf' = [turnOf EXCEPT ![dialog].consent = yes]
    /\ dialog' = NoDialog
    /\ UNCHANGED <<view, views, net, busy>>

-----------------------------------------------------------------------------
(***************************************************************************)
(* The turn.                                                                *)
(***************************************************************************)

\* bank_agent::needs_confirmation
needs_confirmation(tool, mainnet) == tool = "big" \/ (tool = "token" /\ mainnet) \/ tool = "swap"

\* run_turn's end: the view it was asked in, if it is still there, is free again.
EndTurn(t) ==
    /\ turnOf' = [turnOf EXCEPT ![t] = [Idle EXCEPT !.st = "ended", !.view = turnOf[t].view]]
    /\ IF turnOf[t].view = view THEN busy' = FALSE /\ dialog' = NoDialog ELSE UNCHANGED <<busy, dialog>>
    /\ UNCHANGED <<view, views, net, decision>>

\* Faulty variant: the loop asks again as long as the model names tools.
Round_Unbounded(t) == IF turnOf[t].round >= MaxRounds THEN 1 ELSE turnOf[t].round + 1
\* `for _ in 0..MAX_TOOL_ROUNDS`
Round(t) == turnOf[t].round + 1

\* generate_chat fails, answers with prose, or the rounds are used up.
Prose(t) ==
    /\ turnOf[t].st = "thinking"
    /\ EndTurn(t)

\* A tool: the arguments are read, and a transaction the policy stops is put to the
\* user in a fresh cell; the dialog shows it if its view is still mounted.
Tool(t, tool) ==
    /\ turnOf[t].st = "thinking" /\ Round(t) <= MaxRounds
    /\ LET stop == needs_confirmation(tool, turnOf[t].mainnet) IN
       /\ turnOf' = [turnOf EXCEPT ![t].round = Round(t), ![t].tool = tool,
                       ![t].consent = FALSE, ![t].out = FALSE,
                       ![t].st = IF stop THEN "approval" ELSE IF tool = "read" THEN "reading" ELSE "sending"]
       /\ decision' = IF stop THEN [decision EXCEPT ![t] = "open"] ELSE decision
       /\ dialog' = IF stop /\ turnOf[t].view = view THEN t ELSE dialog
    /\ UNCHANGED <<view, views, net, busy>>

\* A tool's result, an error or DECLINED goes back to the model; out of rounds, the
\* turn ends.
Result(t) == turnOf' = [turnOf EXCEPT ![t].st = "thinking"]
ReadDone(t) ==
    /\ turnOf[t].st = "reading" /\ Result(t)
    /\ UNCHANGED <<view, views, net, busy, dialog, decision>>

\* Faulty variant: the poll takes an open cell for consent.
ask_approval_Open(t) == IF decision[t] = "no" THEN "declined" ELSE "approved"
\* ask_approval's loop, every 120 ms.
ask_approval(t) == CASE decision[t] = "yes" -> "approved" [] decision[t] = "no" -> "declined" [] OTHER -> "waits"
Approved(t) ==
    /\ turnOf[t].st = "approval" /\ ask_approval(t) = "approved"
    /\ turnOf' = [turnOf EXCEPT ![t].st = IF turnOf[t].tool = "swap" THEN "allowance" ELSE "sending"]
    /\ UNCHANGED <<view, views, net, busy, dialog, decision>>
Declined(t) ==
    /\ turnOf[t].st = "approval" /\ ask_approval(t) = "declined" /\ Result(t)
    /\ UNCHANGED <<view, views, net, busy, dialog, decision>>

\* execute_swap: the router's allowance, when it is short, is a transaction of its own.
Allow(t, short, ok) ==
    /\ turnOf[t].st = "allowance"
    /\ turnOf' = [turnOf EXCEPT ![t].out = short, ![t].st = IF ok THEN "sending" ELSE "thinking"]
    /\ UNCHANGED <<view, views, net, busy, dialog, decision>>

\* run_tx_full: the transaction goes out; whether it is confirmed or an error comes
\* back, the model gets the result.  Without keys, or refused, nothing goes out.
RunTx(t, out) ==
    /\ turnOf[t].st = "sending"
    /\ turnOf' = [turnOf EXCEPT ![t].out = @ \/ out, ![t].st = "thinking"]
    /\ UNCHANGED <<view, views, net, busy, dialog, decision>>

TurnStep(t) ==
    \/ Prose(t) \/ ReadDone(t) \/ Approved(t) \/ Declined(t)
    \/ \E tool \in Tools : Tool(t, tool)
    \/ \E short, ok \in BOOLEAN : Allow(t, short, ok)
    \/ \E out \in BOOLEAN : RunTx(t, out)
UserDecides == \E yes \in BOOLEAN : Decide(yes)

BkNext ==
    \/ MountView \/ LeaveView \/ SwitchNetwork \/ UserDecides
    \/ \E t \in Turns : AskBanker(t) \/ TurnStep(t)

BkSpec == BkInit /\ [][BkNext]_bkVars

-----------------------------------------------------------------------------
\* Nothing the policy stops is broadcast unless the user pressed approve on the
\* dialog of that very tool call (needs_confirmation, ask_approval), whatever views
\* come and go, however the network is switched meanwhile and however many turns
\* are running.
Consent ==
    \A t \in Turns :
        turnOf[t].out /\ needs_confirmation(turnOf[t].tool, turnOf[t].mainnet) => turnOf[t].consent

\* A turn that waits for a decision has its dialog on the screen, as long as the
\* view it was asked in is mounted: no turn hangs behind a dialog that was closed.
WaitIsVisible ==
    \A t \in Turns : turnOf[t].st = "approval" /\ turnOf[t].view = view /\ decision[t] = "open"
                        => dialog = t

\* Money moves by the user's decision, and the user is always in a position to take
\* it.
UserInControl == Consent /\ WaitIsVisible

\* "Eight rounds maximum": whatever tools the model goes on naming, every turn ends or
\* is left waiting for the user, whether or not anybody still looks at its view.
TurnsEnd == <>[](\A t \in Turns : turnOf[t].st \in {"unasked", "ended", "approval"})
=============================================================================
