---------------------------- MODULE WalletProofs ----------------------------
(***************************************************************************)
(* What holds wherever the user's money moves: of Banker for any number of   *)
(* turns, rounds and views, of Ceremony for any operations, share files and  *)
(* rounds, and of Payments for any dialogs, requests in flight, transfers and *)
(* mishaps.                                                                 *)
(***************************************************************************)
EXTENDS Banker, Ceremony, Payments, FiniteSetTheorems, SequenceTheorems, TLAPS

-----------------------------------------------------------------------------
(***************************************************************************)
(* Banker.                                                                  *)
(***************************************************************************)

Turn == [st : {"unasked", "thinking", "approval", "reading", "allowance", "sending", "ended"},
         view : Nat, mainnet : BOOLEAN, round : Nat, tool : Tools, consent : BOOLEAN, out : BOOLEAN]

\* Every variable in its domain.
BkTypeOK ==
    /\ view \in Nat /\ views \in Nat /\ view <= views
    /\ net \in BOOLEAN /\ busy \in BOOLEAN /\ dialog \in Turns \cup {NoDialog}
    /\ turnOf \in [Turns -> Turn] /\ decision \in [Turns -> {"open", "yes", "no"}]

Live(t) == turnOf[t].st \notin {"unasked", "ended"}

\* A live turn was asked in a view there has been, and the mounted view has at most one,
\* which keeps it busy.
OneTurnPerView ==
    /\ \A t \in Turns : Live(t) => 1 <= turnOf[t].view /\ turnOf[t].view <= views
    /\ \A t \in Turns : Live(t) /\ turnOf[t].view = view => busy
    /\ \A t, u \in Turns : Live(t) /\ Live(u) /\ turnOf[t].view = view /\ turnOf[u].view = view => t = u

\* The dialog shows the open question of a turn of the mounted view.
DialogSound ==
    dialog # NoDialog => /\ turnOf[dialog].st = "approval" /\ turnOf[dialog].view = view
                         /\ decision[dialog] = "open"

\* From the approval on, what the policy stops has its consent; nothing of this call
\* is out before.
ConsentKept ==
    \A t \in Turns :
        /\ turnOf[t].st = "approval" =>
             ~turnOf[t].out /\ (decision[t] = "yes" => turnOf[t].consent)
        /\ (turnOf[t].out \/ turnOf[t].st \in {"allowance", "sending"})
             /\ needs_confirmation(turnOf[t].tool, turnOf[t].mainnet) => turnOf[t].consent

BkInv == BkTypeOK /\ OneTurnPerView /\ DialogSound /\ ConsentKept /\ WaitIsVisible

-----------------------------------------------------------------------------
LEMMA IdleTurn == Idle \in Turn
BY DEF Idle, Turn, Tools

LEMMA BkInitInv == BkInit => BkInv
<1> SUFFICES ASSUME BkInit PROVE BkInv
  OBVIOUS
<1>1. BkTypeOK
  <2>1. net \in BOOLEAN /\ busy \in BOOLEAN
    BY DEF BkInit
  <2>2. turnOf \in [Turns -> Turn] /\ decision \in [Turns -> {"open", "yes", "no"}]
    BY IdleTurn DEF BkInit
  <2>3. view = 0 /\ views = 0 /\ dialog = NoDialog
    BY DEF BkInit
  <2> QED
    BY <2>1, <2>2, <2>3 DEF BkTypeOK
<1>2. \A t \in Turns : turnOf[t].st = "unasked" /\ turnOf[t].out = FALSE
  BY DEF BkInit, Idle
<1> QED
  BY <1>1, <1>2 DEF BkInv, BkInit, OneTurnPerView, Live, DialogSound, ConsentKept, WaitIsVisible

\* Opening and leaving the page and switching the network.
LEMMA ViewSteps ==
  ASSUME BkInv, MountView \/ LeaveView \/ SwitchNetwork
  PROVE  BkInv'
<1> USE DEF BkInv
<1>0. UNCHANGED <<turnOf, decision>>
  BY DEF MountView, LeaveView, SwitchNetwork
<1>1. \A t \in Turns : turnOf[t] \in Turn /\ turnOf[t].view \in Nat
  BY DEF BkTypeOK, Turn
<1>2. CASE SwitchNetwork
  BY <1>2, <1>0 DEF SwitchNetwork, BkTypeOK, OneTurnPerView, Live, DialogSound, ConsentKept, WaitIsVisible
<1>3. CASE MountView \/ LeaveView
  <2>1. BkTypeOK'
    <3>1. view' \in Nat /\ views' \in Nat /\ view' <= views'
      BY <1>3 DEF MountView, LeaveView, BkTypeOK
    <3>2. net' \in BOOLEAN /\ busy' \in BOOLEAN /\ dialog' = NoDialog
      BY <1>3 DEF MountView, LeaveView, BkTypeOK
    <3> QED
      BY <1>0, <3>1, <3>2 DEF BkTypeOK
  <2>2. \A t \in Turns : Live(t) => turnOf[t].view # view'
    BY <1>1, <1>3 DEF MountView, LeaveView, OneTurnPerView, BkTypeOK
  <2>3. views' >= views
    BY <1>3 DEF MountView, LeaveView, BkTypeOK
  <2>4. OneTurnPerView'
    BY <1>0, <1>1, <2>1, <2>2, <2>3 DEF OneTurnPerView, Live, BkTypeOK
  <2>5. DialogSound'
    BY <1>3 DEF MountView, LeaveView, DialogSound
  <2>6. ConsentKept'
    BY <1>0 DEF ConsentKept
  <2>7. WaitIsVisible'
    BY <1>0, <2>2 DEF WaitIsVisible, Live
  <2> QED
    BY <2>1, <2>4, <2>5, <2>6, <2>7
<1> QED
  BY <1>2, <1>3

LEMMA AskStep ==
  ASSUME BkInv, NEW t \in Turns, AskBanker(t)
  PROVE  BkInv'
<1> USE DEF BkInv
<1> DEFINE new == [Idle EXCEPT !.st = "thinking", !.view = view, !.mainnet = net]
<1>1. new \in Turn /\ new.st = "thinking" /\ new.view = view /\ new.out = FALSE
  BY DEF Idle, Turn, Tools, BkTypeOK
<1>2. turnOf' = [turnOf EXCEPT ![t] = new]
  BY DEF AskBanker
<1> HIDE DEF new
<1>3. turnOf'[t] = new /\ \A u \in Turns \ {t} : turnOf'[u] = turnOf[u]
  BY <1>2 DEF BkTypeOK
<1>4. BkTypeOK'
  BY <1>1, <1>2 DEF AskBanker, BkTypeOK
<1>5. \A u \in Turns : Live(u) => turnOf[u].view # view
  BY DEF AskBanker, OneTurnPerView
<1>6. 1 <= view /\ view <= views
  BY DEF AskBanker, BkTypeOK
<1>7. OneTurnPerView'
  BY <1>1, <1>3, <1>5, <1>6 DEF AskBanker, OneTurnPerView, Live, BkTypeOK
<1>8. dialog # t
  BY BankerAssumption DEF AskBanker, DialogSound
<1>9. DialogSound'
  BY <1>3, <1>8 DEF AskBanker, DialogSound, BkTypeOK
<1>10. ConsentKept'
  BY <1>1, <1>3 DEF AskBanker, ConsentKept
<1>11. WaitIsVisible'
  BY <1>1, <1>3 DEF AskBanker, WaitIsVisible
<1> QED
  BY <1>4, <1>7, <1>9, <1>10, <1>11

LEMMA DecideStep ==
  ASSUME BkInv, NEW yes \in BOOLEAN, Decide(yes)
  PROVE  BkInv'
<1> USE DEF BkInv
<1>0. dialog \in Turns
  BY DEF Decide, BkTypeOK
<1>t. [turnOf[dialog] EXCEPT !.consent = yes] \in Turn
  BY <1>0 DEF BkTypeOK, Turn
<1>1. turnOf' = [turnOf EXCEPT ![dialog] = [turnOf[dialog] EXCEPT !.consent = yes]]
  BY DEF Decide
<1>2. /\ \A u \in Turns : /\ turnOf'[u].st = turnOf[u].st /\ turnOf'[u].view = turnOf[u].view
                          /\ turnOf'[u].out = turnOf[u].out /\ turnOf'[u].tool = turnOf[u].tool
                          /\ turnOf'[u].mainnet = turnOf[u].mainnet
      /\ turnOf'[dialog].consent = yes
      /\ \A u \in Turns \ {dialog} : turnOf'[u].consent = turnOf[u].consent
  BY <1>0, <1>1 DEF BkTypeOK, Turn
<1>3. /\ decision'[dialog] = (IF yes THEN "yes" ELSE "no")
      /\ \A u \in Turns \ {dialog} : decision'[u] = decision[u]
  BY <1>0 DEF Decide, BkTypeOK
<1>4. BkTypeOK'
  BY <1>0, <1>1, <1>t DEF Decide, BkTypeOK
<1>5. OneTurnPerView'
  BY <1>2 DEF Decide, OneTurnPerView, Live
<1>6. DialogSound'
  BY DEF Decide, DialogSound
<1>7. turnOf[dialog].st = "approval" /\ ~turnOf[dialog].out
  BY <1>0, BankerAssumption DEF DialogSound, ConsentKept
<1>8. ConsentKept'
  <2> SUFFICES ASSUME NEW u \in Turns
               PROVE  /\ turnOf'[u].st = "approval" =>
                           ~turnOf'[u].out /\ (decision'[u] = "yes" => turnOf'[u].consent)
                      /\ (turnOf'[u].out \/ turnOf'[u].st \in {"allowance", "sending"})
                           /\ needs_confirmation(turnOf'[u].tool, turnOf'[u].mainnet) => turnOf'[u].consent
    BY DEF ConsentKept, needs_confirmation
  <2>1. CASE u = dialog
    BY <1>2, <1>3, <1>7, <2>1
  <2>2. CASE u # dialog
    BY <1>2, <1>3, <2>2 DEF ConsentKept, needs_confirmation
  <2> QED
    BY <2>1, <2>2
<1>9. WaitIsVisible'
  BY <1>0, <1>2, <1>3 DEF Decide, WaitIsVisible
<1> QED
  BY <1>4, <1>5, <1>6, <1>8, <1>9

LEMMA ProseStep ==
  ASSUME BkInv, NEW t \in Turns, Prose(t)
  PROVE  BkInv'
<1> USE DEF BkInv
<1> DEFINE new == [Idle EXCEPT !.st = "ended", !.view = turnOf[t].view]
<1>1. new \in Turn /\ new.st = "ended" /\ new.out = FALSE
  BY DEF Idle, Turn, Tools, BkTypeOK
<1>2. turnOf' = [turnOf EXCEPT ![t] = new]
  BY DEF Prose, EndTurn
<1> HIDE DEF new
<1>3. turnOf'[t] = new /\ \A u \in Turns \ {t} : turnOf'[u] = turnOf[u]
  BY <1>2 DEF BkTypeOK
<1>4. BkTypeOK'
  BY <1>1, <1>2 DEF Prose, EndTurn, BkTypeOK
<1>5. turnOf[t].view = view => \A u \in Turns \ {t} : Live(u) => turnOf[u].view # view
  BY DEF Prose, OneTurnPerView, Live
<1>6. OneTurnPerView'
  BY <1>1, <1>3, <1>5 DEF Prose, EndTurn, OneTurnPerView, Live, BkTypeOK
<1>7. dialog # t
  BY BankerAssumption DEF Prose, DialogSound
<1>8. DialogSound'
  BY <1>3, <1>7 DEF Prose, EndTurn, DialogSound, BkTypeOK
<1>9. ConsentKept'
  BY <1>1, <1>3 DEF Prose, EndTurn, ConsentKept
<1>10. WaitIsVisible'
  BY <1>1, <1>3, <1>5 DEF Prose, EndTurn, WaitIsVisible, Live
<1> QED
  BY <1>4, <1>6, <1>8, <1>9, <1>10

LEMMA ToolStep ==
  ASSUME BkInv, NEW t \in Turns, NEW tool \in Tools, Tool(t, tool)
  PROVE  BkInv'
<1> USE DEF BkInv
<1> DEFINE stop == needs_confirmation(tool, turnOf[t].mainnet)
           st == IF stop THEN "approval" ELSE IF tool = "read" THEN "reading" ELSE "sending"
           new == [turnOf[t] EXCEPT !.round = Round(t), !.tool = tool, !.consent = FALSE,
                                    !.out = FALSE, !.st = st]
<1>0. turnOf[t] \in Turn /\ Round(t) \in Nat
  BY DEF BkTypeOK, Turn, Round
<1>1. /\ new \in Turn /\ new.st = st /\ new.out = FALSE /\ new.consent = FALSE
      /\ new.view = turnOf[t].view /\ new.mainnet = turnOf[t].mainnet /\ new.tool = tool
  BY <1>0 DEF Turn
<1>2. turnOf' = [turnOf EXCEPT ![t] = new]
  BY DEF Tool, BkTypeOK
<1>d. /\ decision' = IF stop THEN [decision EXCEPT ![t] = "open"] ELSE decision
      /\ dialog' = IF stop /\ turnOf[t].view = view THEN t ELSE dialog
  BY DEF Tool
<1>s. st \in {"approval", "reading", "sending"} /\ (st = "approval" <=> stop)
  OBVIOUS
<1> HIDE DEF new, st
<1>3. turnOf'[t] = new /\ \A u \in Turns \ {t} : turnOf'[u] = turnOf[u]
  BY <1>2 DEF BkTypeOK
<1>4. BkTypeOK'
  <2>1. turnOf' \in [Turns -> Turn]
    BY <1>1, <1>2 DEF BkTypeOK
  <2>2. decision' \in [Turns -> {"open", "yes", "no"}] /\ dialog' \in Turns \cup {NoDialog}
    BY <1>d DEF BkTypeOK
  <2> QED
    BY <2>1, <2>2 DEF Tool, BkTypeOK
<1>5. Live(t) /\ turnOf[t].st = "thinking"
  BY DEF Tool, Live
<1>6. \A u \in Turns : Live(u)' <=> Live(u)
  BY <1>1, <1>3, <1>5, <1>s DEF Live
<1>7. \A u \in Turns : turnOf'[u].view = turnOf[u].view
  BY <1>1, <1>3
<1>8. OneTurnPerView'
  BY <1>6, <1>7 DEF Tool, OneTurnPerView
<1>9. dialog # t
  BY <1>5, BankerAssumption DEF DialogSound
<1>10. DialogSound'
  <2>1. CASE dialog' = t
    BY <1>1, <1>3, <1>9, <1>d, <1>s, <2>1 DEF Tool, DialogSound, BkTypeOK
  <2>2. CASE dialog' # t
    BY <1>3, <1>9, <1>d, <2>2 DEF Tool, DialogSound, BkTypeOK
  <2> QED
    BY <2>1, <2>2
<1>11. ConsentKept'
  <2> SUFFICES ASSUME NEW u \in Turns
               PROVE  /\ turnOf'[u].st = "approval" =>
                           ~turnOf'[u].out /\ (decision'[u] = "yes" => turnOf'[u].consent)
                      /\ (turnOf'[u].out \/ turnOf'[u].st \in {"allowance", "sending"})
                           /\ needs_confirmation(turnOf'[u].tool, turnOf'[u].mainnet) => turnOf'[u].consent
    BY DEF ConsentKept, needs_confirmation
  <2>1. CASE u = t
    <3>1. stop => decision'[t] = "open"
      BY <1>d DEF BkTypeOK
    <3>2. turnOf'[u].st = "sending" => ~needs_confirmation(turnOf'[u].tool, turnOf'[u].mainnet)
      BY <1>1, <1>3, <2>1 DEF st
    <3> QED
      BY <1>1, <1>3, <1>s, <2>1, <3>1, <3>2
  <2>2. CASE u # t
    BY <1>3, <1>d, <2>2 DEF ConsentKept, BkTypeOK
  <2> QED
    BY <2>1, <2>2
<1>12. WaitIsVisible'
  <2> SUFFICES ASSUME NEW u \in Turns, turnOf'[u].st = "approval", turnOf'[u].view = view,
                      decision'[u] = "open"
               PROVE  dialog' = u
    BY DEF WaitIsVisible, Tool
  <2>1. CASE u = t
    BY <1>1, <1>3, <1>d, <1>s, <2>1
  <2>2. CASE u # t
    <3>1. turnOf[u].st = "approval" /\ turnOf[u].view = view /\ decision[u] = "open"
      BY <1>3, <1>d, <2>2 DEF BkTypeOK
    <3>2. dialog = u
      BY <3>1 DEF WaitIsVisible
    <3>3. turnOf[t].view # view
      BY <1>5, <2>2, <3>1 DEF OneTurnPerView, Live
    <3> QED
      BY <1>d, <3>2, <3>3
  <2> QED
    BY <2>1, <2>2
<1> QED
  BY <1>4, <1>8, <1>10, <1>11, <1>12

\* The other steps of a turn change its state to one it may be in and what went out,
\* and leave its view, its tool and the page alone.
LEMMA QuietStep ==
  ASSUME BkInv, NEW t \in Turns, NEW st \in {"thinking", "allowance", "sending"}, NEW out \in BOOLEAN,
         turnOf[t].st \in {"reading", "approval", "allowance", "sending"},
         turnOf' = [turnOf EXCEPT ![t].out = out, ![t].st = st],
         out \/ st \in {"allowance", "sending"} =>
             \/ turnOf[t].out \/ turnOf[t].st \in {"allowance", "sending"}
             \/ turnOf[t].st = "approval" /\ decision[t] = "yes",
         turnOf[t].st = "approval" => decision[t] # "open",
         UNCHANGED <<view, views, net, busy, dialog, decision>>
  PROVE  BkInv'
<1> USE DEF BkInv
<1> DEFINE new == [turnOf[t] EXCEPT !.out = out, !.st = st]
<1>0. turnOf[t] \in Turn
  BY DEF BkTypeOK
<1>1. /\ new \in Turn /\ new.st = st /\ new.out = out /\ new.consent = turnOf[t].consent
      /\ new.view = turnOf[t].view /\ new.mainnet = turnOf[t].mainnet /\ new.tool = turnOf[t].tool
  BY <1>0 DEF Turn
<1>2. turnOf' = [turnOf EXCEPT ![t] = new]
  BY DEF BkTypeOK
<1> HIDE DEF new
<1>3. turnOf'[t] = new /\ \A u \in Turns \ {t} : turnOf'[u] = turnOf[u]
  BY <1>2 DEF BkTypeOK
<1>4. BkTypeOK'
  <2>1. turnOf' \in [Turns -> Turn]
    BY <1>1, <1>2 DEF BkTypeOK
  <2> QED
    BY <2>1 DEF BkTypeOK
<1>5. \A u \in Turns : (Live(u)' <=> Live(u)) /\ turnOf'[u].view = turnOf[u].view
  BY <1>1, <1>3 DEF Live
<1>6. OneTurnPerView'
  BY <1>5 DEF OneTurnPerView
<1>7. dialog # t
  BY BankerAssumption DEF DialogSound
<1>8. DialogSound'
  BY <1>3, <1>7 DEF DialogSound, BkTypeOK
<1>9. ConsentKept'
  <2> SUFFICES ASSUME NEW u \in Turns
               PROVE  /\ turnOf'[u].st = "approval" =>
                           ~turnOf'[u].out /\ (decision'[u] = "yes" => turnOf'[u].consent)
                      /\ (turnOf'[u].out \/ turnOf'[u].st \in {"allowance", "sending"})
                           /\ needs_confirmation(turnOf'[u].tool, turnOf'[u].mainnet) => turnOf'[u].consent
    BY DEF ConsentKept, needs_confirmation
  <2>1. CASE u = t
    <3>1. turnOf[t].st = "approval" /\ decision[t] = "yes" => turnOf[t].consent
      BY DEF ConsentKept
    <3>2. (turnOf[t].out \/ turnOf[t].st \in {"allowance", "sending"})
            /\ needs_confirmation(turnOf[t].tool, turnOf[t].mainnet) => turnOf[t].consent
      BY DEF ConsentKept
    <3> QED
      BY <1>1, <1>3, <2>1, <3>1, <3>2
  <2>2. CASE u # t
    BY <1>3, <2>2 DEF ConsentKept
  <2> QED
    BY <2>1, <2>2
<1>10. WaitIsVisible'
  BY <1>1, <1>3 DEF WaitIsVisible
<1> QED
  BY <1>4, <1>6, <1>8, <1>9, <1>10

LEMMA BkStep == BkInv /\ [BkNext]_bkVars => BkInv'
<1> SUFFICES ASSUME BkInv, [BkNext]_bkVars PROVE BkInv'
  OBVIOUS
<1>0. CASE UNCHANGED bkVars
  BY <1>0 DEF bkVars, BkInv, BkTypeOK, OneTurnPerView, Live, DialogSound, ConsentKept, WaitIsVisible
<1>1. CASE MountView \/ LeaveView \/ SwitchNetwork
  BY <1>1, ViewSteps
<1>2. CASE UserDecides
  BY <1>2, DecideStep DEF UserDecides
<1>3. ASSUME NEW t \in Turns, AskBanker(t) PROVE BkInv'
  BY <1>3, AskStep
<1>4. ASSUME NEW t \in Turns, TurnStep(t) PROVE BkInv'
  <2>0. turnOf[t] \in Turn /\ turnOf[t].out \in BOOLEAN /\ decision[t] \in {"open", "yes", "no"}
    BY DEF BkInv, BkTypeOK, Turn
  <2>1. CASE Prose(t)
    BY <2>1, ProseStep
  <2>2. ASSUME NEW tool \in Tools, Tool(t, tool) PROVE BkInv'
    BY <2>2, ToolStep
  <2>3. CASE ReadDone(t)
    <3>1. turnOf' = [turnOf EXCEPT ![t].out = turnOf[t].out, ![t].st = "thinking"]
      BY <2>0, <2>3 DEF ReadDone, Result, BkInv, BkTypeOK, Turn
    <3> QED
      BY <2>0, <2>3, <3>1, QuietStep DEF ReadDone
  <2>4. CASE Approved(t)
    <3> DEFINE s == IF turnOf[t].tool = "swap" THEN "allowance" ELSE "sending"
    <3>1. turnOf' = [turnOf EXCEPT ![t].out = turnOf[t].out, ![t].st = s]
      BY <2>0, <2>4 DEF Approved, BkInv, BkTypeOK, Turn
    <3>2. s \in {"allowance", "sending"} /\ decision[t] = "yes" /\ turnOf[t].st = "approval"
      BY <2>0, <2>4 DEF Approved, ask_approval
    <3> HIDE DEF s
    <3> QED
      BY <2>0, <2>4, <3>1, <3>2, QuietStep DEF Approved
  <2>5. CASE Declined(t)
    <3>1. turnOf' = [turnOf EXCEPT ![t].out = turnOf[t].out, ![t].st = "thinking"]
      BY <2>0, <2>5 DEF Declined, Result, BkInv, BkTypeOK, Turn
    <3>2. decision[t] = "no" /\ turnOf[t].st = "approval"
      BY <2>0, <2>5 DEF Declined, ask_approval
    <3> QED
      BY <2>0, <2>5, <3>1, <3>2, QuietStep DEF Declined
  <2>6. ASSUME NEW short \in BOOLEAN, NEW ok \in BOOLEAN, Allow(t, short, ok) PROVE BkInv'
    <3> DEFINE s == IF ok THEN "sending" ELSE "thinking"
    <3>1. turnOf' = [turnOf EXCEPT ![t].out = short, ![t].st = s] /\ s \in {"sending", "thinking"}
      BY <2>6 DEF Allow
    <3> HIDE DEF s
    <3> QED
      BY <2>0, <2>6, <3>1, QuietStep DEF Allow
  <2>7. ASSUME NEW out \in BOOLEAN, RunTx(t, out) PROVE BkInv'
    <3> DEFINE o == turnOf[t].out \/ out
    <3>1. turnOf' = [turnOf EXCEPT ![t].out = o, ![t].st = "thinking"] /\ o \in BOOLEAN
      BY <2>0, <2>7 DEF RunTx
    <3> HIDE DEF o
    <3> QED
      BY <2>0, <2>7, <3>1, QuietStep DEF RunTx
  <2> QED
    BY <1>4, <2>1, <2>2, <2>3, <2>4, <2>5, <2>6, <2>7 DEF TurnStep
<1> QED
  BY <1>0, <1>1, <1>2, <1>3, <1>4 DEF BkNext

\* Nothing the policy stops goes out without the user's consent to that very call, and
\* a turn that waits for it in the mounted view has its dialog on the screen (run_turn,
\* ask_approval), for any number of turns, views and network switches.
THEOREM UserStaysInControl == BkSpec => []UserInControl
<1>1. BkInv => UserInControl
  BY DEF BkInv, ConsentKept, UserInControl, Consent
<1> QED
  BY <1>1, BkInitInv, BkStep, PTL DEF BkSpec

-----------------------------------------------------------------------------
(***************************************************************************)
(* Ceremony.                                                                *)
(***************************************************************************)
\* The prompt, as far as forgetting a request is concerned.
PromptInv ==
    /\ shown \in Sends \cup {Nil}
    /\ send \in [Sends -> {"idle", "asking", "signing", "signed", "cancelled", "failed"}]
    /\ NobodyForgotten

\* Operations that are not asking, or no longer, may come and go while the dialog stays.
LEMMA OthersMoveOn ==
  ASSUME PromptInv, shown' = shown, NEW c, NEW to \in {"idle", "signing", "signed", "failed", "cancelled"},
         send' = [send EXCEPT ![c] = to]
  PROVE  PromptInv'
BY DEF PromptInv, NobodyForgotten

LEMMA PromptStep == PromptInv /\ [CerNext]_cerVars => PromptInv'
<1> SUFFICES ASSUME PromptInv, [CerNext]_cerVars PROVE PromptInv'
  OBVIOUS
<1>0. CASE UNCHANGED <<shown, send>>
  BY <1>0 DEF PromptInv, NobodyForgotten
<1>1. CASE Unmount
  BY <1>1 DEF Unmount, PromptInv, NobodyForgotten
<1>2. CASE Cancelled
  BY <1>2 DEF Cancelled, PromptInv, NobodyForgotten
<1>3. ASSUME NEW c \in Sends, request_quorum(c) PROVE PromptInv'
  <2>1. CASE host
    BY <1>3, <2>1 DEF request_quorum, Poke, PromptInv, NobodyForgotten
  <2>2. CASE ~host
    BY <1>3, <2>2, OthersMoveOn DEF request_quorum
  <2> QED
    BY <2>1, <2>2
<1>4. ASSUME NEW c \in Sends, Keygen(c) \/ Forget(c) PROVE PromptInv'
  BY <1>4, OthersMoveOn DEF Keygen, Forget
<1>5. ASSUME NEW pool \in SUBSET ShareFiles, NEW right \in BOOLEAN, Submit(pool, right) PROVE PromptInv'
  <2>1. shown' = Nil /\ \E to \in {"signing", "failed"} : send' = [send EXCEPT ![shown] = to]
    BY <1>5 DEF Submit
  <2> QED
    BY <2>1 DEF PromptInv, NobodyForgotten
<1>6. CASE Finish
  BY <1>6, OthersMoveOn DEF Finish
<1>7. ASSUME [CerNext]_cerVars
      PROVE  \/ UNCHANGED <<shown, send>> \/ Unmount \/ Cancelled \/ Finish
             \/ \E c \in Sends : request_quorum(c) \/ Keygen(c) \/ Forget(c)
             \/ \E pool \in SUBSET ShareFiles, right \in BOOLEAN : Submit(pool, right)
  BY DEF CerNext, Driven, Mount, FailParty, Publish, Receive, SkipDone, Ask, NextPass, cerVars
<1> QED
  BY <1>0, <1>1, <1>2, <1>3, <1>4, <1>5, <1>6, <1>7

\* An operation that waits for share files is the one on the screen (request_quorum,
\* TssQuorumHost), whichever operations ask at once and whenever the host goes away, for
\* any number of operations and parties.
THEOREM NobodyIsForgotten == CerSpec => []NobodyForgotten
<1>1. CerInit => PromptInv
  BY DEF CerInit, PromptInv, NobodyForgotten
<1>2. PromptInv => NobodyForgotten
  BY DEF PromptInv
<1> QED
  BY <1>1, <1>2, PromptStep, PTL DEF CerSpec

-----------------------------------------------------------------------------
(***************************************************************************)
(* Payments.                                                                *)
(***************************************************************************)

Transfer == [nonce : Nat, state : {"pending", "ok", "reverted", "replaced"}]
Dialog == [step : {"idle", "nonce", "send", "confirm", "post", "wait"}, nonce : Nat, tx : Nat, paid : Nat]
Job == [step : {"free", "cap", "verify", "burn", "files", "row", "done", "refused"},
        who : {Payer, Stranger, Nobody}, kind : {"shout", "site"}, tx : Nat, dialog : Dialogs \cup {Nobody}]
Purchase == [tx : Nat, kind : {"shout", "site"}, who : {Payer, Stranger, Nobody}, live : BOOLEAN]

\* Every variable in its domain.
PayTypeOK ==
    /\ chain \in Seq(Transfer) /\ dlg \in [Dialogs -> Dialog] /\ job \in [Jobs -> Job]
    /\ posted \in Seq(Purchase) /\ removal \in Nat /\ charged \in [Dialogs -> SUBSET Nat]

-----------------------------------------------------------------------------
(***************************************************************************)
(* The dialogs.                                                             *)
(***************************************************************************)
\* A dialog awaits a transfer only in the step for it, and pays only while it holds no
\* hash.
Steady(k) ==
    /\ k.tx # 0 => k.step = "confirm"
    /\ k.step \in {"nonce", "send", "confirm"} => k.paid = 0
\* Everything a dialog was charged for reverted, but the transfer it awaits or holds.
Holds(k, owed, ledger) ==
    \A t \in owed : t \in DOMAIN ledger /\ (ledger[t].state = "reverted" \/ t \in {k.tx, k.paid})
\* A request some dialog sent is the one that dialog waits for.
Awaited ==
    /\ \A j \in Jobs : job[j].dialog # Nobody => dlg[job[j].dialog].step = "wait"
    /\ \A i, j \in Jobs : job[i].dialog = job[j].dialog /\ job[i].dialog # Nobody => i = j

DialogsSound ==
    /\ \A d \in Dialogs : Steady(dlg[d])
    /\ \A d \in Dialogs \ unsure : Holds(dlg[d], charged[d], chain)
    /\ Awaited

-----------------------------------------------------------------------------
(***************************************************************************)
(* The server.                                                              *)
(***************************************************************************)
\* The requests that have burnt their hash and not stored what it bought.
Owing == {j \in Jobs : job[j].step \in {"files", "row"}}

\* A hash is burnt for one request or one purchase, and mined for the payer.
BurntOnce ==
    /\ \A j \in Jobs : job[j].step \in {"burn", "files", "row"} => Mined(job[j].tx) /\ job[j].who = Payer
    /\ \A j \in Owing : job[j].tx \in burnt
    /\ \A i, j \in Owing : job[i].tx = job[j].tx => i = j
    /\ \A i \in DOMAIN posted : posted[i].tx \in burnt
    /\ \A i \in DOMAIN posted, j \in Owing : posted[i].tx # job[j].tx

\* The directory of a site is there before its row and after it.
DirsSound ==
    /\ \A j \in Jobs : job[j].step = "row" /\ job[j].kind = "site" => job[j].tx \in dirs
    /\ removal # 0 => \E i \in DOMAIN posted : posted[i].tx = removal /\ ~posted[i].live

ServerSound == BurntOnce /\ PaidFor /\ NothingWasted /\ DirsSound /\ SiteServed

PayInv == PayTypeOK /\ DialogsSound /\ ServerSound

-----------------------------------------------------------------------------
(***************************************************************************)
(* Lemmas.                                                                  *)
(***************************************************************************)
\* What a step may do to the chain: it grows, and what was mined stays mined.
ChainGrows ==
    \A t \in DOMAIN chain :
        t \in DOMAIN chain' /\ (chain[t].state \in {"ok", "reverted"} => chain'[t].state = chain[t].state)

LEMMA ChainStays == chain' = chain => ChainGrows
BY DEF ChainGrows

LEMMA MinedStays == ASSUME ChainGrows, NEW t, Mined(t) PROVE t \in DOMAIN chain' /\ chain'[t].state = "ok"
BY DEF ChainGrows, Mined

LEMMA HoldsOn ==
  ASSUME ChainGrows, NEW k, NEW owed, Holds(k, owed, chain)
  PROVE  Holds(k, owed, chain')
BY DEF ChainGrows, Holds

\* The account's transaction count is a number.
LEMMA NonceIsNat ==
  ASSUME PayTypeOK
  PROVE  Cardinality({chain[t].nonce : t \in DOMAIN chain}) \in Nat
<1> DEFINE T == {chain[t].nonce : t \in DOMAIN chain}
           f == [t \in DOMAIN chain |-> chain[t].nonce]
<1>1. IsFiniteSet(DOMAIN chain)
  BY FS_Interval, LenProperties DEF PayTypeOK
<1>2. f \in Surjection(DOMAIN chain, T)
  BY DEF Surjection
<1>3. IsFiniteSet(T)
  BY <1>1, <1>2, FS_Surjection DEF ExistsSurjection
<1> QED
  BY <1>3, FS_CardinalityType

LEMMA ShutDialog == Shut \in Dialog /\ Steady(Shut) /\ Shut.tx = 0 /\ Shut.paid = 0
BY DEF Shut, Dialog, Steady

LEMMA FreeJob == NoJob \in Job /\ NoJob.step = "free" /\ NoJob.dialog = Nobody
BY DEF NoJob, Job

\* A dialog that no request answers moves, the others rest.
LEMMA DialogMoves ==
  ASSUME PayTypeOK, DialogsSound, ChainGrows, job' = job,
         NEW d \in Dialogs, dlg[d].step # "wait", NEW k \in Dialog, dlg' = [dlg EXCEPT ![d] = k], Steady(k),
         d \notin unsure' => Holds(k, charged'[d], chain'),
         \A e \in Dialogs \ {d} : charged'[e] = charged[e] /\ (e \in unsure' <=> e \in unsure)
  PROVE  DialogsSound'
<1>1. dlg'[d] = k /\ \A e \in Dialogs \ {d} : dlg'[e] = dlg[e]
  BY DEF PayTypeOK
<1>2. \A e \in Dialogs : Steady(dlg'[e])
  BY <1>1 DEF DialogsSound
<1>3. \A e \in Dialogs \ unsure' : Holds(dlg'[e], charged'[e], chain')
  BY <1>1, HoldsOn DEF DialogsSound
<1>4. Awaited'
  BY <1>1 DEF DialogsSound, Awaited, PayTypeOK, Job
<1> QED
  BY <1>2, <1>3, <1>4 DEF DialogsSound

\* A request goes on or ends unheard, the dialogs rest.
LEMMA JobMoves ==
  ASSUME PayTypeOK, DialogsSound, UNCHANGED <<chain, dlg, charged, unsure>>,
         NEW j \in Jobs, NEW k \in Job, job' = [job EXCEPT ![j] = k], k.dialog \in {Nobody, job[j].dialog}
  PROVE  DialogsSound'
<1>1. job'[j] = k /\ \A i \in Jobs \ {j} : job'[i] = job[i]
  BY DEF PayTypeOK
<1>2. Awaited'
  BY <1>1 DEF DialogsSound, Awaited
<1> QED
  BY <1>2 DEF DialogsSound

\* The dialog a request answers moves with the request's end.
LEMMA AnswerMoves ==
  ASSUME PayTypeOK, DialogsSound, UNCHANGED chain,
         NEW j \in Jobs, job' = [job EXCEPT ![j] = NoJob],
         NEW d \in Dialogs, d = job[j].dialog, NEW k \in Dialog, dlg' = [dlg EXCEPT ![d] = k], Steady(k),
         d \notin unsure' => Holds(k, charged'[d], chain),
         \A e \in Dialogs \ {d} : charged'[e] = charged[e] /\ (e \in unsure' <=> e \in unsure)
  PROVE  DialogsSound'
<1>0. Nobody \notin Dialogs
  BY PaymentsAssumption
<1>1. dlg'[d] = k /\ \A e \in Dialogs \ {d} : dlg'[e] = dlg[e]
  BY DEF PayTypeOK
<1>2. \A e \in Dialogs : Steady(dlg'[e])
  BY <1>1 DEF DialogsSound
<1>3. \A e \in Dialogs \ unsure' : Holds(dlg'[e], charged'[e], chain')
  BY <1>1 DEF DialogsSound
<1>4. job'[j] = NoJob /\ \A i \in Jobs \ {j} : job'[i] = job[i] /\ job[i].dialog # d
  BY <1>0 DEF PayTypeOK, DialogsSound, Awaited
<1>5. \A i \in Jobs : job[i].dialog \in Dialogs \cup {Nobody}
  BY DEF PayTypeOK, Job
<1>6. Awaited'
  BY <1>1, <1>4, <1>5, FreeJob DEF DialogsSound, Awaited
<1> QED
  BY <1>2, <1>3, <1>6 DEF DialogsSound

\* The server's side of a step that leaves its tables alone.
LEMMA TablesRest ==
  ASSUME PayTypeOK, ServerSound, ChainGrows, UNCHANGED <<job, burnt, posted, dirs, removal, cut>>
  PROVE  ServerSound'
<1>1. BurntOnce'
  BY MinedStays DEF ServerSound, BurntOnce, Owing, Mined
<1>2. PaidFor'
  BY MinedStays DEF ServerSound, PaidFor, Mined
<1>3. NothingWasted' /\ DirsSound' /\ SiteServed'
  BY DEF ServerSound, NothingWasted, DirsSound, SiteServed
<1> QED
  BY <1>1, <1>2, <1>3 DEF ServerSound

\* A request comes, goes on or ends without storing anything; one that owed something is
\* written down as cut.
LEMMA RequestMoves ==
  ASSUME PayTypeOK, ServerSound, UNCHANGED <<chain, burnt, posted, dirs, removal>>, cut \subseteq cut',
         NEW j \in Jobs, NEW k \in Job, job' = [job EXCEPT ![j] = k], k.step \notin {"files", "row"},
         k.step = "burn" => Mined(k.tx) /\ k.who = Payer,
         j \in Owing => job[j].tx \in cut'
  PROVE  ServerSound'
<1>1. job'[j] = k /\ \A i \in Jobs \ {j} : job'[i] = job[i]
  BY DEF PayTypeOK
<1>2. j \notin Owing' /\ \A i \in Owing' : i \in Owing /\ job'[i] = job[i]
  BY <1>1 DEF Owing
<1>3. BurntOnce'
  <2>1. \A i \in Jobs : job'[i].step \in {"burn", "files", "row"} => Mined(job'[i].tx) /\ job'[i].who = Payer
    BY <1>1 DEF ServerSound, BurntOnce
  <2> QED
    BY <1>2, <2>1 DEF ServerSound, BurntOnce, Mined
<1>4. PaidFor'
  BY DEF ServerSound, PaidFor, Mined
<1>5. NothingWasted'
  BY <1>1 DEF ServerSound, NothingWasted, Owing
<1>6. DirsSound' /\ SiteServed'
  BY <1>1 DEF ServerSound, DirsSound, SiteServed
<1> QED
  BY <1>3, <1>4, <1>5, <1>6 DEF ServerSound

-----------------------------------------------------------------------------
(***************************************************************************)
(* The steps of a dialog.                                                   *)
(***************************************************************************)
LEMMA DialogFields ==
  ASSUME PayTypeOK, NEW d \in Dialogs
  PROVE  dlg[d] \in Dialog /\ dlg[d].tx \in Nat /\ dlg[d].paid \in Nat /\ dlg[d].nonce \in Nat
BY DEF PayTypeOK, Dialog

\* A dialog that moves while the chain and everything at the server rest.
LEMMA QuietDialog ==
  ASSUME PayInv, UNCHANGED <<chain, job, burnt, posted, dirs, removal, cut>>,
         NEW d \in Dialogs, dlg[d].step # "wait", NEW k \in Dialog, dlg' = [dlg EXCEPT ![d] = k], Steady(k),
         charged' \in [Dialogs -> SUBSET Nat],
         d \notin unsure' => Holds(k, charged'[d], chain),
         \A e \in Dialogs \ {d} : charged'[e] = charged[e] /\ (e \in unsure' <=> e \in unsure)
  PROVE  PayInv'
<1>1. DialogsSound'
  BY ChainStays, DialogMoves DEF PayInv
<1>2. ServerSound'
  BY ChainStays, TablesRest DEF PayInv
<1>3. PayTypeOK'
  BY DEF PayInv, PayTypeOK
<1> QED
  BY <1>1, <1>2, <1>3 DEF PayInv

LEMMA PressStep == ASSUME PayInv, NEW d \in Dialogs, Press(d) PROVE PayInv'
<1> DEFINE s == IF dlg[d].paid # 0 THEN "post" ELSE "nonce"
           k == [dlg[d] EXCEPT !.step = s]
<1>1. dlg[d] \in Dialog /\ Steady(dlg[d]) /\ dlg[d].step = "idle" /\ charged \in [Dialogs -> SUBSET Nat]
  BY DialogFields DEF PayInv, DialogsSound, Press, PayTypeOK
<1>2. dlg' = [dlg EXCEPT ![d] = k]
  BY DEF Press, PayInv, PayTypeOK
<1>3. k \in Dialog /\ k.tx = dlg[d].tx /\ k.paid = dlg[d].paid /\ k.step = s
  BY <1>1 DEF Dialog
<1>4. Steady(k)
  BY <1>1, <1>3 DEF Steady
<1>5. d \notin unsure => Holds(k, charged[d], chain)
  BY <1>3 DEF PayInv, DialogsSound, Holds
<1> HIDE DEF k
<1> QED
  BY <1>1, <1>2, <1>3, <1>4, <1>5, QuietDialog DEF Press

LEMMA ReadNonceStep == ASSUME PayInv, NEW d \in Dialogs, ReadNonce(d) PROVE PayInv'
<1> DEFINE n == Cardinality({chain[t].nonce : t \in DOMAIN chain})
           k == [dlg[d] EXCEPT !.step = "send", !.nonce = n]
<1>1. dlg[d] \in Dialog /\ Steady(dlg[d]) /\ dlg[d].step = "nonce" /\ charged \in [Dialogs -> SUBSET Nat]
  BY DialogFields DEF PayInv, DialogsSound, ReadNonce, PayTypeOK
<1>2. dlg' = [dlg EXCEPT ![d] = k]
  BY DEF ReadNonce, PayInv, PayTypeOK
<1>3. n \in Nat
  BY NonceIsNat DEF PayInv
<1> HIDE DEF n
<1>4. k \in Dialog /\ k.tx = dlg[d].tx /\ k.paid = dlg[d].paid /\ k.step = "send"
  BY <1>1, <1>3 DEF Dialog
<1>5. Steady(k)
  BY <1>1, <1>4 DEF Steady
<1>6. d \notin unsure => Holds(k, charged[d], chain)
  BY <1>4 DEF PayInv, DialogsSound, Holds
<1> HIDE DEF k
<1> QED
  BY <1>1, <1>2, <1>4, <1>5, <1>6, QuietDialog DEF ReadNonce

LEMMA ConfirmStep == ASSUME PayInv, NEW d \in Dialogs, Confirm(d) PROVE PayInv'
<1> DEFINE k == IF chain[dlg[d].tx].state = "reverted" THEN Shut
                ELSE [step |-> "post", nonce |-> 0, tx |-> 0, paid |-> dlg[d].tx]
<1>1. dlg[d] \in Dialog /\ dlg[d].tx \in Nat /\ Steady(dlg[d]) /\ dlg[d].step = "confirm" /\ charged \in [Dialogs -> SUBSET Nat]
  BY DialogFields DEF PayInv, DialogsSound, Confirm, PayTypeOK
<1>2. dlg' = [dlg EXCEPT ![d] = k]
  BY DEF Confirm, PayInv, PayTypeOK
<1>3. k \in Dialog /\ Steady(k)
  BY <1>1, ShutDialog DEF Dialog, Steady
<1>4. d \notin unsure => Holds(k, charged[d], chain)
  <2> SUFFICES ASSUME d \notin unsure, NEW t \in charged[d]
               PROVE  t \in DOMAIN chain /\ (chain[t].state = "reverted" \/ t \in {k.tx, k.paid})
    BY DEF Holds
  <2>1. t \in DOMAIN chain /\ (chain[t].state = "reverted" \/ t \in {dlg[d].tx, dlg[d].paid})
    BY DEF PayInv, DialogsSound, Holds
  <2>2. CASE t = dlg[d].tx
    BY <2>1, <2>2
  <2>3. CASE t # dlg[d].tx /\ chain[t].state # "reverted"
    <3>1. t = dlg[d].paid /\ t # 0
      BY <2>1, <2>3, LenProperties DEF PayInv, PayTypeOK
    <3> QED
      BY <1>1, <3>1 DEF Steady
  <2> QED
    BY <2>1, <2>2, <2>3
<1> HIDE DEF k
<1> QED
  BY <1>1, <1>2, <1>3, <1>4, QuietDialog DEF Confirm

LEMMA CloseStep == ASSUME PayInv, NEW d \in Dialogs, Close(d) PROVE PayInv'
<1>1. charged' \in [Dialogs -> SUBSET Nat] /\ charged'[d] = {} /\ \A e \in Dialogs \ {d} : charged'[e] = charged[e]
  BY DEF PayInv, PayTypeOK, Close
<1>2. dlg[d].step = "idle" /\ dlg' = [dlg EXCEPT ![d] = Shut] /\ \A e \in Dialogs \ {d} : e \in unsure' <=> e \in unsure
  BY DEF Close
<1>3. Holds(Shut, charged'[d], chain)
  BY <1>1 DEF Holds
<1> QED
  BY <1>1, <1>2, <1>3, ShutDialog, QuietDialog DEF Close

\* A transfer under a nonce takes the place of those pending under it.
LEMMA Broadcasts ==
  ASSUME PayTypeOK, NEW n \in Nat,
         NEW same \in SUBSET DOMAIN chain, \A t \in same : chain[t].state = "pending",
         chain' = Append([t \in DOMAIN chain |-> IF t \in same THEN [chain[t] EXCEPT !.state = "replaced"]
                                                 ELSE chain[t]],
                         [nonce |-> n, state |-> "pending"])
  PROVE  /\ chain' \in Seq(Transfer) /\ ChainGrows
         /\ Len(chain) + 1 \in DOMAIN chain' /\ Len(chain) + 1 \in Nat \ {0}
<1> DEFINE ch == [t \in DOMAIN chain |-> IF t \in same THEN [chain[t] EXCEPT !.state = "replaced"] ELSE chain[t]]
           new == [nonce |-> n, state |-> "pending"]
<1>1. Len(chain) \in Nat /\ DOMAIN chain = 1..Len(chain) /\ chain \in [1..Len(chain) -> Transfer]
  BY LenProperties DEF PayTypeOK
<1>2. ch \in [1..Len(chain) -> Transfer]
  BY <1>1 DEF Transfer
<1>3. ch \in Seq(Transfer)
  BY <1>1, <1>2, SeqDef
<1>4. Len(ch) = Len(chain)
  BY <1>1, <1>2, <1>3, LenProperties
<1>5. new \in Transfer
  BY DEF Transfer
<1>6. \A t \in DOMAIN chain : chain[t].state \in {"ok", "reverted"} => ch[t].state = chain[t].state
  OBVIOUS
<1> HIDE DEF ch, new
<1>7. chain' = Append(ch, new)
  BY DEF ch, new
<1>8. chain' \in Seq(Transfer) /\ Len(chain') = Len(chain) + 1 /\ \A t \in 1..Len(chain) : chain'[t] = ch[t]
  <2>1. /\ Append(ch, new) \in Seq(Transfer) /\ Len(Append(ch, new)) = Len(ch) + 1
        /\ \A t \in 1..Len(ch) : Append(ch, new)[t] = ch[t]
    BY <1>3, <1>5, AppendProperties
  <2> QED
    BY <1>4, <1>7, <2>1
<1>9. DOMAIN chain' = 1..(Len(chain) + 1)
  BY <1>8, LenProperties
<1> QED
  BY <1>1, <1>6, <1>8, <1>9 DEF ChainGrows

LEMMA BroadcastStep == ASSUME PayInv, NEW d \in Dialogs, Broadcast(d) PROVE PayInv'
<1> DEFINE n == dlg[d].nonce
           same == {t \in DOMAIN chain : chain[t].nonce = n /\ chain[t].state # "replaced"}
           new == Len(chain) + 1
           k == [dlg[d] EXCEPT !.step = "confirm", !.nonce = 0, !.tx = new]
<1>1. /\ dlg[d] \in Dialog /\ n \in Nat /\ Steady(dlg[d]) /\ dlg[d].step = "send" /\ charged \in [Dialogs -> SUBSET Nat]
      /\ dlg[d].tx = 0 /\ dlg[d].paid = 0
  BY DialogFields DEF PayInv, DialogsSound, Broadcast, PayTypeOK, Steady
<1>2. CASE UNCHANGED <<chain, odd, charged, unsure>>
  <2>1. dlg' = [dlg EXCEPT ![d] = Shut]
    BY <1>1, <1>2, Broadcasts, LenProperties DEF Broadcast, PayInv, PayTypeOK
  <2>2. d \notin unsure' => Holds(Shut, charged'[d], chain)
    BY <1>1, <1>2, ShutDialog DEF PayInv, DialogsSound, Holds
  <2> QED
    BY <1>1, <1>2, <2>1, <2>2, ShutDialog, QuietDialog DEF Broadcast
<1>3. CASE /\ \A t \in same : chain[t].state = "pending"
           /\ chain' = Append([t \in DOMAIN chain |-> IF t \in same THEN [chain[t] EXCEPT !.state = "replaced"]
                                                       ELSE chain[t]],
                              [nonce |-> n, state |-> "pending"])
           /\ charged' = [charged EXCEPT ![d] = @ \cup {new}]
           /\ \/ dlg' = [dlg EXCEPT ![d] = k] /\ UNCHANGED unsure
              \/ dlg' = [dlg EXCEPT ![d] = Shut] /\ unsure' = unsure \cup {d}
  <2>1. chain' \in Seq(Transfer) /\ ChainGrows /\ new \in DOMAIN chain' /\ new \in Nat \ {0}
    <3>1. same \in SUBSET DOMAIN chain
      OBVIOUS
    <3> HIDE DEF same
    <3> QED
      BY <1>1, <1>3, <3>1, Broadcasts DEF PayInv
  <2> HIDE DEF new, same
  <2>2. charged' \in [Dialogs -> SUBSET Nat] /\ charged'[d] = charged[d] \cup {new} /\ \A e \in Dialogs \ {d} : charged'[e] = charged[e]
    BY <1>1, <1>3, <2>1
  <2>3. k \in Dialog /\ Steady(k) /\ k.tx = new
    BY <1>1, <2>1 DEF Dialog, Steady
  <2>4. d \notin unsure => Holds(k, charged'[d], chain')
    <3> SUFFICES ASSUME d \notin unsure, NEW t \in charged'[d]
                 PROVE  t \in DOMAIN chain' /\ (chain'[t].state = "reverted" \/ t \in {k.tx, k.paid})
      BY DEF Holds
    <3>1. CASE t = new
      BY <2>1, <2>3, <3>1
    <3>2. CASE t \in charged[d]
      <4>1. t \in DOMAIN chain /\ (chain[t].state = "reverted" \/ t = 0)
        BY <1>1, <3>2 DEF PayInv, DialogsSound, Holds
      <4>2. t # 0
        BY <4>1, LenProperties DEF PayInv, PayTypeOK
      <4> QED
        BY <2>1, <4>1, <4>2 DEF ChainGrows
    <3> QED
      BY <2>2, <3>1, <3>2
  <2> HIDE DEF k
  <2>5. DialogsSound'
    <3>1. CASE dlg' = [dlg EXCEPT ![d] = k] /\ UNCHANGED unsure
      BY <1>1, <2>1, <2>2, <2>3, <2>4, <3>1, DialogMoves DEF PayInv, Broadcast
    <3>2. CASE dlg' = [dlg EXCEPT ![d] = Shut] /\ unsure' = unsure \cup {d}
      BY <1>1, <2>1, <2>2, <3>2, ShutDialog, DialogMoves DEF PayInv, Broadcast
    <3> QED
      BY <1>3, <3>1, <3>2
  <2>6. ServerSound'
    BY <2>1, TablesRest DEF PayInv, Broadcast
  <2>7. PayTypeOK'
    <3>1. dlg' \in [Dialogs -> Dialog]
      BY <1>3, <2>3, ShutDialog DEF PayInv, PayTypeOK
    <3> QED
      BY <2>1, <2>2, <3>1 DEF PayInv, PayTypeOK, Broadcast
  <2> QED
    BY <2>5, <2>6, <2>7 DEF PayInv
<1> QED
  BY <1>2, <1>3 DEF Broadcast

LEMMA MineStep == ASSUME PayInv, NEW t \in DOMAIN chain, NEW outcome \in {"ok", "reverted"}, Mine(t, outcome) PROVE PayInv'
<1> DEFINE r == [chain[t] EXCEPT !.state = outcome]
<1>1. t \in 1..Len(chain) /\ DOMAIN chain = 1..Len(chain) /\ chain[t] \in Transfer
  BY LenProperties, ElementOfSeq DEF PayInv, PayTypeOK
<1>2. r \in Transfer
  BY <1>1 DEF Transfer
<1>3. chain' = [chain EXCEPT ![t] = r]
  BY DEF Mine
<1> HIDE DEF r
<1>4. chain' \in Seq(Transfer) /\ Len(chain') = Len(chain)
  BY <1>1, <1>2, <1>3, ExceptSeq DEF PayInv, PayTypeOK
<1>5. DOMAIN chain' = DOMAIN chain
  BY <1>1, <1>4, LenProperties
<1>6. ChainGrows
  BY <1>1, <1>3, <1>5 DEF ChainGrows, Mine
<1>7. PayTypeOK'
  BY <1>4 DEF PayInv, PayTypeOK, Mine
<1>8. Awaited'
  BY DEF PayInv, DialogsSound, Awaited, Mine
<1>9. DialogsSound'
  BY <1>6, <1>8, HoldsOn DEF PayInv, DialogsSound, Mine
<1>10. ServerSound'
  BY <1>6, TablesRest DEF PayInv, Mine
<1> QED
  BY <1>7, <1>9, <1>10 DEF PayInv

-----------------------------------------------------------------------------
(***************************************************************************)
(* The steps of a request.                                                  *)
(***************************************************************************)
LEMMA JobFields ==
  ASSUME PayTypeOK, NEW j \in Jobs
  PROVE  job[j] \in Job /\ job[j].tx \in Nat /\ job[j].dialog \in Dialogs \cup {Nobody}
BY DEF PayTypeOK, Job

LEMMA EndedJob ==
  ASSUME PayTypeOK, NEW j \in Jobs, NEW s \in {"done", "refused"}
  PROVE  /\ Ended(j, s) \in Job /\ Ended(j, s).dialog \in {Nobody, job[j].dialog}
         /\ Ended(j, s).step \in {"free", "done", "refused"}
<1> DEFINE e == [job[j] EXCEPT !.step = s]
<1>1. e \in Job /\ e.step = s /\ e.dialog = job[j].dialog
  BY JobFields DEF Job
<1>2. Ended(j, s) = NoJob \/ Ended(j, s) = e
  BY DEF Ended
<1> HIDE DEF e
<1> QED
  BY <1>1, <1>2, FreeJob

\* A request that goes on or ends without touching the tables, heard by nobody.
LEMMA QuietJob ==
  ASSUME PayInv, UNCHANGED <<chain, dlg, burnt, posted, dirs, removal, charged, unsure>>, cut \subseteq cut',
         NEW j \in Jobs, NEW k \in Job, job' = [job EXCEPT ![j] = k], k.step \notin {"files", "row"},
         k.dialog \in {Nobody, job[j].dialog},
         k.step = "burn" => Mined(k.tx) /\ k.who = Payer,
         j \in Owing => job[j].tx \in cut'
  PROVE  PayInv'
<1>1. DialogsSound'
  BY JobMoves DEF PayInv
<1>2. ServerSound'
  BY RequestMoves DEF PayInv
<1>3. PayTypeOK'
  BY DEF PayInv, PayTypeOK
<1> QED
  BY <1>1, <1>2, <1>3 DEF PayInv

LEMMA PostStep == ASSUME PayInv, NEW d \in Dialogs, NEW j \in Jobs, Post(d, j) PROVE PayInv'
<1> DEFINE k == [dlg[d] EXCEPT !.step = "wait"]
           q == [step |-> "cap", who |-> Payer, kind |-> KindOf(d), tx |-> dlg[d].paid, dialog |-> d]
<1>0. Nobody \notin Dialogs
  BY PaymentsAssumption
<1>1. dlg[d] \in Dialog /\ dlg[d].paid \in Nat /\ Steady(dlg[d]) /\ dlg[d].step = "post" /\ job[j].step = "free"
  BY DialogFields DEF PayInv, DialogsSound, Post
<1>2. k \in Dialog /\ Steady(k) /\ k.step = "wait" /\ k.tx = dlg[d].tx /\ k.paid = dlg[d].paid
  BY <1>1 DEF Dialog, Steady
<1>3. q \in Job /\ q.step = "cap" /\ q.dialog = d
  BY <1>1 DEF Job, KindOf
<1>4. dlg' = [dlg EXCEPT ![d] = k] /\ job' = [job EXCEPT ![j] = q]
  BY DEF Post, PayInv, PayTypeOK
<1> HIDE DEF k, q
<1>5. PayTypeOK'
  BY <1>2, <1>3, <1>4 DEF PayInv, PayTypeOK, Post
<1>6. ServerSound'
  BY <1>1, <1>3, <1>4, RequestMoves DEF PayInv, Post, Owing
<1>7. dlg'[d] = k /\ (\A e \in Dialogs \ {d} : dlg'[e] = dlg[e]) /\ job'[j] = q /\ \A i \in Jobs \ {j} : job'[i] = job[i]
  BY <1>4 DEF PayInv, PayTypeOK
<1>8. \A i \in Jobs : job[i].dialog \in (Dialogs \cup {Nobody}) \ {d}
  BY <1>0, <1>1, JobFields DEF PayInv, DialogsSound, Awaited
<1>9. Awaited'
  BY <1>2, <1>3, <1>7, <1>8 DEF PayInv, DialogsSound, Awaited
<1>10. \A e \in Dialogs : Steady(dlg'[e])
  BY <1>2, <1>7 DEF PayInv, DialogsSound
<1>11. \A e \in Dialogs \ unsure : Holds(dlg'[e], charged[e], chain)
  BY <1>2, <1>7 DEF PayInv, DialogsSound, Holds
<1> QED
  BY <1>5, <1>6, <1>9, <1>10, <1>11 DEF PayInv, DialogsSound, Post

LEMMA PresentStep ==
  ASSUME PayInv, NEW j \in Jobs, NEW who \in {Payer, Stranger}, NEW kind \in {"shout", "site"}, NEW t \in 1..MaxTx,
         Present(j, who, kind, t)
  PROVE  PayInv'
<1> DEFINE q == [step |-> "cap", who |-> who, kind |-> kind, tx |-> t, dialog |-> Nobody]
<1>1. q \in Job /\ q.step = "cap" /\ q.dialog = Nobody
  BY PaymentsAssumption DEF Job
<1>2. job' = [job EXCEPT ![j] = q] /\ j \notin Owing
  BY DEF Present, Owing
<1> HIDE DEF q
<1> QED
  BY <1>1, <1>2, QuietJob DEF Present

LEMMA AnsweredStep == ASSUME PayInv, NEW j \in Jobs, Answered(j) PROVE PayInv'
<1> DEFINE d == job[j].dialog
<1>0. j \notin Owing /\ job' = [job EXCEPT ![j] = NoJob] /\ d \in Dialogs \cup {Nobody}
  BY JobFields DEF PayInv, Answered, Owing
<1>1. ServerSound'
  BY <1>0, FreeJob, RequestMoves DEF PayInv, Answered
<1>2. CASE d = Nobody
  <2>1. d \notin Dialogs /\ dlg \in [Dialogs -> Dialog] /\ charged \in [Dialogs -> SUBSET Nat]
    BY <1>2, PaymentsAssumption DEF PayInv, PayTypeOK
  <2>2. dlg' = dlg /\ charged' = charged
    BY <2>1 DEF Answered
  <2>3. \A e \in Dialogs : e \in unsure <=> e \in unsure'
    BY <2>1 DEF Answered
  <2>4. Awaited'
    BY <1>0, <2>2, FreeJob DEF PayInv, PayTypeOK, DialogsSound, Awaited
  <2>5. DialogsSound'
    BY <2>2, <2>3, <2>4 DEF PayInv, DialogsSound, Answered
  <2>6. PayTypeOK'
    BY <1>0, <2>2, FreeJob DEF PayInv, PayTypeOK, Answered
  <2> QED
    BY <1>1, <2>5, <2>6 DEF PayInv
<1>3. CASE d \in Dialogs
  <2> DEFINE k == IF job[j].step = "done" THEN Shut ELSE Failed(d)
  <2>1. dlg[d] \in Dialog /\ Steady(dlg[d]) /\ dlg[d].step = "wait"
    BY <1>3, DialogFields, PaymentsAssumption DEF PayInv, DialogsSound, Awaited
  <2>2. Failed(d) \in Dialog /\ Steady(Failed(d)) /\ Failed(d).tx = dlg[d].tx /\ Failed(d).paid = dlg[d].paid
    BY <2>1 DEF Dialog, Steady, Failed
  <2>3. dlg' = [dlg EXCEPT ![d] = k]
    BY DEF Answered
  <2>4. k \in Dialog /\ Steady(k)
    BY <2>2, ShutDialog
  <2>5. /\ charged' \in [Dialogs -> SUBSET Nat]
        /\ \A e \in Dialogs \ {d} : charged'[e] = charged[e] /\ (e \in unsure' <=> e \in unsure)
    BY <1>3 DEF PayInv, PayTypeOK, Answered
  <2>6. d \notin unsure' => Holds(k, charged'[d], chain)
    <3>1. CASE job[j].step = "done"
      <4>1. charged'[d] = {}
        BY <1>3, <3>1 DEF PayInv, PayTypeOK, Answered
      <4> QED
        BY <4>1 DEF Holds
    <3>2. CASE job[j].step # "done"
      BY <1>3, <2>2, <3>2 DEF PayInv, DialogsSound, Holds, Answered
    <3> QED
      BY <3>1, <3>2
  <2>7. PayTypeOK'
    BY <1>0, <2>3, <2>4, <2>5, FreeJob DEF PayInv, PayTypeOK, Answered
  <2> HIDE DEF k
  <2>8. DialogsSound'
    BY <1>0, <1>3, <2>3, <2>4, <2>5, <2>6, AnswerMoves DEF PayInv, Answered
  <2> QED
    BY <1>1, <2>7, <2>8 DEF PayInv
<1> QED
  BY <1>0, <1>2, <1>3

LEMMA CutStep == ASSUME PayInv, NEW j \in Jobs, Cut(j) PROVE PayInv'
<1> DEFINE d == job[j].dialog
<1>0. /\ job' = [job EXCEPT ![j] = NoJob] /\ d \in Dialogs \cup {Nobody} /\ cut \subseteq cut'
      /\ j \in Owing => job[j].tx \in cut'
  BY JobFields DEF PayInv, Cut, Owing
<1>1. CASE d = Nobody
  BY <1>0, <1>1, FreeJob, QuietJob DEF Cut
<1>2. CASE d # Nobody
  <2>0. d \in Dialogs
    BY <1>0, <1>2
  <2>1. dlg[d] \in Dialog /\ Steady(dlg[d]) /\ dlg[d].step = "wait"
    BY <1>2, <2>0, DialogFields DEF PayInv, DialogsSound, Awaited
  <2>2. Failed(d) \in Dialog /\ Steady(Failed(d)) /\ Failed(d).tx = dlg[d].tx /\ Failed(d).paid = dlg[d].paid
    BY <2>1 DEF Dialog, Steady, Failed
  <2>3. dlg' = [dlg EXCEPT ![d] = Failed(d)]
    BY <1>2 DEF Cut
  <2>4. d \notin unsure => Holds(Failed(d), charged[d], chain)
    BY <2>0, <2>2 DEF PayInv, DialogsSound, Holds
  <2>5. DialogsSound'
    BY <1>0, <2>0, <2>2, <2>3, <2>4, AnswerMoves DEF PayInv, Cut
  <2>6. ServerSound'
    BY <1>0, FreeJob, RequestMoves DEF PayInv, Cut
  <2>7. PayTypeOK'
    BY <1>0, <2>2, <2>3, FreeJob DEF PayInv, PayTypeOK, Cut
  <2> QED
    BY <2>5, <2>6, <2>7 DEF PayInv
<1> QED
  BY <1>1, <1>2

LEMMA CheckCapStep == ASSUME PayInv, NEW j \in Jobs, CheckCap(j) PROVE PayInv'
<1> DEFINE k == IF Burning(job[j].kind, job[j].who) >= MaxActive THEN Ended(j, "refused")
                ELSE [job[j] EXCEPT !.step = "verify"]
<1>1. job' = [job EXCEPT ![j] = k] /\ j \notin Owing
  BY DEF CheckCap, Owing
<1>2. k \in Job /\ k.step \in {"free", "done", "refused", "verify"} /\ k.dialog \in {Nobody, job[j].dialog}
  <2> DEFINE e == [job[j] EXCEPT !.step = "verify"]
  <2>1. e \in Job /\ e.step = "verify" /\ e.dialog = job[j].dialog
    BY JobFields DEF PayInv, Job
  <2>2. k = Ended(j, "refused") \/ k = e
    OBVIOUS
  <2> HIDE DEF e, k
  <2> QED
    BY <2>1, <2>2, EndedJob DEF PayInv
<1> HIDE DEF k
<1> QED
  BY <1>1, <1>2, QuietJob DEF CheckCap

LEMMA VerifyStep == ASSUME PayInv, NEW j \in Jobs, verify_on_chain(j) PROVE PayInv'
<1> DEFINE k == IF Mined(job[j].tx) /\ job[j].who = Payer THEN [job[j] EXCEPT !.step = "burn"] ELSE Ended(j, "refused")
<1>1. job' = [job EXCEPT ![j] = k] /\ j \notin Owing
  BY DEF verify_on_chain, Owing
<1>2. /\ k \in Job /\ k.step \in {"free", "done", "refused", "burn"} /\ k.dialog \in {Nobody, job[j].dialog}
      /\ k.step = "burn" => Mined(k.tx) /\ k.who = Payer
  <2> DEFINE e == [job[j] EXCEPT !.step = "burn"]
  <2>1. e \in Job /\ e.step = "burn" /\ e.dialog = job[j].dialog /\ e.tx = job[j].tx /\ e.who = job[j].who
    BY JobFields DEF PayInv, Job
  <2>2. k = Ended(j, "refused") \/ (k = e /\ Mined(job[j].tx) /\ job[j].who = Payer)
    OBVIOUS
  <2> HIDE DEF e, k
  <2> QED
    BY <2>1, <2>2, EndedJob DEF PayInv
<1> HIDE DEF k
<1> QED
  BY <1>1, <1>2, QuietJob DEF verify_on_chain

\* One request wins the hash: nobody else owes it, and nothing was bought with it.
LEMMA BurnStep == ASSUME PayInv, NEW j \in Jobs, Burn(j) PROVE PayInv'
<1> DEFINE t == job[j].tx
           k == [job[j] EXCEPT !.step = IF job[j].kind = "site" THEN "files" ELSE "row"]
<1>0. /\ job[j] \in Job /\ job[j].step = "burn" /\ burnt' = burnt \cup {t} /\ j \notin Owing
      /\ Mined(t) /\ job[j].who = Payer
  BY JobFields DEF PayInv, Burn, Owing, ServerSound, BurntOnce
<1>1. CASE t \in burnt
  <2>1. job' = [job EXCEPT ![j] = Ended(j, "refused")] /\ burnt' = burnt
    BY <1>0, <1>1 DEF Burn
  <2>2. Ended(j, "refused") \in Job /\ Ended(j, "refused").dialog \in {Nobody, job[j].dialog}
        /\ Ended(j, "refused").step \in {"free", "done", "refused"}
    BY EndedJob DEF PayInv
  <2> QED
    BY <1>0, <2>1, <2>2, QuietJob DEF Burn
<1>2. CASE t \notin burnt
  <2>1. job' = [job EXCEPT ![j] = k]
    BY <1>0, <1>2 DEF Burn
  <2>2. /\ k \in Job /\ k.dialog = job[j].dialog /\ k.tx = t /\ k.who = Payer /\ k.kind = job[j].kind
        /\ k.step \in {"files", "row"} /\ (k.kind = "site" => k.step = "files")
    BY <1>0 DEF Job
  <2> HIDE DEF k
  <2>3. job'[j] = k /\ \A i \in Jobs \ {j} : job'[i] = job[i]
    BY <2>1 DEF PayInv, PayTypeOK
  <2>4. Owing' = Owing \cup {j}
    BY <2>2, <2>3 DEF Owing
  <2>5. \A i \in Owing : job'[i] = job[i] /\ job[i].tx # t
    BY <1>0, <1>2, <2>3 DEF PayInv, ServerSound, BurntOnce, Owing
  <2>6. BurntOnce'
    <3>1. \A i \in Jobs : job'[i].step \in {"burn", "files", "row"} => Mined(job'[i].tx) /\ job'[i].who = Payer
      BY <1>0, <2>2, <2>3 DEF PayInv, ServerSound, BurntOnce
    <3>2. \A i \in Owing' : job'[i].tx \in burnt'
      BY <1>0, <2>2, <2>3, <2>4, <2>5 DEF PayInv, ServerSound, BurntOnce
    <3>3. \A i, h \in Owing' : job'[i].tx = job'[h].tx => i = h
      BY <2>2, <2>3, <2>4, <2>5 DEF PayInv, ServerSound, BurntOnce
    <3>4. \A i \in DOMAIN posted : posted[i].tx \in burnt /\ \A h \in Owing' : posted[i].tx # job'[h].tx
      BY <1>2, <2>2, <2>3, <2>4, <2>5 DEF PayInv, ServerSound, BurntOnce
    <3>5. posted' = posted /\ chain' = chain /\ burnt \subseteq burnt'
      BY <1>0 DEF Burn
    <3> QED
      BY <3>1, <3>2, <3>3, <3>4, <3>5 DEF BurntOnce, Mined
  <2>7. PaidFor'
    BY DEF PayInv, ServerSound, PaidFor, Mined, Burn
  <2>8. NothingWasted'
    BY <1>0, <2>2, <2>3 DEF PayInv, ServerSound, NothingWasted, Burn
  <2>9. DirsSound' /\ SiteServed'
    BY <2>2, <2>3 DEF PayInv, ServerSound, DirsSound, SiteServed, Burn
  <2>10. PayTypeOK'
    BY <2>1, <2>2 DEF PayInv, PayTypeOK, Burn
  <2>11. DialogsSound'
    BY <2>1, <2>2, JobMoves DEF PayInv, Burn
  <2> QED
    BY <2>6, <2>7, <2>8, <2>9, <2>10, <2>11 DEF PayInv, ServerSound
<1> QED
  BY <1>1, <1>2

LEMMA WriteFilesStep == ASSUME PayInv, NEW j \in Jobs, WriteFiles(j) PROVE PayInv'
<1> DEFINE k == [job[j] EXCEPT !.step = "row"]
<1>0. job[j] \in Job /\ job[j].step = "files" /\ dirs' = dirs \cup {job[j].tx}
  BY JobFields DEF PayInv, WriteFiles
<1>1. job' = [job EXCEPT ![j] = k]
  BY DEF WriteFiles
<1>2. k \in Job /\ k.step = "row" /\ k.dialog = job[j].dialog /\ k.tx = job[j].tx /\ k.who = job[j].who /\ k.kind = job[j].kind
  BY <1>0 DEF Job
<1> HIDE DEF k
<1>3. job'[j] = k /\ \A i \in Jobs \ {j} : job'[i] = job[i]
  BY <1>1 DEF PayInv, PayTypeOK
<1>4. Owing' = Owing /\ j \in Owing /\ \A i \in Jobs : job'[i].tx = job[i].tx /\ job'[i].who = job[i].who /\ job'[i].kind = job[i].kind
  BY <1>0, <1>2, <1>3 DEF Owing
<1>5. BurntOnce'
  <2>1. \A i \in Jobs : job'[i].step \in {"burn", "files", "row"} => job[i].step \in {"burn", "files", "row"}
    BY <1>0, <1>2, <1>3
  <2> QED
    BY <1>4, <2>1 DEF PayInv, ServerSound, BurntOnce, Mined, WriteFiles
<1>6. PaidFor'
  BY DEF PayInv, ServerSound, PaidFor, Mined, WriteFiles
<1>7. NothingWasted'
  BY <1>2, <1>3 DEF PayInv, ServerSound, NothingWasted, WriteFiles
<1>8. DirsSound'
  BY <1>0, <1>2, <1>3 DEF PayInv, ServerSound, DirsSound, WriteFiles
<1>9. SiteServed'
  BY <1>0 DEF PayInv, ServerSound, SiteServed, WriteFiles
<1>10. PayTypeOK'
  BY <1>1, <1>2 DEF PayInv, PayTypeOK, WriteFiles
<1>11. DialogsSound'
  BY <1>1, <1>2, JobMoves DEF PayInv, WriteFiles
<1> QED
  BY <1>5, <1>6, <1>7, <1>8, <1>9, <1>10, <1>11 DEF PayInv, ServerSound

LEMMA StoreRowStep == ASSUME PayInv, NEW j \in Jobs, StoreRow(j) PROVE PayInv'
<1> DEFINE p == [tx |-> job[j].tx, kind |-> job[j].kind, who |-> job[j].who, live |-> TRUE]
           k == Ended(j, "done")
           n == Len(posted) + 1
<1>0. job[j] \in Job /\ job[j].step = "row" /\ j \in Owing
  BY JobFields DEF PayInv, StoreRow, Owing
<1>1. job' = [job EXCEPT ![j] = k] /\ posted' = Append(posted, p)
  BY DEF StoreRow
<1>2. k \in Job /\ k.dialog \in {Nobody, job[j].dialog} /\ k.step \in {"free", "done", "refused"}
  BY EndedJob DEF PayInv
<1>3. p \in Purchase /\ p.tx = job[j].tx /\ p.kind = job[j].kind /\ p.who = job[j].who
  <2>1. TRUE \in BOOLEAN
    OBVIOUS
  <2> QED
    BY <1>0, <2>1 DEF Purchase, Job
<1> HIDE DEF p, k
<1>4. /\ posted' \in Seq(Purchase) /\ DOMAIN posted' = DOMAIN posted \cup {n} /\ n \notin DOMAIN posted
      /\ posted'[n] = p /\ \A i \in DOMAIN posted : posted'[i] = posted[i]
  <2>1. posted \in Seq(Purchase) /\ Len(posted) \in Nat /\ DOMAIN posted = 1..Len(posted)
    BY LenProperties DEF PayInv, PayTypeOK
  <2>2. /\ posted' \in Seq(Purchase) /\ Len(posted') = n /\ posted'[n] = p
        /\ \A i \in 1..Len(posted) : posted'[i] = posted[i]
    BY <1>1, <1>3, <2>1, AppendProperties
  <2>3. DOMAIN posted' = 1..n
    BY <2>2, LenProperties
  <2> QED
    BY <2>1, <2>2, <2>3
<1> HIDE DEF n
<1>5. job'[j] = k /\ \A i \in Jobs \ {j} : job'[i] = job[i]
  BY <1>1 DEF PayInv, PayTypeOK
<1>6. Owing' = Owing \ {j} /\ \A i \in Owing' : job'[i] = job[i]
  BY <1>2, <1>5 DEF Owing
<1>7. /\ \A i \in DOMAIN posted : posted[i].tx # job[j].tx
      /\ \A i \in Owing' : job[i].tx # job[j].tx
      /\ job[j].tx \in burnt /\ Mined(job[j].tx) /\ job[j].who = Payer
  BY <1>0, <1>6 DEF PayInv, ServerSound, BurntOnce
<1>8. BurntOnce'
  <2>1. \A i \in Jobs : job'[i].step \in {"burn", "files", "row"} => Mined(job'[i].tx) /\ job'[i].who = Payer
    BY <1>2, <1>5 DEF PayInv, ServerSound, BurntOnce
  <2>2. \A i \in Owing' : job'[i].tx \in burnt
    BY <1>6 DEF PayInv, ServerSound, BurntOnce
  <2>3. \A i, h \in Owing' : job'[i].tx = job'[h].tx => i = h
    BY <1>6 DEF PayInv, ServerSound, BurntOnce
  <2>4. \A i \in DOMAIN posted' : posted'[i].tx \in burnt
    BY <1>3, <1>4, <1>7 DEF PayInv, ServerSound, BurntOnce
  <2>5. \A i \in DOMAIN posted', h \in Owing' : posted'[i].tx # job'[h].tx
    BY <1>3, <1>4, <1>6, <1>7 DEF PayInv, ServerSound, BurntOnce
  <2>6. chain' = chain /\ burnt' = burnt
    BY DEF StoreRow
  <2> QED
    BY <2>1, <2>2, <2>3, <2>4, <2>5, <2>6 DEF BurntOnce, Mined
<1>9. PaidFor'
  <2>1. \A i \in DOMAIN posted' : Mined(posted'[i].tx) /\ posted'[i].who = Payer
    BY <1>3, <1>4, <1>7 DEF PayInv, ServerSound, PaidFor
  <2>2. \A i, h \in DOMAIN posted' : posted'[i].tx = posted'[h].tx => i = h
    BY <1>3, <1>4, <1>7 DEF PayInv, ServerSound, PaidFor
  <2>3. chain' = chain
    BY DEF StoreRow
  <2> QED
    BY <2>1, <2>2, <2>3 DEF PaidFor, Mined
<1>10. NothingWasted'
  <2> SUFFICES ASSUME NEW t \in burnt
               PROVE  \/ \E i \in DOMAIN posted' : posted'[i].tx = t
                      \/ \E i \in Jobs : job'[i].tx = t /\ job'[i].step \in {"files", "row"}
                      \/ t \in cut
    BY DEF NothingWasted, StoreRow
  <2>1. CASE \E i \in DOMAIN posted : posted[i].tx = t
    BY <1>4, <2>1
  <2>2. CASE \E i \in Jobs : job[i].tx = t /\ job[i].step \in {"files", "row"}
    BY <1>3, <1>4, <1>5, <2>2
  <2> QED
    BY <2>1, <2>2 DEF PayInv, ServerSound, NothingWasted
<1>11. DirsSound'
  BY <1>2, <1>4, <1>5 DEF PayInv, ServerSound, DirsSound, StoreRow
<1>12. SiteServed'
  BY <1>0, <1>3, <1>4 DEF PayInv, ServerSound, DirsSound, SiteServed, StoreRow
<1>13. PayTypeOK'
  BY <1>1, <1>2, <1>4 DEF PayInv, PayTypeOK, StoreRow
<1>14. DialogsSound'
  BY <1>1, <1>2, JobMoves DEF PayInv, StoreRow
<1> QED
  BY <1>8, <1>9, <1>10, <1>11, <1>12, <1>13, <1>14 DEF PayInv, ServerSound

-----------------------------------------------------------------------------
(***************************************************************************)
(* What ends, and the theorems.                                             *)
(***************************************************************************)
\* A purchase that ends stays what it was.
LEMMA PurchaseEnds ==
  ASSUME PayInv, UNCHANGED <<chain, dlg, job, burnt, dirs, odd, cut, charged, unsure>>,
         NEW i \in DOMAIN posted, posted' = [posted EXCEPT ![i].live = FALSE],
         removal' \in {removal, posted[i].tx}
  PROVE  PayInv'
<1> DEFINE p == [posted[i] EXCEPT !.live = FALSE]
<1>1. posted \in Seq(Purchase) /\ DOMAIN posted = 1..Len(posted) /\ posted[i] \in Purchase
  BY LenProperties, ElementOfSeq DEF PayInv, PayTypeOK
<1>2. p \in Purchase /\ p.tx = posted[i].tx /\ p.kind = posted[i].kind /\ p.who = posted[i].who /\ ~p.live
  <2>1. FALSE \in BOOLEAN
    OBVIOUS
  <2> QED
    BY <1>1, <2>1 DEF Purchase
<1>3. posted' = [posted EXCEPT ![i] = p]
  OBVIOUS
<1> HIDE DEF p
<1>4. posted' \in Seq(Purchase) /\ DOMAIN posted' = DOMAIN posted
  <2>1. [posted EXCEPT ![i] = p] \in Seq(Purchase)
    BY <1>1, <1>2, ExceptSeq
  <2> QED
    BY <1>3, <2>1
<1>5. posted'[i] = p /\ \A h \in DOMAIN posted \ {i} : posted'[h] = posted[h]
  BY <1>1, <1>3
<1>6. \A h \in DOMAIN posted : posted'[h].tx = posted[h].tx /\ posted'[h].who = posted[h].who /\ posted'[h].kind = posted[h].kind
  BY <1>2, <1>5
<1>7. BurntOnce'
  BY <1>4, <1>6 DEF PayInv, ServerSound, BurntOnce, Owing, Mined
<1>8. PaidFor'
  BY <1>4, <1>6 DEF PayInv, ServerSound, PaidFor, Mined
<1>9. NothingWasted'
  BY <1>4, <1>6 DEF PayInv, ServerSound, NothingWasted
<1>10. DirsSound'
  <2>1. removal' # 0 => \E h \in DOMAIN posted : posted'[h].tx = removal' /\ ~posted'[h].live
    <3>1. CASE removal' = posted[i].tx
      BY <1>2, <1>5, <3>1
    <3>2. CASE removal' = removal
      BY <1>2, <1>5, <3>2 DEF PayInv, ServerSound, DirsSound
    <3> QED
      BY <3>1, <3>2
  <2> QED
    BY <1>4, <2>1 DEF PayInv, ServerSound, DirsSound
<1>11. SiteServed'
  BY <1>2, <1>4, <1>5 DEF PayInv, ServerSound, SiteServed
<1>12. PayTypeOK'
  <2>1. removal' \in Nat
    BY <1>1 DEF PayInv, PayTypeOK, Purchase
  <2> QED
    BY <1>4, <2>1 DEF PayInv, PayTypeOK
<1>13. DialogsSound'
  BY DEF PayInv, DialogsSound, Awaited
<1> QED
  BY <1>7, <1>8, <1>9, <1>10, <1>11, <1>12, <1>13 DEF PayInv, ServerSound

LEMMA RemoveDirStep == ASSUME PayInv, RemoveDir PROVE PayInv'
<1>1. removal' = 0 /\ (dirs' = dirs \ {removal} \/ dirs' = dirs) /\ removal # 0
  BY DEF RemoveDir
<1>2. PICK h \in DOMAIN posted : posted[h].tx = removal /\ ~posted[h].live
  BY <1>1 DEF PayInv, ServerSound, DirsSound
<1>3. SiteServed'
  <2>1. \A i \in DOMAIN posted : posted[i].live => posted[i].tx # removal
    BY <1>2 DEF PayInv, ServerSound, PaidFor
  <2> QED
    BY <1>1, <2>1 DEF PayInv, ServerSound, SiteServed, RemoveDir
<1>4. DirsSound'
  <2>1. \A j \in Jobs : job[j].step = "row" => job[j].tx # removal
    BY <1>2 DEF PayInv, ServerSound, BurntOnce, Owing
  <2> QED
    BY <1>1, <2>1 DEF PayInv, ServerSound, DirsSound, RemoveDir
<1>5. BurntOnce' /\ PaidFor' /\ NothingWasted'
  BY DEF PayInv, ServerSound, BurntOnce, Owing, PaidFor, NothingWasted, Mined, RemoveDir
<1>6. PayTypeOK' /\ DialogsSound'
  BY <1>1 DEF PayInv, PayTypeOK, DialogsSound, Awaited, RemoveDir
<1> QED
  BY <1>3, <1>4, <1>5, <1>6 DEF PayInv, ServerSound

LEMMA PayInitInv == PayInit => PayInv
<1> SUFFICES ASSUME PayInit PROVE PayInv
  OBVIOUS
<1>1. PayTypeOK
  BY ShutDialog, FreeJob, EmptySeq DEF PayInit, PayTypeOK
<1>2. DialogsSound
  BY ShutDialog, FreeJob DEF PayInit, DialogsSound, Awaited, Holds
<1>3. DOMAIN posted = {}
  BY DEF PayInit
<1>4. ServerSound
  BY <1>3, FreeJob DEF PayInit, ServerSound, BurntOnce, Owing, PaidFor, NothingWasted, DirsSound, SiteServed
<1> QED
  BY <1>1, <1>2, <1>4 DEF PayInv

LEMMA PayStep == PayInv /\ [PayNext]_payVars => PayInv'
<1> SUFFICES ASSUME PayInv, [PayNext]_payVars PROVE PayInv'
  OBVIOUS
<1>1. CASE UNCHANGED payVars
  <2>1. PayTypeOK' /\ DialogsSound'
    BY <1>1 DEF PayInv, PayTypeOK, DialogsSound, Awaited, payVars
  <2>2. ServerSound'
    BY <1>1, ChainStays, TablesRest DEF PayInv, payVars
  <2> QED
    BY <2>1, <2>2 DEF PayInv
<1>2. ASSUME NEW d \in Dialogs,
             Press(d) \/ ReadNonce(d) \/ Broadcast(d) \/ Confirm(d) \/ Close(d) \/ \E j \in Jobs : Post(d, j)
      PROVE  PayInv'
  BY <1>2, PressStep, ReadNonceStep, BroadcastStep, ConfirmStep, CloseStep, PostStep
<1>3. ASSUME NEW t \in DOMAIN chain, NEW outcome \in {"ok", "reverted"}, Mine(t, outcome) PROVE PayInv'
  BY <1>3, MineStep
<1>4. ASSUME NEW j \in Jobs, NEW who \in {Payer, Stranger}, NEW kind \in {"shout", "site"}, NEW t \in 1..MaxTx,
             Present(j, who, kind, t)
      PROVE  PayInv'
  BY <1>4, PresentStep
<1>5. ASSUME NEW j \in Jobs,
             Answered(j) \/ Cut(j) \/ CheckCap(j) \/ verify_on_chain(j) \/ Burn(j) \/ WriteFiles(j) \/ StoreRow(j)
      PROVE  PayInv'
  BY <1>5, AnsweredStep, CutStep, CheckCapStep, VerifyStep, BurnStep, WriteFilesStep, StoreRowStep
<1>6. ASSUME NEW i \in DOMAIN posted, BurnOut(i) \/ RemoveSite(i) PROVE PayInv'
  BY <1>6, PurchaseEnds DEF BurnOut, RemoveSite
<1>7. CASE RemoveDir
  BY <1>7, RemoveDirStep
<1> QED
  BY <1>1, <1>2, <1>3, <1>4, <1>5, <1>6, <1>7 DEF PayNext

\* Every shout and site was paid for by its owner's own successful transfer, no transfer
\* paid for two, and no refusal takes the money for nothing (payments::verify_and_record),
\* for any number of dialogs, requests and transfers.
THEOREM PaymentsAlwaysBalance == PaySpec => []PaymentsBalance
<1>1. PayInv => PaymentsBalance
  BY DEF PayInv, ServerSound, PaymentsBalance
<1> QED
  BY <1>1, PayInitInv, PayStep, PTL DEF PaySpec

\* A listed site is served, whatever step a publication or a removal stopped at
\* (commit_site, remove), for any number of sites and requests.
THEOREM SitesAreServed == PaySpec => []SiteServed
<1>1. PayInv => SiteServed
  BY DEF PayInv, ServerSound
<1> QED
  BY <1>1, PayInitInv, PayStep, PTL DEF PaySpec

\* A dialog that lost no answer to a broadcast has at most one mined transfer for one
\* shout or site (paid_tx, "must retry with this hash, never pay again"), for any number
\* of dialogs sharing the wallet's nonces.
THEOREM NobodyPaysTwice == PaySpec => []NeverPaysAgain
<1>1. PayInv => NeverPaysAgain
  <2> SUFFICES ASSUME PayInv, NEW d \in Dialogs \ unsure
               PROVE  Cardinality({t \in charged[d] : Mined(t)}) <= 1
    BY DEF NeverPaysAgain
  <2> DEFINE M == {t \in charged[d] : Mined(t)}
             one == IF dlg[d].tx # 0 THEN dlg[d].tx ELSE dlg[d].paid
  <2>1. \A t \in M : t \in {dlg[d].tx, dlg[d].paid} /\ t # 0
    <3> SUFFICES ASSUME NEW t \in M PROVE t \in {dlg[d].tx, dlg[d].paid} /\ t # 0
      OBVIOUS
    <3>1. t \in DOMAIN chain /\ chain[t].state = "ok"
      BY DEF Mined
    <3>2. t # 0
      BY <3>1, LenProperties DEF PayInv, PayTypeOK
    <3> QED
      BY <3>1, <3>2 DEF PayInv, DialogsSound, Holds
  <2>2. dlg[d].tx # 0 => dlg[d].paid = 0
    BY DEF PayInv, DialogsSound, Steady
  <2>3. M \in SUBSET {one}
    BY <2>1, <2>2
  <2> HIDE DEF one, M
  <2>4. IsFiniteSet({one}) /\ Cardinality({one}) = 1
    BY FS_Singleton
  <2>5. IsFiniteSet(M) /\ Cardinality(M) <= 1
    BY <2>3, <2>4, FS_Subset
  <2> QED
    BY <2>5 DEF M
<1> QED
  BY <1>1, PayInitInv, PayStep, PTL DEF PaySpec
=============================================================================
