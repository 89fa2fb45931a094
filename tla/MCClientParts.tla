---------------------------- MODULE MCClientParts ----------------------------
(* Parts of the web client that share no state with one another, side by side,    *)
(* for TLC: a behaviour plays one of them and the state of the others rests.       *)
EXTENDS Ceremony, Transport, Banker
VARIABLE part

ClientInit ==
    /\ part \in {"ceremony", "transport", "banker"}
    /\ CerInit /\ TrInit /\ BkInit
    /\ part # "transport" => blocked = {} /\ mode = "polling"
    /\ part # "banker" => net
ClientNext ==
    /\ UNCHANGED part
    /\ \/ part = "ceremony" /\ CerNext /\ UNCHANGED <<trVars, bkVars>>
       \/ part = "transport" /\ TrNext /\ UNCHANGED <<cerVars, bkVars>>
       \/ part = "banker" /\ BkNext /\ UNCHANGED <<cerVars, trVars>>

\* The worker drives the parties; timers, the browser and the network go on; a turn's
\* requests are answered.
ClientSpec ==
    /\ ClientInit /\ [][ClientNext]_<<cerVars, trVars, bkVars, part>>
    /\ WF_cerVars(part = "ceremony" /\ Driven)
    /\ WF_trVars(part = "transport" /\ Runs) /\ WF_trVars(part = "transport" /\ Restored)
    /\ WF_trVars(part = "transport" /\ FailsOfItself)
    /\ \A t \in Turns : WF_bkVars(part = "banker" /\ TurnStep(t))
=============================================================================
