----------------------------- MODULE MCBackends -----------------------------
(* Stores that share no state with one another, side by side, for TLC: the         *)
(* server's files, accounts, rate windows and payments, and the local backend in    *)
(* the browser.  A behaviour plays one of them and the others rest.                 *)
EXTENDS Attachments, Accounts, RateLimit, Payments, LocalRooms, TLC
CONSTANT Slots
VARIABLE part

BackendsInit ==
    /\ part \in {"files", "accounts", "rate", "payments", "local"}
    /\ AttInit /\ AccInit /\ RateInit /\ PayInit /\ LoInit
    /\ part # "files" => store = "files"
BackendsNext ==
    /\ UNCHANGED part
    /\ \/ part = "files" /\ AttNext /\ UNCHANGED <<accVars, rateVars, payVars, loVars>>
       \/ part = "accounts" /\ AccNext /\ UNCHANGED <<attVars, rateVars, payVars, loVars>>
       \/ part = "rate" /\ RateNext /\ UNCHANGED <<attVars, accVars, payVars, loVars>>
       \/ part = "payments" /\ PayNext /\ UNCHANGED <<attVars, accVars, rateVars, loVars>>
       \/ part = "local" /\ LoNext /\ UNCHANGED <<attVars, accVars, rateVars, payVars>>
\* The slots of requests in flight, and the tabs, are interchangeable.
Alike == Permutations(Slots)

BackendsSpec ==
    BackendsInit /\ [][BackendsNext]_<<part, attVars, accVars, rateVars, payVars, loVars>>
=============================================================================
