---------------------------- MODULE MCServerState ----------------------------
(* The hub's registry and the message table, side by side, for TLC: they share no   *)
(* state, a behaviour plays one of them and the other rests.                        *)
EXTENDS Hub, Messages, TLC
CONSTANTS c1, c2, c3
VARIABLE part

StateInit == Init /\ MessagesInit /\ part \in {"hub", "messages"}
StateNext ==
    /\ UNCHANGED part
    /\ \/ part = "hub" /\ Next /\ UNCHANGED server
       \/ part = "messages" /\ ServerStep /\ UNCHANGED vars
StateSpec == StateInit /\ [][StateNext]_<<vars, server, part>>

\* Connections opened alike are interchangeable.
Alike == Permutations(Conns)
=============================================================================
