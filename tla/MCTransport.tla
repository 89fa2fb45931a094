---------------------------- MODULE MCTransport ----------------------------
(* Transport by itself, for TLC.                                             *)
EXTENDS Transport
\* Timers, the browser and the network go on.
TransportSpec ==
    /\ TrInit /\ [][TrNext]_trVars
    /\ WF_trVars(Runs) /\ WF_trVars(Restored) /\ WF_trVars(FailsOfItself)
=============================================================================
