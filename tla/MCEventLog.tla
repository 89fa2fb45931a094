----------------------------- MODULE MCEventLog -----------------------------
(* An instance of EventLog for TLC.                                          *)
EXTENDS EventLog, TLC
CONSTANTS a1, a2
TwoAppenders == {a1, a2}
Alike == Permutations(TwoAppenders)
=============================================================================
