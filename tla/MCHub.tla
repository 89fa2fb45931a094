------------------------------- MODULE MCHub -------------------------------
(* An instance of Hub for TLC.                                               *)
EXTENDS Hub, TLC
CONSTANTS c1, r1, r2, f1
=============================================================================
