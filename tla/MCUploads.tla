----------------------------- MODULE MCUploads -----------------------------
(* Instances of Uploads for TLC.                                             *)
EXTENDS Uploads, TLC
=============================================================================
