---------------------------- MODULE MCRoomAccess ----------------------------
(* An instance of RoomAccess for TLC.                                        *)
EXTENDS RoomAccess, TLC
CONSTANTS alice, bob
=============================================================================
