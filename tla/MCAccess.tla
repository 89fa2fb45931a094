------------------------------ MODULE MCAccess ------------------------------
(* Who has access, for TLC: the members of a room to its keys, a tab to an       *)
(* account, a secret to its entry.  The three share no state: a behaviour plays   *)
(* one scene and the rest rests.  Of RoomAccess there are three scenes:           *)
(*                                                                             *)
(*   calm      one request at a time, nothing fails                             *)
(*   faults    one request at a time, any statement may fail, a server admin    *)
(*   races     two requests in flight, any statement may fail                   *)
(*   signin    SignIn                                                          *)
(*   passwords Passwords                                                       *)
EXTENDS RoomAccess, SignIn, Passwords, TLC
CONSTANTS alice, bob, carol
VARIABLE scene

KeyOps == {"leave", "kick", "invite", "accept", "decline", "store", "rotate", "send"}
ChannelOps == KeyOps \cup {"add_admin", "remove_admin"}
RaceOps == {"create_link", "revoke_link", "redeem", "rotate", "remove_room"}
FaultOps == {"leave", "kick", "add_admin", "remove_admin", "invite", "accept", "rotate", "evict", "reinstate"}

Calm == INSTANCE RoomAccess WITH
    Requests <- {"r1"}, Ops <- ChannelOps, MaxEpoch <- 2, MayFail <- FALSE
Faults == INSTANCE RoomAccess WITH
    Requests <- {"r1"}, Ops <- FaultOps, MaxEpoch <- 2, ServerAdmins <- {alice}

ScenesInit ==
    /\ \/ scene = "calm" /\ Calm!Init
       \/ scene = "faults" /\ Faults!Init
       \/ scene \in {"races", "signin", "passwords"} /\ Init
    /\ SiInit
    /\ IF scene = "passwords" THEN PwInit ELSE PwIdle /\ call = [c \in Calls |-> [do |-> "list", here |-> TRUE]]
ScenesNext ==
    /\ \/ /\ \/ scene = "calm" /\ Calm!Next
             \/ scene = "faults" /\ Faults!Next
             \/ scene = "races" /\ Next
          /\ UNCHANGED <<siVars, pwVars>>
       \/ scene = "signin" /\ SiNext /\ UNCHANGED <<vars, pwVars>>
       \/ scene = "passwords" /\ PwNext /\ UNCHANGED <<vars, siVars>>
    /\ UNCHANGED scene
ScenesSpec == ScenesInit /\ [][ScenesNext]_<<vars, siVars, pwVars, scene>>

\* Wallets other than the creator and the server admin are interchangeable, and so are the
\* slots of the tab's and the password screen's requests, which bear their names.
Alike == Permutations(Users \ {Creator})
=============================================================================
