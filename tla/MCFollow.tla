------------------------------ MODULE MCFollow ------------------------------
(* A client that follows a room, for TLC: the event stream it resumes, and the    *)
(* copy of the messages it fetches.  They share no state: a wake-up of the copy    *)
(* needs no event, and a behaviour plays one of them while the other rests.         *)
EXTENDS EventStream, RoomSync
VARIABLE part

FollowInit == Init /\ SyncInit /\ part \in {"stream", "copy"}
FollowNext ==
    /\ UNCHANGED part
    /\ \/ part = "stream" /\ Next /\ UNCHANGED syncVars
       \/ part = "copy" /\ SyncNext /\ UNCHANGED vars

\* The stream's fairness, in its part.
FollowSpec ==
    /\ FollowInit /\ [][FollowNext]_<<vars, syncVars, part>>
    /\ \A p \in Publishers : WF_vars(part = "stream" /\ Broadcast(p))
    /\ WF_vars(part = "stream" /\ Task) /\ WF_vars(part = "stream" /\ Connect)
=============================================================================
