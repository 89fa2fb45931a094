-------------------------- MODULE RoomAccessProofs --------------------------
(***************************************************************************)
(* What holds of RoomAccess for every number of wallets, request slots,     *)
(* links and epochs, however the statements interleave and wherever they    *)
(* fail.                                                                    *)
(***************************************************************************)
EXTENDS RoomAccess, FiniteSetTheorems, TLAPS

\* A handler is a nonempty sequence of statements.
LEMMA HandlerType ==
  ASSUME NEW op \in Ops
  PROVE  Handler[op] \in Seq(Stmts)
<1>1. op \in DOMAIN Handler
  BY OpsAssumption
<1>2. op \in {"leave", "kick", "add_admin", "remove_admin", "invite", "accept",
              "decline", "create_link", "revoke_link", "redeem", "store", "rotate",
              "send", "remove_room", "evict", "reinstate"}
  BY <1>1 DEF Handler
<1>h0. leave \in Seq(Stmts)
  BY DEF leave, Stmts, Checks
<1>h1. kick \in Seq(Stmts)
  BY DEF kick, Stmts, Checks
<1>h2. add_admin \in Seq(Stmts)
  BY DEF add_admin, Stmts, Checks
<1>h3. remove_admin \in Seq(Stmts)
  BY DEF remove_admin, Stmts, Checks
<1>h4. invite \in Seq(Stmts)
  BY DEF invite, Stmts, Checks
<1>h5. accept \in Seq(Stmts)
  BY DEF accept, Stmts, Checks
<1>h6. decline \in Seq(Stmts)
  BY DEF decline, Stmts, Checks
<1>h7. create_link \in Seq(Stmts)
  BY DEF create_link, Stmts, Checks
<1>h8. revoke_link \in Seq(Stmts)
  BY DEF revoke_link, Stmts, Checks
<1>h9. redeem \in Seq(Stmts)
  BY DEF redeem, Stmts, Checks
<1>h10. store \in Seq(Stmts)
  BY DEF store, Stmts, Checks
<1>h11. rotate \in Seq(Stmts)
  BY DEF rotate, Stmts, Checks
<1>h12. send \in Seq(Stmts)
  BY DEF send, Stmts, Checks
<1>h13. remove_room \in Seq(Stmts)
  BY DEF remove_room, Stmts, Checks
<1>h14. evict \in Seq(Stmts)
  BY DEF evict, Stmts, Checks
<1>h15. reinstate \in Seq(Stmts)
  BY DEF reinstate, Stmts, Checks
<1> QED
  BY <1>2, <1>h0, <1>h1, <1>h2, <1>h3, <1>h4, <1>h5, <1>h6, <1>h7, <1>h8, <1>h9, <1>h10, <1>h11, <1>h12, <1>h13, <1>h14, <1>h15 DEF Handler

LEMMA IdleType == Idle \in Request
<1>1. <<>> \in Seq(Stmts)
  OBVIOUS
<1>2. (CHOOSE l \in Links : TRUE) \in Links
  BY UsersAssumption
<1>3. 1 \in Epochs
  BY BoundsAssumption DEF Epochs
<1> QED
  BY <1>1, <1>2, <1>3, UsersAssumption DEF Idle, Request

\* Advancing a request or ending it keeps the request table well typed.
LEMMA StepType ==
  ASSUME req \in [Requests -> Request], NEW r \in Requests, req[r].todo # <<>>,
         Proceed(r) \/ Return(r)
  PROVE  req' \in [Requests -> Request]
<1>1. req[r].todo \in Seq(Stmts) /\ req[r] \in Request
  BY DEF Request
<1>2. Tail(req[r].todo) \in Seq(Stmts)
  BY <1>1
<1>3. [req[r] EXCEPT !.todo = Tail(@)] \in Request
  BY <1>1, <1>2 DEF Request
<1>4. CASE Return(r)
  BY <1>4, IdleType DEF Return
<1>5. CASE Proceed(r)
  <2> DEFINE q == IF Tail(req[r].todo) = <<>> THEN Idle
                  ELSE [req[r] EXCEPT !.todo = Tail(req[r].todo)]
  <2>1. q \in Request
    BY <1>3, IdleType
  <2>2. req' = [req EXCEPT ![r] = q]
    BY <1>5 DEF Proceed
  <2> HIDE DEF q
  <2> QED
    BY <2>1, <2>2
<1> QED
  BY <1>4, <1>5

\* Well-typedness is preserved by every statement of every handler.
LEMMA TypeStep == TypeOK /\ [Next]_vars => TypeOK'
<1> SUFFICES ASSUME TypeOK, [Next]_vars PROVE TypeOK'
  OBVIOUS
<1> USE DEF TypeOK
<1>0. CASE UNCHANGED vars
  BY <1>0 DEF vars
<1>1. ASSUME NEW l \in Links, Expire(l) PROVE TypeOK'
  BY <1>1 DEF Expire, hist, Link
<1>2. ASSUME NEW r \in Requests, Step(r) PROVE TypeOK'
  <2>t. \A s : At(r, s) => req[r].todo # <<>>
    BY DEF At
  <2>q. req[r] \in Request /\ req[r].who \in Users /\ req[r].by \in Users
        /\ req[r].ver \in Epochs /\ req[r].lk \in Links /\ req[r].seen \subseteq Users
        /\ req[r].todo \in Seq(Stmts)
    BY DEF Request
  <2>m. Epochs \subseteq Nat
    BY DEF Epochs
  <2>l. ASSUME NEW s \in Lapses, NEW what, Met(s, what) PROVE lapses' \subseteq Lapses
    BY <2>l DEF Met
  <2>1. CASE Begin(r)
    <3>1. PICK op \in Ops, u \in Users \ suspended :
            \E w \in Targets(op, u), v \in Versions(op), l \in LinksOf(op) :
              req' = [req EXCEPT ![r] = [todo |-> Handler[op], by |-> u, who |-> w,
                                         ver |-> v, seen |-> {}, lk |-> l]]
      BY <2>1 DEF Begin
    <3>2. PICK w \in Targets(op, u), v \in Versions(op), l \in LinksOf(op) :
              req' = [req EXCEPT ![r] = [todo |-> Handler[op], by |-> u, who |-> w,
                                         ver |-> v, seen |-> {}, lk |-> l]]
      BY <3>1
    <3>3. w \in Users
      BY DEF Targets
    <3>4. v \in Epochs
      BY BoundsAssumption DEF Versions, Epochs
    <3>5. l \in Links
      BY UsersAssumption DEF LinksOf
    <3>6. [todo |-> Handler[op], by |-> u, who |-> w, ver |-> v, seen |-> {}, lk |-> l] \in Request
      BY <3>3, <3>4, <3>5, HandlerType DEF Request
    <3> QED
      BY <2>1, <3>2, <3>6 DEF Begin, db, hist
  <2>2. CASE Check(r)
    <3>1. lapses' \subseteq Lapses
      BY <2>2, <2>l DEF Check, Lapses
    <3> QED
      BY <2>2, <3>1, StepType DEF Check, db
  <2>3. CASE IsAdmin(r)
    <3>1. SubSeq(req[r].todo, 4, Len(req[r].todo)) \in Seq(Stmts)
      BY <2>q
    <3>2. [req[r] EXCEPT !.todo = SubSeq(req[r].todo, 4, Len(req[r].todo))] \in Request
      BY <2>q, <3>1 DEF Request
    <3>3. req' \in [Requests -> Request]
      BY <2>3, <2>t, <3>2, StepType DEF IsAdmin
    <3> QED
      BY <2>3, <3>3 DEF IsAdmin, db, hist
  <2>4. CASE ListMembers(r)
    <3>1. Tail(req[r].todo) \in Seq(Stmts)
      BY <2>q, <2>t, <2>4 DEF ListMembers
    <3>2. [req[r] EXCEPT !.todo = Tail(req[r].todo), !.seen = members] \in Request
      BY <2>q, <3>1 DEF Request
    <3>3. req' \in [Requests -> Request]
      BY <2>4, <2>t, <3>2, StepType DEF ListMembers
    <3> QED
      BY <2>4, <3>3 DEF ListMembers, db, hist
  <2>5. CASE RemoveAdmin(r)
    BY <2>5, <2>t, <2>q, StepType DEF RemoveAdmin, hist, db
  <2>6. CASE AddAdmin(r)
    BY <2>6, <2>t, <2>q, StepType DEF AddAdmin, hist, db
  <2>7. CASE DeleteUserKeys(r)
    BY <2>7, <2>t, <2>q, StepType DEF DeleteUserKeys, WrapsOf, hist, db
  <2>8. CASE RemoveMember(r)
    BY <2>8, <2>t, <2>q, StepType DEF RemoveMember, hist, db
  <2>9. CASE SetPending(r)
    BY <2>9, <2>t, <2>q, StepType DEF SetPending, hist, db
  <2>10. CASE CreateInvitation(r)
    BY <2>10, <2>t, <2>q, StepType DEF CreateInvitation, hist, db
  <2>11. CASE DeleteInvitation(r)
    BY <2>11, <2>t, <2>q, StepType DEF DeleteInvitation, hist, db
  <2>12. CASE EvictFromAllRooms(r)
    <3>1. lapses' \subseteq Lapses
      BY <2>12, <2>l DEF EvictFromAllRooms, Lapses
    <3> QED
      BY <2>12, <2>t, <2>q, <3>1, StepType DEF EvictFromAllRooms, WrapsOf
  <2>13. CASE Suspend(r)
    BY <2>13, <2>t, <2>q, StepType DEF Suspend, hist, db
  <2>14. CASE Reinstate(r)
    BY <2>14, <2>t, <2>q, StepType DEF Reinstate, hist, db
  <2>15. CASE DeleteRoom(r)
    BY <2>15, <2>t, <2>q, StepType DEF DeleteRoom, hist, db
  <2>16. CASE CreateMessage(r)
    BY <2>16, <2>t, <2>q, StepType DEF CreateMessage, hist, db
  <2>17. CASE AddMember(r)
    <3>1. seated' \in [Links -> SUBSET Users]
      BY <2>17, <2>q DEF AddMember, hist
    <3> QED
      BY <2>17, <2>t, <2>q, <3>1, StepType DEF AddMember, WrapsOf, hist
  <2>18. CASE CreateLink(r)
    <3>0. Minted \in Link
      BY BoundsAssumption DEF Link, Minted
    <3>1. link' \in [Links -> Link]
      BY <2>18, <2>q, <3>0 DEF CreateLink
    <3> QED
      BY <2>18, <2>t, <3>1, StepType DEF CreateLink, hist
  <2>19. CASE RevokeLink(r)
    <3>1. link' \in [Links -> Link]
      BY <2>19, <2>q, ZenonT(60) DEF RevokeLink, Link
    <3> QED
      BY <2>19, <2>t, <3>1, StepType DEF RevokeLink, hist
  <2>20. CASE Consume(r)
    <3>1. link' \in [Links -> Link]
      <4>1. CASE live(req[r].lk)
        <5>1. link[req[r].lk].uses + 1 \in 0..MaxUses
          BY <4>1, <2>q, BoundsAssumption DEF Link, live
        <5>2. link' = [link EXCEPT ![req[r].lk].uses = link[req[r].lk].uses + 1]
          BY <2>20, <4>1 DEF Consume
        <5> QED
          BY <5>1, <5>2, <2>q DEF Link
      <4>2. CASE ~live(req[r].lk)
        BY <2>20, <4>2, <2>q DEF Consume
      <4> QED
        BY <4>1, <4>2
    <3> QED
      BY <2>20, <2>t, <3>1, StepType DEF Consume, hist
  <2>21. CASE StoreKey(r)
    BY <2>21, <2>t, <2>q, StepType DEF StoreKey
  <2>22. CASE Rotate(r)
    <3>1. wraps' \subseteq Users \X Epochs /\ knows' \subseteq Users \X Epochs
      BY <2>22, <2>q DEF Rotate
    <3> QED
      BY <2>22, <2>t, <2>q, <3>1, StepType DEF Rotate
  <2>23. CASE Fail(r)
    <3>1. lapses' \subseteq Lapses
      BY <2>23, <2>l DEF Fail, Lapses
    <3> QED
      BY <2>23, <3>1, StepType DEF Fail, db
  <2> QED
    BY <1>2, <2>1, <2>2, <2>3, <2>4, <2>5, <2>6, <2>7, <2>8, <2>9, <2>10, <2>11, <2>12, <2>13, <2>14, <2>15, <2>16, <2>17, <2>18, <2>19, <2>20, <2>21, <2>22, <2>23 DEF Step
<1> QED
  BY <1>0, <1>1, <1>2 DEF Next

LEMMA TypeInit == Init => TypeOK
<1> SUFFICES ASSUME Init PROVE TypeOK
  OBVIOUS
<1>1. NoLink \in Link
  BY BoundsAssumption DEF NoLink, Link
<1>2. 1 \in Epochs
  BY BoundsAssumption DEF Epochs
<1> QED
  BY <1>1, <1>2, IdleType, UsersAssumption DEF Init, TypeOK

\* Every reachable state is well typed, for every set of wallets, links and
\* request slots and every choice of handlers: a request's remaining statements
\* are always statements of a handler, versions never leave the epoch range.
THEOREM TypeCorrect == Spec => []TypeOK
  BY TypeInit, TypeStep, PTL DEF Spec


-----------------------------------------------------------------------------
\* Deleting a room leaves nothing of it behind, for every interleaving of
\* handlers that were in flight: their later inserts fail on the foreign key.
THEOREM DeadRoomStaysEmpty == Spec => []DeadRoomIsEmpty
<1>1. Init => DeadRoomIsEmpty
  BY DEF Init, DeadRoomIsEmpty
<1>2. DeadRoomIsEmpty /\ [Next]_vars => DeadRoomIsEmpty'
  <2> SUFFICES ASSUME DeadRoomIsEmpty, [Next]_vars PROVE DeadRoomIsEmpty'
    OBVIOUS
  <2> USE DEF DeadRoomIsEmpty
  <2>1. CASE UNCHANGED vars
    BY <2>1 DEF vars
  <2>2. ASSUME NEW l \in Links, Expire(l) PROVE DeadRoomIsEmpty'
    BY <2>2 DEF Expire
  <2>3. ASSUME NEW r \in Requests, Step(r) PROVE DeadRoomIsEmpty'
    <3>1. CASE Begin(r) \/ Check(r) \/ IsAdmin(r) \/ ListMembers(r) \/ Fail(r)
      BY <3>1 DEF Begin, Check, IsAdmin, ListMembers, Fail, db
    <3>2. CASE DeleteRoom(r)
      BY <3>2 DEF DeleteRoom
    <3>3. CASE CreateMessage(r)
      BY <3>3 DEF CreateMessage, db
    <3>4. CASE RemoveAdmin(r) \/ AddAdmin(r) \/ DeleteUserKeys(r) \/ RemoveMember(r)
               \/ SetPending(r) \/ CreateInvitation(r) \/ DeleteInvitation(r)
      BY <3>4 DEF RemoveAdmin, AddAdmin, DeleteUserKeys, RemoveMember, SetPending,
                  CreateInvitation, DeleteInvitation
    <3>5. CASE AddMember(r) \/ CreateLink(r) \/ RevokeLink(r) \/ Consume(r) \/ StoreKey(r)
      BY <3>5 DEF AddMember, CreateLink, RevokeLink, Consume, StoreKey
    <3>6. CASE Rotate(r) \/ EvictFromAllRooms(r) \/ Suspend(r) \/ Reinstate(r)
      BY <3>6 DEF Rotate, EvictFromAllRooms, Suspend, Reinstate, Met
    <3> QED
      BY <2>3, <3>1, <3>2, <3>3, <3>4, <3>5, <3>6 DEF Step
  <2> QED
    BY <2>1, <2>2, <2>3 DEF Next
<1> QED
  BY <1>1, <1>2, PTL DEF Spec

-----------------------------------------------------------------------------
(***************************************************************************)
(* What the order of a handler's statements guarantees.  Chained(t) says of  *)
(* a sequence t of statements still to run: a seat is taken only right after *)
(* a link was consumed, a rotation only right after the roster was read, and *)
(* the statements is_admin may skip are followed by delete_user_keys.        *)
(***************************************************************************)
Chained(t) ==
    /\ \A i \in 1..(Len(t) - 1) :
         /\ t[i + 1] = "seat" => t[i] = "consume"
         /\ t[i + 1] = "rotate" => t[i] = "list_members"
    /\ \A i \in 1..Len(t) :
         t[i] = "is_admin" => i + 3 \in 1..Len(t) /\ t[i + 3] = "delete_user_keys"

\* Every request still has a chained sequence to run, and one about to rotate
\* holds the roster it read.
OrderInv ==
    \A r \in Requests : /\ Chained(req[r].todo)
                        /\ At(r, "rotate") => req[r].seen # {}

LEMMA HandlerChained ==
  ASSUME NEW op \in Ops
  PROVE  Chained(Handler[op]) /\ Head(Handler[op]) # "seat" /\ Head(Handler[op]) # "rotate"
<1>1. op \in {"leave", "kick", "add_admin", "remove_admin", "invite", "accept",
              "decline", "create_link", "revoke_link", "redeem", "store", "rotate",
              "send", "remove_room", "evict", "reinstate"}
  BY OpsAssumption DEF Handler
<1>h0. Chained(leave) /\ Head(leave) # "seat" /\ Head(leave) # "rotate"
  BY DEF leave, Chained
<1>h1. Chained(kick) /\ Head(kick) # "seat" /\ Head(kick) # "rotate"
  BY DEF kick, Chained
<1>h2. Chained(add_admin) /\ Head(add_admin) # "seat" /\ Head(add_admin) # "rotate"
  BY DEF add_admin, Chained
<1>h3. Chained(remove_admin) /\ Head(remove_admin) # "seat" /\ Head(remove_admin) # "rotate"
  BY DEF remove_admin, Chained
<1>h4. Chained(invite) /\ Head(invite) # "seat" /\ Head(invite) # "rotate"
  BY DEF invite, Chained
<1>h5. Chained(accept) /\ Head(accept) # "seat" /\ Head(accept) # "rotate"
  BY DEF accept, Chained
<1>h6. Chained(decline) /\ Head(decline) # "seat" /\ Head(decline) # "rotate"
  BY DEF decline, Chained
<1>h7. Chained(create_link) /\ Head(create_link) # "seat" /\ Head(create_link) # "rotate"
  BY DEF create_link, Chained
<1>h8. Chained(revoke_link) /\ Head(revoke_link) # "seat" /\ Head(revoke_link) # "rotate"
  BY DEF revoke_link, Chained
<1>h9. Chained(redeem) /\ Head(redeem) # "seat" /\ Head(redeem) # "rotate"
  BY DEF redeem, Chained
<1>h10. Chained(store) /\ Head(store) # "seat" /\ Head(store) # "rotate"
  BY DEF store, Chained
<1>h11. Chained(rotate) /\ Head(rotate) # "seat" /\ Head(rotate) # "rotate"
  BY DEF rotate, Chained
<1>h12. Chained(send) /\ Head(send) # "seat" /\ Head(send) # "rotate"
  BY DEF send, Chained
<1>h13. Chained(remove_room) /\ Head(remove_room) # "seat" /\ Head(remove_room) # "rotate"
  BY DEF remove_room, Chained
<1>h14. Chained(evict) /\ Head(evict) # "seat" /\ Head(evict) # "rotate"
  BY DEF evict, Chained
<1>h15. Chained(reinstate) /\ Head(reinstate) # "seat" /\ Head(reinstate) # "rotate"
  BY DEF reinstate, Chained
<1> QED
  BY <1>1, <1>h0, <1>h1, <1>h2, <1>h3, <1>h4, <1>h5, <1>h6, <1>h7, <1>h8, <1>h9, <1>h10, <1>h11, <1>h12, <1>h13, <1>h14, <1>h15 DEF Handler

\* What is left after the first statement is chained, and starts with a seat or
\* a rotation only if that statement was the consume or the roster read.
LEMMA TailChained ==
  ASSUME NEW t \in Seq(Stmts), t # <<>>, Chained(t)
  PROVE  /\ Chained(Tail(t))
         /\ Tail(t) # <<>> /\ Head(Tail(t)) = "seat" => Head(t) = "consume"
         /\ Tail(t) # <<>> /\ Head(Tail(t)) = "rotate" => Head(t) = "list_members"
<1>1. Len(Tail(t)) = Len(t) - 1 /\ Len(t) \in Nat /\ Len(t) > 0
  OBVIOUS
<1>2. \A i \in 1..Len(Tail(t)) : Tail(t)[i] = t[i + 1]
  BY <1>1
<1>3. Chained(Tail(t))
  BY <1>1, <1>2 DEF Chained
<1>4. ASSUME Tail(t) # <<>> PROVE Head(Tail(t)) = t[2] /\ Head(t) = t[1] /\ 1 \in 1..(Len(t) - 1)
  BY <1>1, <1>2, <1>4
<1> QED
  BY <1>3, <1>4 DEF Chained


\* A request is at a statement s in the next state.
Next_At(r, s) == req'[r].todo # <<>> /\ Head(req'[r].todo) = s

\* A statement that lets its handler proceed or return moves only its own
\* request, to a chained rest, and to a seat or a rotation only from their
\* predecessors.
LEMMA ShiftOrder ==
  ASSUME TypeOK, OrderInv, NEW r \in Requests, req[r].todo # <<>>, Proceed(r) \/ Return(r)
  PROVE  /\ \A p \in Requests \ {r} : req'[p] = req[p]
         /\ Chained(req'[r].todo)
         /\ Next_At(r, "seat") => /\ Head(req[r].todo) = "consume"
                                  /\ req'[r].who = req[r].who /\ req'[r].lk = req[r].lk
         /\ Next_At(r, "rotate") => Head(req[r].todo) = "list_members"
<1>1. req \in [Requests -> Request] /\ req[r] \in Request /\ req[r].todo \in Seq(Stmts)
  BY DEF TypeOK, Request
<1>2. Chained(req[r].todo)
  BY DEF OrderInv
<1>3. Chained(Idle.todo) /\ Idle.todo = <<>>
  BY DEF Idle, Chained
<1>4. CASE Return(r)
  BY <1>1, <1>3, <1>4 DEF Return, Next_At
<1>5. CASE Proceed(r)
  <2> DEFINE rest == Tail(req[r].todo)
  <2>1. /\ Chained(rest)
        /\ rest # <<>> /\ Head(rest) = "seat" => Head(req[r].todo) = "consume"
        /\ rest # <<>> /\ Head(rest) = "rotate" => Head(req[r].todo) = "list_members"
    BY <1>1, <1>2, TailChained
  <2>2. \A p \in Requests \ {r} : req'[p] = req[p]
    BY <1>1, <1>5 DEF Proceed
  <2>3. req'[r] = IF rest = <<>> THEN Idle ELSE [req[r] EXCEPT !.todo = rest]
    BY <1>1, <1>5 DEF Proceed
  <2>4. CASE rest = <<>>
    BY <2>2, <2>3, <2>4, <1>3 DEF Next_At
  <2>5. CASE rest # <<>>
    <3>1. req'[r].todo = rest /\ req'[r].who = req[r].who /\ req'[r].lk = req[r].lk
      BY <2>3, <2>5, <1>1 DEF Request
    <3> HIDE DEF rest
    <3> QED
      BY <3>1, <2>1, <2>2 DEF Next_At
  <2> QED
    BY <2>4, <2>5
<1> QED
  BY <1>4, <1>5

\* No step makes another request move; only a consume takes a request to a seat,
\* and a request reaches its rotation only with a roster in hand.
LEMMA StepOrder ==
  ASSUME TypeOK, OrderInv, NEW r \in Requests, Step(r)
  PROVE  /\ \A p \in Requests \ {r} : req'[p] = req[p]
         /\ Chained(req'[r].todo)
         /\ Next_At(r, "seat") => /\ Consume(r)
                                  /\ req'[r].who = req[r].who /\ req'[r].lk = req[r].lk
         /\ Next_At(r, "rotate") => req'[r].seen # {}
<1>1. req \in [Requests -> Request] /\ req[r] \in Request /\ req[r].todo \in Seq(Stmts)
  BY DEF TypeOK, Request
<1>2. Chained(req[r].todo)
  BY DEF OrderInv
<1>3. CASE Begin(r)
  <2>1. PICK op \in Ops : req'[r].todo = Handler[op]
                           /\ \A p \in Requests \ {r} : req'[p] = req[p]
    BY <1>1, <1>3 DEF Begin
  <2> QED
    BY <2>1, HandlerChained DEF Next_At
<1>4. CASE IsAdmin(r)
  <2>1. CASE Proceed(r)
    BY <1>4, <2>1, ShiftOrder DEF IsAdmin, At
  <2>2. CASE req' = [req EXCEPT ![r].todo = SubSeq(req[r].todo, 4, Len(req[r].todo))]
    <3> DEFINE t == req[r].todo
               rest == SubSeq(t, 4, Len(t))
    <3>1. t \in Seq(Stmts) /\ t # <<>> /\ t[1] = "is_admin" /\ 1 \in 1..Len(t)
      BY <1>1, <1>4 DEF IsAdmin, At
    <3>2. 4 \in 1..Len(t) /\ t[4] = "delete_user_keys"
      BY <3>1, <1>2 DEF Chained
    <3>3. Len(rest) = Len(t) - 3 /\ \A i \in 1..Len(rest) : rest[i] = t[i + 3]
      BY <3>1, <3>2
    <3>4. Chained(rest)
      <4>1. Chained(t) /\ Len(t) \in Nat /\ Len(rest) \in Nat
        BY <1>2, <3>1, <3>2, <3>3
      <4> HIDE DEF t, rest
      <4>2. ASSUME NEW i \in 1..(Len(rest) - 1)
            PROVE  /\ rest[i + 1] = "seat" => rest[i] = "consume"
                   /\ rest[i + 1] = "rotate" => rest[i] = "list_members"
        <5>1. i + 3 \in 1..(Len(t) - 1) /\ rest[i] = t[i + 3] /\ rest[i + 1] = t[(i + 3) + 1]
          BY <4>1, <3>3
        <5> QED
          BY <5>1, <4>1 DEF Chained
      <4>3. ASSUME NEW i \in 1..Len(rest), rest[i] = "is_admin"
            PROVE  i + 3 \in 1..Len(rest) /\ rest[i + 3] = "delete_user_keys"
        <5>1. i + 3 \in 1..Len(t) /\ rest[i] = t[i + 3]
          BY <4>1, <3>3
        <5>2. (i + 3) + 3 \in 1..Len(t) /\ t[(i + 3) + 3] = "delete_user_keys"
          BY <5>1, <4>1, <4>3 DEF Chained
        <5> QED
          BY <5>2, <4>1, <3>3
      <4> QED
        BY <4>2, <4>3 DEF Chained
    <3>5. Head(rest) = "delete_user_keys"
      BY <3>1, <3>2, <3>3
    <3>6. req'[r].todo = rest /\ \A p \in Requests \ {r} : req'[p] = req[p]
      BY <1>1, <2>2 DEF Request
    <3> HIDE DEF t, rest
    <3> QED
      BY <3>4, <3>5, <3>6 DEF Next_At
  <2> QED
    BY <1>4, <2>1, <2>2 DEF IsAdmin
<1>5. CASE ListMembers(r)
  <2>1. CASE Return(r)
    BY <1>5, <2>1, ShiftOrder, <1>1 DEF ListMembers, At, Next_At, Return, Idle
  <2>2. CASE members # {} /\ req' = [req EXCEPT ![r].todo = Tail(req[r].todo), ![r].seen = members]
    <3>1. req'[r].todo = Tail(req[r].todo) /\ req'[r].seen # {}
          /\ \A p \in Requests \ {r} : req'[p] = req[p]
      BY <1>1, <2>2 DEF Request
    <3>2. req[r].todo # <<>> /\ Head(req[r].todo) = "list_members"
      BY <1>5 DEF ListMembers, At
    <3> QED
      BY <3>1, <3>2, <1>1, <1>2, TailChained DEF Next_At
  <2> QED
    BY <1>5, <2>1, <2>2 DEF ListMembers
<1>6. CASE Consume(r)
  BY <1>6, ShiftOrder DEF Consume, At
<1>7. CASE Check(r) \/ Fail(r)
  <2>1. req[r].todo # <<>> /\ (Head(req[r].todo) \in Checks \/ Return(r)) /\ (Proceed(r) \/ Return(r))
    BY <1>7 DEF Check, Fail
  <2>2. ~Next_At(r, "seat") /\ ~Next_At(r, "rotate")
    BY <2>1, <1>1, ShiftOrder DEF Checks, Return, Idle, Next_At
  <2> QED
    BY <2>1, <2>2, ShiftOrder
<1>8. CASE RemoveAdmin(r) \/ AddAdmin(r) \/ DeleteUserKeys(r) \/ RemoveMember(r)
           \/ SetPending(r) \/ CreateInvitation(r) \/ DeleteInvitation(r) \/ AddMember(r)
           \/ CreateLink(r) \/ RevokeLink(r) \/ StoreKey(r) \/ Rotate(r)
           \/ CreateMessage(r) \/ DeleteRoom(r) \/ EvictFromAllRooms(r)
           \/ Suspend(r) \/ Reinstate(r)
  <2>1. /\ req[r].todo # <<>> /\ (Proceed(r) \/ Return(r))
        /\ Head(req[r].todo) # "consume" /\ Head(req[r].todo) # "list_members"
    BY <1>8 DEF At, RemoveAdmin, AddAdmin, DeleteUserKeys, RemoveMember, SetPending,
        CreateInvitation, DeleteInvitation, AddMember, CreateLink, RevokeLink, StoreKey,
        Rotate, CreateMessage, DeleteRoom, EvictFromAllRooms, Suspend, Reinstate
  <2> QED
    BY <2>1, ShiftOrder
<1> QED
  BY <1>3, <1>4, <1>5, <1>6, <1>7, <1>8 DEF Step

LEMMA OrderStep == TypeOK /\ OrderInv /\ [Next]_vars => OrderInv'
<1> SUFFICES ASSUME TypeOK, OrderInv, [Next]_vars PROVE OrderInv'
  OBVIOUS
<1>1. CASE UNCHANGED vars
  BY <1>1 DEF vars, OrderInv, At
<1>2. ASSUME NEW l \in Links, Expire(l) PROVE OrderInv'
  BY <1>2 DEF Expire, OrderInv, At
<1>3. ASSUME NEW r \in Requests, Step(r) PROVE OrderInv'
  <2> SUFFICES ASSUME NEW p \in Requests
               PROVE  Chained(req'[p].todo) /\ (Next_At(p, "rotate") => req'[p].seen # {})
    BY DEF OrderInv, At, Next_At
  <2>1. CASE p = r
    BY <1>3, <2>1, StepOrder
  <2>2. CASE p # r
    BY <1>3, <2>2, StepOrder DEF OrderInv, At, Next_At
  <2> QED
    BY <2>1, <2>2
<1> QED
  BY <1>1, <1>2, <1>3 DEF Next


LEMMA OrderInit == Init => OrderInv
<1> SUFFICES ASSUME Init PROVE OrderInv
  OBVIOUS
<1>1. Idle.todo = <<>> /\ Chained(<<>>)
  BY DEF Idle, Chained
<1> QED
  BY <1>1 DEF Init, OrderInv, At

\* The epoch moves only by one, and only in a rotation that gives its whole,
\* nonempty roster the wrap of the new epoch in the same step: of any number of
\* racing rotations, one installs each epoch.
THEOREM EpochsMoveWhole == Spec => EpochMovesWhole
<1> DEFINE Whole == epoch' # epoch =>
             /\ epoch' = epoch + 1
             /\ \E r \in Requests : /\ At(r, "rotate") /\ req[r].seen # {}
                                    /\ \A u \in req[r].seen : <<u, epoch'>> \in wraps'
<1>1. TypeOK /\ OrderInv /\ [Next]_vars => [Whole]_vars
  <2> SUFFICES ASSUME TypeOK, OrderInv, Next PROVE Whole
    OBVIOUS
  <2>1. ASSUME NEW l \in Links, Expire(l) PROVE epoch' = epoch
    BY <2>1 DEF Expire
  <2>2. ASSUME NEW r \in Requests, Step(r), ~Rotate(r) PROVE epoch' = epoch
    BY <2>2 DEF Step, Begin, Check, IsAdmin, ListMembers, RemoveAdmin, AddAdmin,
        DeleteUserKeys, RemoveMember, SetPending, CreateInvitation, DeleteInvitation,
        AddMember, CreateLink, RevokeLink, Consume, StoreKey, CreateMessage, DeleteRoom,
        EvictFromAllRooms, Suspend, Reinstate, Fail, db
  <2>3. ASSUME NEW r \in Requests, Rotate(r) PROVE Whole
    <3>1. At(r, "rotate") /\ req[r].seen # {}
      BY <2>3 DEF Rotate, OrderInv
    <3>2. CASE exists /\ req[r].ver = epoch + 1
      BY <2>3, <3>1, <3>2 DEF Rotate
    <3>3. CASE ~(exists /\ req[r].ver = epoch + 1)
      BY <2>3, <3>3 DEF Rotate
    <3> QED
      BY <3>2, <3>3
  <2> QED
    BY <2>1, <2>2, <2>3 DEF Next
<1> QED
  BY <1>1, TypeInit, TypeStep, OrderInit, OrderStep, PTL DEF Spec, EpochMovesWhole

-----------------------------------------------------------------------------
(***************************************************************************)
(* The budget of an invite link.  LinkBudget alone is not inductive: a       *)
(* redeem that has consumed a use and not yet taken its seat must be counted *)
(* with the wallets already seated.                                          *)
(***************************************************************************)
Boarding(l) == {r \in Requests : At(r, "seat") /\ req[r].lk = l}
Paid(l) == seated[l] \cup {req[r].who : r \in Boarding(l)}

BudgetInv ==
    \A l \in Links : /\ Cardinality(Paid(l)) <= link[l].uses
                     /\ ~link[l].minted => link[l].uses = 0

LEMMA PaidFinite ==
  ASSUME TypeOK, NEW l \in Links
  PROVE  Paid(l) \subseteq Users /\ IsFiniteSet(Paid(l)) /\ Cardinality(Paid(l)) \in Nat
<1>1. Paid(l) \subseteq Users
  BY DEF Paid, Boarding, TypeOK, Request
<1> QED
  BY <1>1, UsersAssumption, FS_Subset, FS_CardinalityType

\* A step that pays for nobody new and refunds nothing keeps the budget.
LEMMA NothingBought ==
  ASSUME TypeOK, BudgetInv, NEW l \in Links,
         Paid(l)' \subseteq Paid(l), link'[l].uses = link[l].uses,
         link'[l].minted = link[l].minted \/ link'[l].minted
  PROVE  /\ Cardinality(Paid(l)') <= link'[l].uses
         /\ ~link'[l].minted => link'[l].uses = 0
<1>1. IsFiniteSet(Paid(l)) /\ Cardinality(Paid(l)) \in Nat
  BY PaidFinite
<1>2. Cardinality(Paid(l)') <= Cardinality(Paid(l)) /\ IsFiniteSet(Paid(l)')
  BY <1>1, FS_Subset
<1>3. Cardinality(Paid(l)') \in Nat
  BY <1>2, FS_CardinalityType
<1>4. link[l].uses \in Nat
  BY DEF TypeOK, Link
<1> QED
  BY <1>1, <1>2, <1>3, <1>4 DEF BudgetInv

LEMMA BudgetStep == TypeOK /\ OrderInv /\ BudgetInv /\ [Next]_vars => BudgetInv'
<1> SUFFICES ASSUME TypeOK, OrderInv, BudgetInv, [Next]_vars, NEW l \in Links
             PROVE  /\ Cardinality(Paid(l)') <= link'[l].uses
                    /\ ~link'[l].minted => link'[l].uses = 0
  BY DEF BudgetInv
<1>0. link[l] \in Link /\ link \in [Links -> Link] /\ link[l].uses \in Nat
  BY DEF TypeOK, Link
<1>1. CASE UNCHANGED vars
  <2>1. Paid(l)' = Paid(l)
    BY <1>1 DEF vars, Paid, Boarding, At
  <2> QED
    BY <2>1, <1>1, NothingBought DEF vars
<1>2. ASSUME NEW k \in Links, Expire(k)
      PROVE  /\ Cardinality(Paid(l)') <= link'[l].uses
             /\ ~link'[l].minted => link'[l].uses = 0
  <2>1. Paid(l)' = Paid(l)
    BY <1>2 DEF Expire, hist, Paid, Boarding, At
  <2>2. link'[l].uses = link[l].uses /\ link'[l].minted = link[l].minted
    BY <1>2, <1>0 DEF Expire, Link
  <2> QED
    BY <2>1, <2>2, NothingBought
<1>3. ASSUME NEW r \in Requests, Step(r)
      PROVE  /\ Cardinality(Paid(l)') <= link'[l].uses
             /\ ~link'[l].minted => link'[l].uses = 0
  <2>o. /\ \A p \in Requests \ {r} : req'[p] = req[p]
        /\ Next_At(r, "seat") => /\ Consume(r)
                                 /\ req'[r].who = req[r].who /\ req'[r].lk = req[r].lk
    BY <1>3, StepOrder
  <2>p. ASSUME NEW p \in Boarding(l)', p # r PROVE p \in Boarding(l) /\ req'[p].who = req[p].who
    BY <2>p, <2>o DEF Boarding, At
  <2>n. ASSUME ~Consume(r) PROVE Boarding(l)' \subseteq Boarding(l) \ {r}
    BY <2>n, <2>o, <2>p DEF Boarding, At, Next_At
  <2>1. CASE Consume(r)
    <3>1. seated' = seated
      BY <2>1 DEF Consume, hist
    <3>2. Paid(l)' \subseteq Paid(l) \cup {req[r].who}
      BY <2>1, <2>o, <2>p, <3>1 DEF Paid, Boarding, At, Next_At
    <3>3. CASE live(req[r].lk) /\ req[r].lk = l
      <4>1. link'[l].uses = link[l].uses + 1 /\ link'[l].minted = link[l].minted /\ link[l].minted
        BY <2>1, <3>3, <1>0 DEF Consume, live, Link
      <4>2. IsFiniteSet(Paid(l)) /\ Cardinality(Paid(l)) \in Nat
        BY PaidFinite
      <4>3. /\ IsFiniteSet(Paid(l) \cup {req[r].who})
            /\ Cardinality(Paid(l) \cup {req[r].who}) \in Nat
            /\ Cardinality(Paid(l) \cup {req[r].who}) <= Cardinality(Paid(l)) + 1
        <5>1. /\ IsFiniteSet(Paid(l) \cup {req[r].who})
              /\ \/ Cardinality(Paid(l) \cup {req[r].who}) = Cardinality(Paid(l))
                 \/ Cardinality(Paid(l) \cup {req[r].who}) = Cardinality(Paid(l)) + 1
          BY <4>2, FS_AddElement
        <5> QED
          BY <4>2, <5>1
      <4>4. IsFiniteSet(Paid(l)') /\ Cardinality(Paid(l)') <= Cardinality(Paid(l) \cup {req[r].who})
        BY <3>2, <4>3, FS_Subset
      <4>5. Cardinality(Paid(l)') \in Nat
        BY <4>4, FS_CardinalityType
      <4> QED
        BY <4>1, <4>2, <4>3, <4>4, <4>5, <1>0 DEF BudgetInv
    <3>4. CASE ~(live(req[r].lk) /\ req[r].lk = l)
      <4>1. link'[l].uses = link[l].uses /\ link'[l].minted = link[l].minted
        BY <2>1, <3>4, <1>0 DEF Consume, Link
      <4>2. ~(Next_At(r, "seat") /\ req'[r].lk = l)
        <5>1. CASE live(req[r].lk)
          BY <5>1, <3>4, <2>o
        <5>2. CASE ~live(req[r].lk)
          BY <5>2, <2>1 DEF Consume, Return, Idle, Next_At, TypeOK
        <5> QED
          BY <5>1, <5>2
      <4>3. Paid(l)' \subseteq Paid(l)
        BY <4>2, <2>p, <3>1 DEF Paid, Boarding, At, Next_At
      <4> QED
        BY <4>1, <4>3, NothingBought
    <3> QED
      BY <3>3, <3>4
  <2>2. CASE AddMember(r)
    <3>1. ~Consume(r)
      BY <2>2 DEF AddMember, Consume, At
    <3>2. seated'[l] \subseteq Paid(l)
      BY <2>2 DEF AddMember, hist, Paid, Boarding, TypeOK
    <3>3. Paid(l)' \subseteq Paid(l)
      BY <2>n, <2>p, <3>1, <3>2 DEF Paid
    <3> QED
      BY <2>2, <3>3, NothingBought DEF AddMember
  <2>3. CASE CreateLink(r)
    <3>1. ~Consume(r) /\ seated' = seated
      BY <2>3 DEF CreateLink, Consume, At, hist
    <3>2. Paid(l)' \subseteq Paid(l)
      BY <2>n, <2>p, <3>1 DEF Paid
    <3>3. link'[l].uses = link[l].uses /\ (link'[l].minted = link[l].minted \/ link'[l].minted)
      BY <2>3, <1>0 DEF CreateLink, Minted, BudgetInv
    <3> QED
      BY <3>2, <3>3, NothingBought
  <2>4. CASE RevokeLink(r)
    <3>1. ~Consume(r) /\ seated' = seated
      BY <2>4 DEF RevokeLink, Consume, At, hist
    <3>2. Paid(l)' \subseteq Paid(l)
      BY <2>n, <2>p, <3>1 DEF Paid
    <3>3. link'[l].uses = link[l].uses /\ link'[l].minted = link[l].minted
      BY <2>4, <1>0 DEF RevokeLink, Link
    <3> QED
      BY <3>2, <3>3, NothingBought
  <2>5. CASE ~Consume(r) /\ ~AddMember(r) /\ ~CreateLink(r) /\ ~RevokeLink(r)
    <3>1. seated' = seated /\ link' = link
      BY <1>3, <2>5 DEF Step, Begin, Check, IsAdmin, ListMembers, RemoveAdmin, AddAdmin,
        DeleteUserKeys, RemoveMember, SetPending, CreateInvitation, DeleteInvitation,
        StoreKey, Rotate, CreateMessage, DeleteRoom, EvictFromAllRooms, Suspend,
        Reinstate, Fail, db, hist
    <3>2. Paid(l)' \subseteq Paid(l)
      BY <2>n, <2>p, <2>5, <3>1 DEF Paid
    <3> QED
      BY <3>1, <3>2, NothingBought
  <2> QED
    BY <2>1, <2>2, <2>3, <2>4, <2>5
<1> QED
  BY <1>1, <1>2, <1>3 DEF Next

LEMMA BudgetInit == Init => BudgetInv
<1> SUFFICES ASSUME Init, NEW l \in Links
             PROVE  Cardinality(Paid(l)) <= link[l].uses /\ link[l].uses = 0
  BY DEF BudgetInv
<1>1. Paid(l) = {}
  BY DEF Init, Paid, Boarding, At, Idle
<1>2. Cardinality(Paid(l)) = 0
  BY <1>1, FS_EmptySet
<1> QED
  BY <1>2 DEF Init, NoLink

\* An invite link never seats more wallets than the uses it has spent, nor spends
\* more uses than max_uses, for any number of racing redeems, revocations,
\* failures and deletions.
THEOREM LinksStayInBudget == Spec => []LinkBudget
<1>1. TypeOK /\ BudgetInv => LinkBudget
  <2> SUFFICES ASSUME TypeOK, BudgetInv, NEW l \in Links
               PROVE  Cardinality(seated[l]) <= link[l].uses /\ link[l].uses <= MaxUses
    BY DEF LinkBudget
  <2>1. link[l].uses \in 0..MaxUses
    BY DEF TypeOK, Link
  <2>2. IsFiniteSet(Paid(l)) /\ Cardinality(Paid(l)) \in Nat
    BY PaidFinite
  <2>3. seated[l] \subseteq Paid(l)
    BY DEF Paid
  <2>4. IsFiniteSet(seated[l]) /\ Cardinality(seated[l]) <= Cardinality(Paid(l))
    BY <2>2, <2>3, FS_Subset
  <2>5. Cardinality(seated[l]) \in Nat
    BY <2>4, FS_CardinalityType
  <2> QED
    BY <2>1, <2>2, <2>4, <2>5, BoundsAssumption DEF BudgetInv
<1> QED
  BY <1>1, TypeInit, TypeStep, OrderInit, OrderStep, BudgetInit, BudgetStep, PTL DEF Spec

-----------------------------------------------------------------------------
\* What holds as long as handlers run one after the other: the proofs are those of a
\* sequential program, with an assertion at every statement a promise rests on.  lapses says
\* in which behaviours handlers overlapped (nothing is claimed of them here), failed, or were
\* overruled by a server admin.


\* What a handler still has to run when it stands at its i-th statement.
Rest(op, i) == SubSeq(Handler[op], i, Len(Handler[op]))

\* An admin other than u.
AnotherAdmin(u) == \E a \in admins : a # u

\* What a handler relies on at its i-th statement: who it acts on, what its checks
\* found and what its earlier statements did.
Asserts(op, i, q) ==
    /\ op \in {"leave", "accept", "redeem"} => q.by = q.who
    /\ op = "kick" => q.by # q.who
    /\ op = "kick" /\ i \in 2..4 /\ "overruled" \notin lapses => q.by \in admins
    /\ (op = "leave" /\ i = 5) \/ (op = "remove_admin" /\ i \in 4..5) => AnotherAdmin(q.who)
    /\ (op = "leave" /\ i \in 6..8) \/ (op = "kick" /\ i \in 5..7) => q.who \notin admins
    /\ (op = "leave" /\ i \in 7..8) \/ (op = "kick" /\ i \in 6..7) => WrapsOf(q.who) = {}
    /\ op = "add_admin" /\ i \in 5..6 => q.who \in members
    /\ op = "accept" /\ i = 4 => q.who \in members
    /\ op = "store" => q.ver <= epoch
    /\ op = "store" /\ i \in 4..6 => eligible(q.who)
    /\ op = "rotate" /\ i \in 2..3 => q.by \in members
    /\ op = "rotate" /\ i = 3 => q.seen = members
    /\ op = "send" /\ i = 3 => ~pending /\ q.ver = epoch
    /\ op = "evict" /\ i = 2 => q.who \notin members \cup admins

\* The handler in flight in slot r stands at one of its statements, with what it
\* relies on there, on behalf of a wallet that is not suspended.
Stands(r) ==
    /\ req[r].by \notin suspended
    /\ \E op \in Ops : \E i \in 1..Len(Handler[op]) : req[r].todo = Rest(op, i) /\ Asserts(op, i, req[r])

\* u was just removed and the handler that did it is about to raise the flag.
Leaving(u) == \E r \in Requests : At(r, "set_pending") /\ req[r].who = u
\* u just declined and the handler that did it is about to strip the wraps.
Declining(u) == \E r \in Requests : At(r, "delete_user_keys") /\ req[r].who = u

Alone == \A r, p \in Requests : req[r].todo # <<>> /\ req[p].todo # <<>> => r = p
RosterSound == admins \subseteq members /\ suspended \cap members = {}
VersionsSound == \A w \in knows \cup wraps : w[2] <= epoch
KeysSound ==
    /\ exposed = {}
    /\ exists => \A u \in Users \ members : <<u, epoch>> \in knows => pending \/ Leaving(u)
    /\ \A w \in wraps : w[1] \in members \cup invited \/ Declining(w[1])

TurnInv ==
    "overlap" \notin lapses =>
      /\ Alone
      /\ \A r \in Requests : req[r].todo # <<>> => Stands(r)
      /\ RosterSound
      /\ VersionsSound
      /\ "failed" \notin lapses => KeysSound
      /\ "overruled" \notin lapses => AdminRemains

-----------------------------------------------------------------------------
(***************************************************************************)
(* Where a handler can stand.                                               *)
(***************************************************************************)
Place(op, i, o, j) == op = o /\ i = j

\* The remaining statements of a handler at its i-th statement: the first is that
\* statement, the others are what remains at the next.
LEMMA RestShape ==
  ASSUME NEW op \in Ops, NEW i \in 1..Len(Handler[op])
  PROVE  /\ Rest(op, i) # <<>> /\ Head(Rest(op, i)) = Handler[op][i]
         /\ Handler[op][i] \in Stmts
         /\ i = Len(Handler[op]) => Tail(Rest(op, i)) = <<>>
         /\ i # Len(Handler[op]) => /\ i + 1 \in 1..Len(Handler[op])
                                    /\ Tail(Rest(op, i)) = Rest(op, i + 1)
         /\ i + 3 <= Len(Handler[op]) =>
              /\ i + 3 \in 1..Len(Handler[op])
              /\ SubSeq(Rest(op, i), 4, Len(Rest(op, i))) = Rest(op, i + 3)
<1> DEFINE h == Handler[op]
<1>1. h \in Seq(Stmts) /\ Len(h) \in Nat /\ i \in 1..Len(h)
  BY HandlerType
<1>2. Rest(op, i) = SubSeq(h, i, Len(h))
  BY DEF Rest
<1> HIDE DEF h
<1>3. Len(SubSeq(h, i, Len(h))) = Len(h) - i + 1 /\ \A k \in 1..(Len(h) - i + 1) : SubSeq(h, i, Len(h))[k] = h[i + k - 1]
  BY <1>1
<1>4. SubSeq(h, i, Len(h)) # <<>> /\ Head(SubSeq(h, i, Len(h))) = h[i] /\ h[i] \in Stmts
  <2>1. SubSeq(h, i, Len(h)) \in Seq(Stmts) /\ 1 \in 1..(Len(h) - i + 1)
    BY <1>1
  <2>2. SubSeq(h, i, Len(h))[1] = h[i]
    BY <1>1, <1>3, <2>1
  <2>3. ASSUME NEW s \in Seq(Stmts), Len(s) >= 1 PROVE s # <<>> /\ Head(s) = s[1]
    BY <2>3
  <2>4. Len(SubSeq(h, i, Len(h))) >= 1 /\ h[i] \in Stmts
    BY <1>1, <1>3
  <2> QED
    BY <2>1, <2>2, <2>3, <2>4
<1>5. i = Len(h) => Tail(SubSeq(h, i, Len(h))) = <<>>
  BY <1>1, <1>3
<1>6. i # Len(h) => i + 1 \in 1..Len(h) /\ Tail(SubSeq(h, i, Len(h))) = SubSeq(h, i + 1, Len(h))
  BY <1>1
<1>7. ASSUME i + 3 <= Len(h)
      PROVE  i + 3 \in 1..Len(h) /\ SubSeq(SubSeq(h, i, Len(h)), 4, Len(SubSeq(h, i, Len(h)))) = SubSeq(h, i + 3, Len(h))
  BY <1>1, <1>3, <1>7
<1> QED
  BY <1>2, <1>4, <1>5, <1>6, <1>7 DEF Rest, h

\* The statements that write, by handler and position.
LEMMA Places ==
  ASSUME NEW op \in Ops, NEW i \in 1..Len(Handler[op])
  PROVE  /\ Handler[op][i] = "is_admin" => Place(op, i, "leave", 3)
         /\ Handler[op][i] = "list_members" => Place(op, i, "rotate", 2)
         /\ Handler[op][i] = "remove_admin" => Place(op, i, "leave", 5) \/ Place(op, i, "kick", 4) \/ Place(op, i, "remove_admin", 5)
         /\ Handler[op][i] = "add_admin" => Place(op, i, "add_admin", 6)
         /\ Handler[op][i] = "delete_user_keys" => Place(op, i, "leave", 6) \/ Place(op, i, "kick", 5) \/ Place(op, i, "decline", 3)
         /\ Handler[op][i] = "remove_member" => Place(op, i, "leave", 7) \/ Place(op, i, "kick", 6)
         /\ Handler[op][i] = "set_pending" => Place(op, i, "leave", 8) \/ Place(op, i, "kick", 7) \/ Place(op, i, "redeem", 7)
         /\ Handler[op][i] = "create_invitation" => Place(op, i, "invite", 4)
         /\ Handler[op][i] = "delete_invitation" => Place(op, i, "accept", 4) \/ Place(op, i, "decline", 2)
         /\ Handler[op][i] = "add_member" => Place(op, i, "accept", 3)
         /\ Handler[op][i] = "seat" => Place(op, i, "redeem", 5)
         /\ Handler[op][i] = "store_key" => Place(op, i, "store", 6)
         /\ Handler[op][i] = "rotate" => Place(op, i, "rotate", 3)
         /\ Handler[op][i] = "create_message" => Place(op, i, "send", 3)
         /\ Handler[op][i] = "delete_room" => Place(op, i, "remove_room", 3)
         /\ Handler[op][i] = "evict_from_all_rooms" => Place(op, i, "evict", 1)
         /\ Handler[op][i] = "suspend" => Place(op, i, "evict", 2)
         /\ Handler[op][i] = "reinstate" => Place(op, i, "reinstate", 1)
<1>1. op \in {"leave", "kick", "add_admin", "remove_admin", "invite", "accept",
              "decline", "create_link", "revoke_link", "redeem", "store", "rotate",
              "send", "remove_room", "evict", "reinstate"}
  BY OpsAssumption DEF Handler
<1> USE DEF Place
<1>h0. CASE op = "leave"
  <2>1. Handler[op] = leave
    BY <1>h0 DEF Handler
  <2> QED
    BY <2>1, <1>h0 DEF leave
<1>h1. CASE op = "kick"
  <2>1. Handler[op] = kick
    BY <1>h1 DEF Handler
  <2> QED
    BY <2>1, <1>h1 DEF kick
<1>h2. CASE op = "add_admin"
  <2>1. Handler[op] = add_admin
    BY <1>h2 DEF Handler
  <2> QED
    BY <2>1, <1>h2 DEF add_admin
<1>h3. CASE op = "remove_admin"
  <2>1. Handler[op] = remove_admin
    BY <1>h3 DEF Handler
  <2> QED
    BY <2>1, <1>h3 DEF remove_admin
<1>h4. CASE op = "invite"
  <2>1. Handler[op] = invite
    BY <1>h4 DEF Handler
  <2> QED
    BY <2>1, <1>h4 DEF invite
<1>h5. CASE op = "accept"
  <2>1. Handler[op] = accept
    BY <1>h5 DEF Handler
  <2> QED
    BY <2>1, <1>h5 DEF accept
<1>h6. CASE op = "decline"
  <2>1. Handler[op] = decline
    BY <1>h6 DEF Handler
  <2> QED
    BY <2>1, <1>h6 DEF decline
<1>h7. CASE op = "create_link"
  <2>1. Handler[op] = create_link
    BY <1>h7 DEF Handler
  <2> QED
    BY <2>1, <1>h7 DEF create_link
<1>h8. CASE op = "revoke_link"
  <2>1. Handler[op] = revoke_link
    BY <1>h8 DEF Handler
  <2> QED
    BY <2>1, <1>h8 DEF revoke_link
<1>h9. CASE op = "redeem"
  <2>1. Handler[op] = redeem
    BY <1>h9 DEF Handler
  <2> QED
    BY <2>1, <1>h9 DEF redeem
<1>h10. CASE op = "store"
  <2>1. Handler[op] = store
    BY <1>h10 DEF Handler
  <2> QED
    BY <2>1, <1>h10 DEF store
<1>h11. CASE op = "rotate"
  <2>1. Handler[op] = rotate
    BY <1>h11 DEF Handler
  <2> QED
    BY <2>1, <1>h11 DEF rotate
<1>h12. CASE op = "send"
  <2>1. Handler[op] = send
    BY <1>h12 DEF Handler
  <2> QED
    BY <2>1, <1>h12 DEF send
<1>h13. CASE op = "remove_room"
  <2>1. Handler[op] = remove_room
    BY <1>h13 DEF Handler
  <2> QED
    BY <2>1, <1>h13 DEF remove_room
<1>h14. CASE op = "evict"
  <2>1. Handler[op] = evict
    BY <1>h14 DEF Handler
  <2> QED
    BY <2>1, <1>h14 DEF evict
<1>h15. CASE op = "reinstate"
  <2>1. Handler[op] = reinstate
    BY <1>h15 DEF Handler
  <2> QED
    BY <2>1, <1>h15 DEF reinstate
<1> QED
  BY <1>1, <1>h0, <1>h1, <1>h2, <1>h3, <1>h4, <1>h5, <1>h6, <1>h7, <1>h8, <1>h9, <1>h10, <1>h11, <1>h12, <1>h13, <1>h14, <1>h15

LEMMA Lengths ==
  ASSUME NEW op \in Ops
  PROVE  /\ op = "leave" => Len(Handler[op]) = 8
         /\ op = "kick" => Len(Handler[op]) = 7
         /\ op = "add_admin" => Len(Handler[op]) = 6
         /\ op = "remove_admin" => Len(Handler[op]) = 5
         /\ op = "invite" => Len(Handler[op]) = 4
         /\ op = "accept" => Len(Handler[op]) = 4
         /\ op = "decline" => Len(Handler[op]) = 3
         /\ op = "create_link" => Len(Handler[op]) = 3
         /\ op = "revoke_link" => Len(Handler[op]) = 3
         /\ op = "redeem" => Len(Handler[op]) = 7
         /\ op = "store" => Len(Handler[op]) = 6
         /\ op = "rotate" => Len(Handler[op]) = 3
         /\ op = "send" => Len(Handler[op]) = 3
         /\ op = "remove_room" => Len(Handler[op]) = 3
         /\ op = "evict" => Len(Handler[op]) = 2
         /\ op = "reinstate" => Len(Handler[op]) = 1
<1>1. op = "leave" => Len(Handler[op]) = 8
  BY DEF Handler, leave
<1>2. op = "kick" => Len(Handler[op]) = 7
  BY DEF Handler, kick
<1>3. op = "add_admin" => Len(Handler[op]) = 6
  BY DEF Handler, add_admin
<1>4. op = "remove_admin" => Len(Handler[op]) = 5
  BY DEF Handler, remove_admin
<1>5. op = "invite" => Len(Handler[op]) = 4
  BY DEF Handler, invite
<1>6. op = "accept" => Len(Handler[op]) = 4
  BY DEF Handler, accept
<1>7. op = "decline" => Len(Handler[op]) = 3
  BY DEF Handler, decline
<1>8. op = "create_link" => Len(Handler[op]) = 3
  BY DEF Handler, create_link
<1>9. op = "revoke_link" => Len(Handler[op]) = 3
  BY DEF Handler, revoke_link
<1>10. op = "redeem" => Len(Handler[op]) = 7
  BY DEF Handler, redeem
<1>11. op = "store" => Len(Handler[op]) = 6
  BY DEF Handler, store
<1>12. op = "rotate" => Len(Handler[op]) = 3
  BY DEF Handler, rotate
<1>13. op = "send" => Len(Handler[op]) = 3
  BY DEF Handler, send
<1>14. op = "remove_room" => Len(Handler[op]) = 3
  BY DEF Handler, remove_room
<1>15. op = "evict" => Len(Handler[op]) = 2
  BY DEF Handler, evict
<1>16. op = "reinstate" => Len(Handler[op]) = 1
  BY DEF Handler, reinstate
<1> QED
  BY <1>1, <1>2, <1>3, <1>4, <1>5, <1>6, <1>7, <1>8, <1>9, <1>10, <1>11, <1>12, <1>13, <1>14, <1>15, <1>16

\* The checks whose findings a later statement relies on, and what a handler does last.
LEMMA CheckPlaces ==
  ASSUME NEW op \in Ops
  PROVE  /\ op = "leave" => Handler[op][4] = "admin_count"
         /\ op = "kick" => Handler[op][1] = "caller_admin"
         /\ op = "add_admin" => Handler[op][4] = "target_member"
         /\ op = "remove_admin" => Handler[op][3] = "admin_count"
         /\ op = "store" => Handler[op][3] = "target_eligible"
         /\ op = "rotate" => Handler[op][1] = "caller_member" /\ Handler[op][2] = "list_members"
         /\ op = "send" => Handler[op][2] = "check_epoch"
         /\ op = "leave" => Handler[op][3] = "is_admin" /\ Handler[op][5] = "remove_admin"
         /\ op = "leave" => Handler[op][6] = "delete_user_keys" /\ Handler[op][7] = "remove_member"
         /\ op = "kick" => Handler[op][4] = "remove_admin" /\ Handler[op][5] = "delete_user_keys"
         /\ op = "kick" => Handler[op][6] = "remove_member"
         /\ op = "accept" => Handler[op][3] = "add_member"
         /\ op = "evict" => Handler[op][1] = "evict_from_all_rooms"
         /\ op = "leave" => Handler[op][8] = "set_pending"
         /\ op = "kick" => Handler[op][7] = "set_pending"
         /\ op = "decline" => Handler[op][3] = "delete_user_keys"
<1>1. op = "leave" => /\ Handler[op][3] = "is_admin" /\ Handler[op][4] = "admin_count" /\ Handler[op][5] = "remove_admin"
                      /\ Handler[op][6] = "delete_user_keys" /\ Handler[op][7] = "remove_member" /\ Handler[op][8] = "set_pending"
  BY DEF Handler, leave
<1>2. op = "kick" => /\ Handler[op][1] = "caller_admin" /\ Handler[op][4] = "remove_admin"
                     /\ Handler[op][5] = "delete_user_keys" /\ Handler[op][6] = "remove_member" /\ Handler[op][7] = "set_pending"
  BY DEF Handler, kick
<1>3. /\ op = "add_admin" => Handler[op][4] = "target_member"
      /\ op = "remove_admin" => Handler[op][3] = "admin_count"
      /\ op = "store" => Handler[op][3] = "target_eligible"
  BY DEF Handler, add_admin, remove_admin, store
<1>4. /\ op = "rotate" => Handler[op][1] = "caller_member" /\ Handler[op][2] = "list_members"
      /\ op = "send" => Handler[op][2] = "check_epoch"
      /\ op = "accept" => Handler[op][3] = "add_member"
      /\ op = "evict" => Handler[op][1] = "evict_from_all_rooms"
      /\ op = "decline" => Handler[op][3] = "delete_user_keys"
  BY DEF Handler, rotate, send, accept, evict, decline
<1> QED
  BY <1>1, <1>2, <1>3, <1>4

\* invite and the handlers of links rely on nothing but the caller's own seat.
LEMMA Bystanders ==
  ASSUME NEW op \in Ops, NEW i \in 1..Len(Handler[op]),
         Handler[op][i] \in {"create_invitation", "create_link", "revoke_link", "consume"}
  PROVE  op \notin {"leave", "kick", "add_admin", "remove_admin", "accept", "store", "rotate", "send", "evict"}
<1>1. op # "leave"
  BY SMTT(30) DEF Handler, leave
<1>2. op # "kick"
  BY DEF Handler, kick
<1>3. op # "add_admin"
  BY DEF Handler, add_admin
<1>4. op # "remove_admin"
  BY DEF Handler, remove_admin
<1>5. op # "accept"
  BY DEF Handler, accept
<1>6. op # "store"
  BY DEF Handler, store
<1>7. op # "rotate"
  BY DEF Handler, rotate
<1>8. op # "send"
  BY DEF Handler, send
<1>9. op # "evict"
  BY DEF Handler, evict
<1> QED
  BY <1>1, <1>2, <1>3, <1>4, <1>5, <1>6, <1>7, <1>8, <1>9

-----------------------------------------------------------------------------
(***************************************************************************)
(* The shape of a step.                                                     *)
(***************************************************************************)
Sound == /\ RosterSound
         /\ VersionsSound
         /\ "failed" \notin lapses => KeysSound
         /\ "overruled" \notin lapses => AdminRemains

\* Handlers have run one after the other so far.
Turn == TypeOK /\ TurnInv /\ "overlap" \notin lapses

Here(r, op, i) ==
    req[r].todo = Rest(op, i) /\ Asserts(op, i, req[r]) /\ req[r].by \notin suspended

LEMMA Standing ==
  ASSUME Turn, NEW r \in Requests, req[r].todo # <<>>
  PROVE  /\ Sound
         /\ \A p \in Requests \ {r} : req[p].todo = <<>>
         /\ \E op \in Ops : \E i \in 1..Len(Handler[op]) : Here(r, op, i)
  BY DEF Turn, TurnInv, Sound, Alone, Stands, Here

LEMMA RequestFields ==
  ASSUME TypeOK, NEW r \in Requests
  PROVE  /\ req[r].who \in Users /\ req[r].by \in Users /\ req[r].ver \in Epochs
         /\ req[r].lk \in Links /\ req[r].seen \subseteq Users /\ req[r].todo \in Seq(Stmts)
         /\ DOMAIN req = Requests
  BY DEF TypeOK, Request

\* A statement that succeeds moves its own handler to the next one.
LEMMA Proceeds ==
  ASSUME Turn, NEW r \in Requests, NEW op \in Ops, NEW i \in 1..Len(Handler[op]), Here(r, op, i), Proceed(r)
  PROVE  /\ \A p \in Requests \ {r} : req'[p].todo = <<>>
         /\ i = Len(Handler[op]) => req'[r].todo = <<>>
         /\ i # Len(Handler[op]) => /\ i + 1 \in 1..Len(Handler[op])
                                    /\ req'[r].todo = Rest(op, i + 1)
                                    /\ req'[r].by = req[r].by /\ req'[r].who = req[r].who
                                    /\ req'[r].ver = req[r].ver /\ req'[r].seen = req[r].seen
<1>1. req \in [Requests -> Request] /\ req[r] \in Request
  BY DEF Turn, TypeOK
<1>2. req[r].todo = Rest(op, i) /\ req[r].todo # <<>>
  BY RestShape DEF Here
<1>3. \A p \in Requests \ {r} : req[p].todo = <<>>
  BY <1>2, Standing
<1>4. \A p \in Requests \ {r} : req'[p] = req[p]
  BY <1>1 DEF Proceed
<1>5. req'[r] = IF Tail(req[r].todo) = <<>> THEN Idle ELSE [req[r] EXCEPT !.todo = Tail(req[r].todo)]
  BY <1>1 DEF Proceed
<1>6. CASE i = Len(Handler[op])
  <2>1. req'[r] = Idle
    BY <1>2, <1>5, <1>6, RestShape
  <2> QED
    BY <1>3, <1>4, <1>6, <2>1 DEF Idle
<1>7. CASE i # Len(Handler[op])
  <2>1. i + 1 \in 1..Len(Handler[op]) /\ Tail(req[r].todo) = Rest(op, i + 1) /\ Rest(op, i + 1) # <<>>
    BY <1>2, <1>7, RestShape
  <2>2. req'[r] = [req[r] EXCEPT !.todo = Rest(op, i + 1)]
    BY <1>5, <2>1
  <2> QED
    BY <1>1, <1>3, <1>4, <1>7, <2>1, <2>2 DEF Request
<1> QED
  BY <1>6, <1>7

\* A handler that returns leaves every slot idle.
LEMMA Returns ==
  ASSUME Turn, NEW r \in Requests, req[r].todo # <<>>, Return(r)
  PROVE  \A p \in Requests : req'[p].todo = <<>>
<1>1. req \in [Requests -> Request]
  BY DEF Turn, TypeOK
<1>2. \A p \in Requests \ {r} : req[p].todo = <<>>
  BY Standing
<1> QED
  BY <1>1, <1>2 DEF Return, Idle

\* What is left to show of a step.
LEMMA Resting ==
  ASSUME \A p \in Requests : req'[p].todo = <<>>, Sound'
  PROVE  TurnInv'
  BY DEF TurnInv, Sound, Alone

LEMMA Moving ==
  ASSUME Turn, NEW r \in Requests, NEW op \in Ops, NEW i \in 1..Len(Handler[op]), Here(r, op, i), Proceed(r),
         Sound', req[r].by \notin suspended', i # Len(Handler[op]) => Asserts(op, i + 1, req[r])'
  PROVE  TurnInv'
<1>1. CASE i = Len(Handler[op])
  <2>1. \A p \in Requests : req'[p].todo = <<>>
    BY <1>1, Proceeds
  <2> QED
    BY <2>1, Resting
<1>2. CASE i # Len(Handler[op])
  <2>1. /\ i + 1 \in 1..Len(Handler[op]) /\ req'[r].todo = Rest(op, i + 1) /\ req'[r].by = req[r].by
        /\ \A p \in Requests \ {r} : req'[p].todo = <<>>
    BY <1>2, Proceeds
  <2>2. Stands(r)'
    BY <1>2, <2>1 DEF Stands
  <2>3. Alone' /\ \A p \in Requests : req'[p].todo # <<>> => Stands(p)'
    <3>1. \A p \in Requests : req'[p].todo # <<>> => p = r
      BY <2>1
    <3> QED
      BY <2>2, <3>1 DEF Alone
  <2> QED
    BY <2>3 DEF TurnInv, Sound
<1> QED
  BY <1>1, <1>2

\* Where no handler is about to raise the flag or to strip wraps, the keys are sound
\* without exception.
KeysPlain ==
    /\ exposed = {}
    /\ exists => \A u \in Users \ members : <<u, epoch>> \in knows => pending
    /\ \A w \in wraps : w[1] \in members \cup invited

LEMMA PlainIsSound == (KeysPlain => KeysSound) /\ (KeysPlain' => KeysSound')
<1>1. KeysPlain => KeysSound
  BY DEF KeysPlain, KeysSound
<1>2. KeysPlain' => KeysSound'
  BY DEF KeysPlain, KeysSound
<1> QED
  BY <1>1, <1>2

LEMMA PlainHere ==
  ASSUME Turn, NEW r \in Requests, req[r].todo # <<>>, "failed" \notin lapses
  PROVE  /\ Head(req[r].todo) \notin {"set_pending", "delete_user_keys"} => KeysPlain
         /\ Head(req[r].todo) # "delete_user_keys" => \A w \in wraps : w[1] \in members \cup invited
         /\ Head(req[r].todo) # "set_pending" =>
              (exists => \A u \in Users \ members : <<u, epoch>> \in knows => pending)
<1>1. KeysSound /\ \A p \in Requests \ {r} : req[p].todo = <<>>
  BY Standing DEF Sound
<1>3. ASSUME NEW u, Leaving(u) PROVE Head(req[r].todo) = "set_pending"
  BY <1>1, <1>3 DEF Leaving, At
<1>4. ASSUME NEW u, Declining(u) PROVE Head(req[r].todo) = "delete_user_keys"
  BY <1>1, <1>4 DEF Declining, At
<1> QED
  BY <1>1, <1>3, <1>4 DEF KeysSound, KeysPlain

-----------------------------------------------------------------------------
(***************************************************************************)
(* The steps.                                                               *)
(***************************************************************************)

\* Nobody is removed with a wrap on file.
Stripped == \A u \in members \ members' : \A w \in wraps' : w[1] # u

LEMMA FreshRest ==
  ASSUME NEW op \in Ops
  PROVE  Rest(op, 1) = Handler[op] /\ 1 \in 1..Len(Handler[op])
<1>0. op \in {"leave", "kick", "add_admin", "remove_admin", "invite", "accept",
              "decline", "create_link", "revoke_link", "redeem", "store", "rotate",
              "send", "remove_room", "evict", "reinstate"}
  BY OpsAssumption DEF Handler
<1>1. Handler[op] \in Seq(Stmts) /\ Len(Handler[op]) >= 1
  <2>1. Len(Handler[op]) \in {1, 2, 3, 4, 5, 6, 7, 8}
    BY <1>0, Lengths
  <2>2. Handler[op] \in Seq(Stmts)
    BY HandlerType
  <2>3. \A n \in {1, 2, 3, 4, 5, 6, 7, 8} : n >= 1
    OBVIOUS
  <2> QED
    BY <2>1, <2>2, <2>3
<1>2. ASSUME NEW h \in Seq(Stmts) PROVE SubSeq(h, 1, Len(h)) = h
  OBVIOUS
<1> QED
  BY <1>1, <1>2 DEF Rest

LEMMA BeginTurn ==
  ASSUME TypeOK, TurnInv, NEW r \in Requests, Begin(r)
  PROVE  TurnInv'
<1>1. CASE Busy(r) \/ "overlap" \in lapses
  BY <1>1 DEF Begin, TurnInv, Lapses
<1>2. CASE ~Busy(r) /\ "overlap" \notin lapses
  <2>1. req[r].todo = <<>> /\ lapses' = lapses /\ (\A p \in Requests : req[p].todo = <<>>)
        /\ UNCHANGED <<exists, members, admins, invited, link, wraps, epoch, pending, suspended, knows, seated, exposed>>
    BY <1>2 DEF Begin, Busy, db
  <2>2. PICK op \in Ops, u \in Users \ suspended :
          \E w \in Targets(op, u), v \in Versions(op), l \in LinksOf(op) :
            req' = [req EXCEPT ![r] = [todo |-> Handler[op], by |-> u, who |-> w,
                                       ver |-> v, seen |-> {}, lk |-> l]]
    BY DEF Begin
  <2>3. PICK w \in Targets(op, u), v \in Versions(op), l \in LinksOf(op) :
          req' = [req EXCEPT ![r] = [todo |-> Handler[op], by |-> u, who |-> w,
                                     ver |-> v, seen |-> {}, lk |-> l]]
    BY <2>2
  <2>4. /\ req'[r].todo = Rest(op, 1) /\ req'[r].by = u /\ req'[r].who = w /\ req'[r].ver = v
        /\ \A p \in Requests \ {r} : req'[p] = req[p]
    BY <2>3, FreshRest DEF TypeOK
  <2>5. /\ op \in {"leave", "accept", "redeem"} => u = w
        /\ op = "kick" => u # w
        /\ op = "store" => v <= epoch
    <3>1. op \in {"leave", "accept", "redeem"} => Targets(op, u) = {u}
      BY DEF Targets, OnAnyone
    <3>2. op = "kick" => Targets(op, u) = Users \ {u}
      BY DEF Targets, OnAnyone
    <3>3. op = "store" => Versions(op) = 1..epoch
      BY DEF Versions
    <3> QED
      BY <3>1, <3>2, <3>3 DEF TypeOK, Epochs
  <2>6. Asserts(op, 1, req[r])'
    BY <2>1, <2>4, <2>5 DEF Asserts
  <2>7. Stands(r)'
    BY <2>1, <2>2, <2>4, <2>6, FreshRest DEF Stands
  <2>8. Alone' /\ \A p \in Requests : req'[p].todo # <<>> => Stands(p)'
    <3>1. \A p \in Requests : req'[p].todo # <<>> => p = r
      BY <2>1, <2>4
    <3> QED
      BY <2>7, <3>1 DEF Alone
  <2>9. Sound'
    <3>1. Sound
      BY <1>2 DEF TurnInv, Sound
    <3>2. RosterSound' /\ VersionsSound' /\ (AdminRemains => AdminRemains')
      BY <2>1, <3>1 DEF Sound, RosterSound, VersionsSound, AdminRemains
    <3>3. KeysSound => KeysPlain'
      BY <2>1 DEF KeysSound, KeysPlain, Leaving, Declining, At
    <3> QED
      BY <2>1, <3>1, <3>2, <3>3, PlainIsSound DEF Sound
  <2> QED
    BY <2>8, <2>9 DEF TurnInv, Sound
<1> QED
  BY <1>1, <1>2

\* More than one admin: one besides any given wallet.
LEMMA CountedAdmins ==
  ASSUME TypeOK, Cardinality(admins) > 1, NEW u
  PROVE  AnotherAdmin(u)
<1> SUFFICES ASSUME ~AnotherAdmin(u) PROVE FALSE
  OBVIOUS
<1>1. admins \subseteq {u}
  BY DEF AnotherAdmin
<1>2. IsFiniteSet({u}) /\ Cardinality({u}) = 1
  BY FS_Singleton
<1>3. IsFiniteSet(admins) /\ Cardinality(admins) <= 1 /\ Cardinality(admins) \in Nat
  BY <1>1, <1>2, FS_Subset, FS_CardinalityType
<1> QED
  BY <1>3

LEMMA CheckTurn ==
  ASSUME Turn, NEW r \in Requests, Check(r)
  PROVE  TurnInv'
<1>1. /\ req[r].todo # <<>> /\ Head(req[r].todo) \in Checks
      /\ UNCHANGED <<exists, members, admins, invited, link, wraps, epoch, pending, suspended, knows, seated, exposed>>
      /\ lapses \subseteq lapses' /\ "overlap" \notin lapses' /\ ("failed" \in lapses' => "failed" \in lapses)
  BY DEF Check, db, Met, Turn
<1>2. Sound'
  <2>1. Sound
    BY <1>1, Standing
  <2>2. RosterSound' /\ VersionsSound' /\ (AdminRemains => AdminRemains')
    BY <1>1, <2>1 DEF Sound, RosterSound, VersionsSound, AdminRemains
  <2>3. "failed" \notin lapses => KeysPlain'
    <3>1. "failed" \notin lapses => KeysPlain
      BY <1>1, PlainHere DEF Checks
    <3> QED
      BY <1>1, <3>1 DEF KeysPlain
  <2> QED
    BY <1>1, <2>1, <2>2, <2>3, PlainIsSound DEF Sound
<1>3. CASE Return(r)
  BY <1>1, <1>2, <1>3, Returns, Resting
<1>4. CASE Proceed(r) /\ Holds(Head(req[r].todo), req[r])
  <2>1. PICK op \in Ops : \E i \in 1..Len(Handler[op]) : Here(r, op, i)
    BY <1>1, Standing
  <2>2. PICK i \in 1..Len(Handler[op]) : Here(r, op, i)
    BY <2>1
  <2>3. Head(req[r].todo) = Handler[op][i]
    BY <2>2, RestShape DEF Here
  <2>4. ASSUME i # Len(Handler[op]) PROVE Asserts(op, i + 1, req[r])'
    <3>1. /\ req'[r].by = req[r].by /\ req'[r].who = req[r].who
          /\ req'[r].ver = req[r].ver /\ req'[r].seen = req[r].seen
      BY <1>4, <2>2, <2>4, Proceeds
    <3>2. Asserts(op, i, req[r]) /\ i \in Nat
      BY <2>2 DEF Here
    <3>3. /\ (op = "leave" /\ i = 4) \/ (op = "remove_admin" /\ i = 3) => AnotherAdmin(req[r].who)
          /\ op = "kick" /\ i = 1 /\ "overruled" \notin lapses' => req[r].by \in admins
          /\ op = "add_admin" /\ i = 4 => req[r].who \in members
          /\ op = "store" /\ i = 3 => eligible(req[r].who)
          /\ op = "rotate" /\ i = 1 => req[r].by \in members
          /\ op = "send" /\ i = 2 => ~pending /\ req[r].ver = epoch
      <4>1. (op = "leave" /\ i = 4) \/ (op = "remove_admin" /\ i = 3) => AnotherAdmin(req[r].who)
        <5>1. (op = "leave" /\ i = 4) \/ (op = "remove_admin" /\ i = 3) => Head(req[r].todo) = "admin_count"
          BY <2>3, CheckPlaces
        <5>2. Head(req[r].todo) = "admin_count" => Cardinality(admins) > 1
          BY <1>4 DEF Holds
        <5> QED
          BY <5>1, <5>2, CountedAdmins DEF Turn
      <4>2. op = "kick" /\ i = 1 /\ "overruled" \notin lapses' => req[r].by \in admins
        <5>1. op = "kick" /\ i = 1 => Head(req[r].todo) = "caller_admin"
          BY <2>3, CheckPlaces
        <5>2. Head(req[r].todo) = "caller_admin" => req[r].by \in ServerAdmins \/ req[r].by \in admins
          BY <1>4 DEF Holds, require_admin, is_server_admin
        <5>3. Head(req[r].todo) = "caller_admin" /\ req[r].by \in ServerAdmins \ admins => "overruled" \in lapses'
          BY <1>1 DEF Check, Met, At
        <5> QED
          BY <5>1, <5>2, <5>3
      <4>3. op = "add_admin" /\ i = 4 => req[r].who \in members
        BY <1>4, <2>3, CheckPlaces DEF Holds
      <4>4. op = "store" /\ i = 3 => eligible(req[r].who)
        BY <1>4, <2>3, CheckPlaces DEF Holds
      <4>5. op = "rotate" /\ i = 1 => req[r].by \in members
        BY <1>4, <2>3, CheckPlaces, SMTT(30) DEF Holds
      <4>6. op = "send" /\ i = 2 => ~pending /\ req[r].ver = epoch
        BY <1>4, <2>3, CheckPlaces, SMTT(30) DEF Holds, check_epoch
      <4> QED
        BY <4>1, <4>2, <4>3, <4>4, <4>5, <4>6
    <3>4. /\ Handler[op][i] \in Checks
          /\ ~(op = "leave" /\ i \in {3, 5, 6, 7}) /\ ~(op = "kick" /\ i \in {4, 5, 6})
          /\ ~(op = "accept" /\ i = 3) /\ ~(op = "rotate" /\ i = 2) /\ ~(op = "evict" /\ i = 1)
      <4>1. Handler[op][i] \in Checks
        BY <1>1, <2>3
      <4> QED
        BY <4>1, CheckPlaces DEF Checks
    <3> QED
      BY <1>1, <3>1, <3>2, <3>3, <3>4 DEF Asserts, AnotherAdmin, WrapsOf, eligible
  <2>5. req[r].by \notin suspended'
    BY <1>1, <2>2 DEF Here
  <2> QED
    BY <1>2, <1>4, <2>2, <2>4, <2>5, Moving
<1> QED
  BY <1>3, <1>4 DEF Check

\* Statements that touch neither rosters nor keys, wherever they stand.
LEMMA QuietTurn ==
  ASSUME Turn, NEW r \in Requests, req[r].todo # <<>>,
         UNCHANGED <<exists, members, admins, wraps, epoch, pending, suspended, knows, exposed, lapses>>,
         invited \subseteq invited',
         Head(req[r].todo) \in {"create_invitation", "create_link", "revoke_link", "consume"},
         Proceed(r) \/ Return(r)
  PROVE  TurnInv'
<1>1. Sound'
  <2>1. Sound
    BY Standing
  <2>2. RosterSound' /\ VersionsSound' /\ (AdminRemains => AdminRemains')
    BY <2>1 DEF Sound, RosterSound, VersionsSound, AdminRemains
  <2>3. "failed" \notin lapses => KeysPlain'
    <3>1. "failed" \notin lapses => KeysPlain
      BY PlainHere
    <3> QED
      BY <3>1 DEF KeysPlain
  <2> QED
    BY <2>1, <2>2, <2>3, PlainIsSound DEF Sound
<1>2. CASE Return(r)
  BY <1>1, <1>2, Returns, Resting
<1>3. CASE Proceed(r)
  <2>1. PICK op \in Ops : \E i \in 1..Len(Handler[op]) : Here(r, op, i)
    BY Standing
  <2>2. PICK i \in 1..Len(Handler[op]) : Here(r, op, i)
    BY <2>1
  <2>3. Head(req[r].todo) = Handler[op][i]
    BY <2>2, RestShape DEF Here
  <2>4. ASSUME i # Len(Handler[op]) PROVE Asserts(op, i + 1, req[r])'
    <3>1. /\ req'[r].by = req[r].by /\ req'[r].who = req[r].who
          /\ req'[r].ver = req[r].ver /\ req'[r].seen = req[r].seen
      BY <1>3, <2>2, <2>4, Proceeds
    <3>2. Asserts(op, i, req[r]) /\ i \in Nat
      BY <2>2 DEF Here
    <3>3. op \notin {"leave", "kick", "add_admin", "remove_admin", "accept", "store", "rotate", "send", "evict"}
      BY <2>3, Bystanders
    <3> QED
      BY <3>1, <3>2, <3>3 DEF Asserts
  <2>5. req[r].by \notin suspended'
    BY <2>2 DEF Here
  <2> QED
    BY <1>1, <1>3, <2>2, <2>4, <2>5, Moving
<1> QED
  BY <1>2, <1>3

\* leave's branch on whether the caller is an admin.
LEMMA IsAdminTurn ==
  ASSUME Turn, NEW r \in Requests, IsAdmin(r)
  PROVE  TurnInv'
<1>1. /\ req[r].todo # <<>> /\ Head(req[r].todo) = "is_admin"
      /\ UNCHANGED <<exists, members, admins, invited, link, wraps, epoch, pending, suspended, knows, seated, exposed, lapses>>
  BY DEF IsAdmin, At, db, hist
<1>2. Sound'
  <2>1. Sound
    BY <1>1, Standing
  <2>2. RosterSound' /\ VersionsSound' /\ (AdminRemains => AdminRemains')
    BY <1>1, <2>1 DEF Sound, RosterSound, VersionsSound, AdminRemains
  <2>3. "failed" \notin lapses => KeysPlain'
    <3>1. "failed" \notin lapses => KeysPlain
      BY <1>1, PlainHere
    <3> QED
      BY <1>1, <3>1 DEF KeysPlain
  <2> QED
    BY <1>1, <2>1, <2>2, <2>3, PlainIsSound DEF Sound
<1>3. PICK op \in Ops : \E i \in 1..Len(Handler[op]) : Here(r, op, i)
  BY <1>1, Standing
<1>4. PICK i \in 1..Len(Handler[op]) : Here(r, op, i)
  BY <1>3
<1>5. op = "leave" /\ i = 3 /\ Len(Handler[op]) = 8 /\ req[r].by = req[r].who
  <2>1. Handler[op][i] = "is_admin"
    BY <1>1, <1>4, RestShape DEF Here
  <2>2. op = "leave" /\ i = 3
    BY <2>1, Places DEF Place
  <2> QED
    BY <1>4, <2>2, Lengths DEF Here, Asserts
<1>b. i # Len(Handler[op]) /\ i + 3 <= Len(Handler[op])
  BY <1>5
<1>6. CASE Proceed(r)
  <2>1. /\ req'[r].by = req[r].by /\ req'[r].who = req[r].who
    BY <1>4, <1>b, <1>6, Proceeds
  <2>2. Asserts(op, i + 1, req[r])'
    BY <1>5, <2>1 DEF Asserts
  <2> QED
    BY <1>1, <1>2, <1>4, <1>6, <2>2, Moving DEF Here
<1>7. CASE req[r].by \notin admins /\ req' = [req EXCEPT ![r].todo = SubSeq(req[r].todo, 4, Len(req[r].todo))]
  <2>1. req \in [Requests -> Request] /\ req[r] \in Request
    BY DEF Turn, TypeOK
  <2>2. req[r].todo = Rest(op, i) /\ i + 3 \in 1..Len(Handler[op])
        /\ SubSeq(req[r].todo, 4, Len(req[r].todo)) = Rest(op, i + 3)
    BY <1>4, <1>b, RestShape DEF Here
  <2>3. /\ req'[r].todo = Rest(op, i + 3) /\ req'[r].by = req[r].by /\ req'[r].who = req[r].who
        /\ \A p \in Requests \ {r} : req'[p] = req[p]
    BY <1>7, <2>1, <2>2 DEF Request
  <2>4. Asserts(op, i + 3, req[r])'
    BY <1>1, <1>5, <1>7, <2>3 DEF Asserts
  <2>5. Stands(r)'
    BY <1>1, <1>4, <2>2, <2>3, <2>4 DEF Stands, Here
  <2>6. \A p \in Requests : req'[p].todo # <<>> => p = r
    BY <1>1, <2>3, Standing
  <2>7. Alone' /\ \A p \in Requests : req'[p].todo # <<>> => Stands(p)'
    BY <2>5, <2>6 DEF Alone
  <2> QED
    BY <1>2, <2>7 DEF TurnInv, Sound
<1> QED
  BY <1>6, <1>7 DEF IsAdmin

\* The roster a rotation reads is the one it installs.
LEMMA ListMembersTurn ==
  ASSUME Turn, NEW r \in Requests, ListMembers(r)
  PROVE  TurnInv'
<1>1. /\ req[r].todo # <<>> /\ Head(req[r].todo) = "list_members"
      /\ UNCHANGED <<exists, members, admins, invited, link, wraps, epoch, pending, suspended, knows, seated, exposed, lapses>>
  BY DEF ListMembers, At, db, hist
<1>2. Sound'
  <2>1. Sound
    BY <1>1, Standing
  <2>2. RosterSound' /\ VersionsSound' /\ (AdminRemains => AdminRemains')
    BY <1>1, <2>1 DEF Sound, RosterSound, VersionsSound, AdminRemains
  <2>3. "failed" \notin lapses => KeysPlain'
    <3>1. "failed" \notin lapses => KeysPlain
      BY <1>1, PlainHere
    <3> QED
      BY <1>1, <3>1 DEF KeysPlain
  <2> QED
    BY <1>1, <2>1, <2>2, <2>3, PlainIsSound DEF Sound
<1>3. CASE Return(r)
  BY <1>1, <1>2, <1>3, Returns, Resting
<1>4. CASE req' = [req EXCEPT ![r].todo = Tail(req[r].todo), ![r].seen = members]
  <2>1. PICK op \in Ops : \E i \in 1..Len(Handler[op]) : Here(r, op, i)
    BY <1>1, Standing
  <2>2. PICK i \in 1..Len(Handler[op]) : Here(r, op, i)
    BY <2>1
  <2>3. Handler[op][i] = "list_members" /\ req[r].todo = Rest(op, i) /\ Asserts(op, i, req[r])
    BY <1>1, <2>2, RestShape DEF Here
  <2>4. op = "rotate" /\ i = 2 /\ Len(Handler[op]) = 3
    BY <2>3, Places, Lengths DEF Place
  <2>5. i + 1 \in 1..Len(Handler[op]) /\ Tail(req[r].todo) = Rest(op, i + 1)
    <3>1. i # Len(Handler[op])
      BY <2>4
    <3> QED
      BY <2>3, <3>1, RestShape
  <2>6. req \in [Requests -> Request] /\ req[r] \in Request
    BY DEF Turn, TypeOK
  <2>7. /\ req'[r].todo = Rest(op, i + 1) /\ req'[r].by = req[r].by /\ req'[r].who = req[r].who
        /\ req'[r].seen = members /\ \A p \in Requests \ {r} : req'[p] = req[p]
    BY <1>4, <2>5, <2>6 DEF Request
  <2>8. Asserts(op, i + 1, req[r])'
    BY <1>1, <2>3, <2>4, <2>7 DEF Asserts
  <2>9. Stands(r)'
    BY <1>1, <2>2, <2>5, <2>7, <2>8 DEF Stands, Here
  <2>10. \A p \in Requests : req'[p].todo # <<>> => p = r
    BY <1>1, <2>7, Standing
  <2>11. Alone' /\ \A p \in Requests : req'[p].todo # <<>> => Stands(p)'
    BY <2>9, <2>10 DEF Alone
  <2> QED
    BY <1>2, <2>11 DEF TurnInv, Sound
<1> QED
  BY <1>3, <1>4 DEF ListMembers

\* The handler in flight at a statement.
LEMMA StandsAt ==
  ASSUME Turn, NEW r \in Requests, NEW s, At(r, s)
  PROVE  /\ Sound /\ req[r].todo # <<>> /\ Head(req[r].todo) = s
         /\ \E op \in Ops : \E i \in 1..Len(Handler[op]) : Here(r, op, i) /\ Handler[op][i] = s
<1>1. req[r].todo # <<>> /\ Head(req[r].todo) = s
  BY DEF At
<1>2. Sound /\ \E op \in Ops : \E i \in 1..Len(Handler[op]) : Here(r, op, i)
  BY <1>1, Standing
<1>3. ASSUME NEW op \in Ops, NEW i \in 1..Len(Handler[op]), Here(r, op, i) PROVE Handler[op][i] = s
  BY <1>1, <1>3, RestShape DEF Here
<1> QED
  BY <1>1, <1>2, <1>3

\* A handler's last statement.
LEMMA Ending ==
  ASSUME Turn, NEW r \in Requests, NEW op \in Ops, NEW i \in 1..Len(Handler[op]), Here(r, op, i), Proceed(r),
         i = Len(Handler[op]), Sound'
  PROVE  TurnInv'
<1>1. \A p \in Requests : req'[p].todo = <<>>
  BY Proceeds
<1> QED
  BY <1>1, Resting

LEMMA RemoveAdminTurn ==
  ASSUME Turn, NEW r \in Requests, RemoveAdmin(r)
  PROVE  TurnInv'
<1>1. At(r, "remove_admin") /\ Proceed(r) /\ admins' = admins \ {req[r].who}
      /\ UNCHANGED <<exists, members, invited, wraps, epoch, pending, suspended, knows, exposed, lapses>>
  BY DEF RemoveAdmin, hist
<1>2. Sound /\ req[r].todo # <<>> /\ Head(req[r].todo) = "remove_admin"
  BY <1>1, StandsAt
<1>3. PICK op \in Ops : \E i \in 1..Len(Handler[op]) : Here(r, op, i) /\ Handler[op][i] = "remove_admin"
  BY <1>1, StandsAt
<1>4. PICK i \in 1..Len(Handler[op]) : Here(r, op, i) /\ Handler[op][i] = "remove_admin"
  BY <1>3
<1>5. (op = "leave" /\ i = 5) \/ (op = "kick" /\ i = 4) \/ (op = "remove_admin" /\ i = 5)
  BY <1>4, Places DEF Place
<1>6. Asserts(op, i, req[r]) /\ req[r].by \notin suspended
  BY <1>4 DEF Here
<1>7. Sound'
  <2>1. RosterSound' /\ VersionsSound'
    BY <1>1, <1>2 DEF Sound, RosterSound, VersionsSound
  <2>2. "overruled" \notin lapses => AdminRemains'
    <3>1. "overruled" \notin lapses => AnotherAdmin(req[r].who)
      BY <1>5, <1>6 DEF Asserts, AnotherAdmin
    <3> QED
      BY <1>1, <3>1 DEF AnotherAdmin, AdminRemains
  <2>3. "failed" \notin lapses => KeysPlain'
    <3>1. "failed" \notin lapses => KeysPlain
      BY <1>2, PlainHere
    <3> QED
      BY <1>1, <3>1 DEF KeysPlain
  <2> QED
    BY <1>1, <2>1, <2>2, <2>3, PlainIsSound DEF Sound
<1>8. ASSUME i # Len(Handler[op]) PROVE Asserts(op, i + 1, req[r])'
  <2>1. req'[r].by = req[r].by /\ req'[r].who = req[r].who
    BY <1>1, <1>4, <1>8, Proceeds
  <2>2. op # "remove_admin"
    BY <1>5, <1>8, Lengths
  <2> QED
    BY <1>1, <1>5, <1>6, <2>1, <2>2 DEF Asserts
<1> QED
  BY <1>1, <1>4, <1>6, <1>7, <1>8, Moving

LEMMA AddAdminTurn ==
  ASSUME Turn, NEW r \in Requests, AddAdmin(r)
  PROVE  TurnInv'
<1>1. At(r, "add_admin") /\ Proceed(r) /\ admins' = (IF exists THEN admins \cup {req[r].who} ELSE admins)
      /\ UNCHANGED <<exists, members, invited, wraps, epoch, pending, suspended, knows, exposed, lapses>>
  BY DEF AddAdmin, hist
<1>2. Sound /\ req[r].todo # <<>> /\ Head(req[r].todo) = "add_admin"
  BY <1>1, StandsAt
<1>3. PICK op \in Ops : \E i \in 1..Len(Handler[op]) : Here(r, op, i) /\ Handler[op][i] = "add_admin"
  BY <1>1, StandsAt
<1>4. PICK i \in 1..Len(Handler[op]) : Here(r, op, i) /\ Handler[op][i] = "add_admin"
  BY <1>3
<1>5. op = "add_admin" /\ i = 6
  BY <1>4, Places DEF Place
<1>6. req[r].who \in members
  BY <1>4, <1>5 DEF Here, Asserts
<1>7. Sound'
  <2>1. RosterSound' /\ VersionsSound' /\ (AdminRemains => AdminRemains')
    BY <1>1, <1>2, <1>6 DEF Sound, RosterSound, VersionsSound, AdminRemains
  <2>2. "failed" \notin lapses => KeysPlain'
    <3>1. "failed" \notin lapses => KeysPlain
      BY <1>2, PlainHere
    <3> QED
      BY <1>1, <3>1 DEF KeysPlain
  <2> QED
    BY <1>1, <1>2, <2>1, <2>2, PlainIsSound DEF Sound
<1>8. i = Len(Handler[op])
  BY <1>5, Lengths
<1> QED
  BY <1>1, <1>4, <1>7, <1>8, Ending

LEMMA DeleteUserKeysTurn ==
  ASSUME Turn, NEW r \in Requests, DeleteUserKeys(r)
  PROVE  TurnInv'
<1>1. At(r, "delete_user_keys") /\ Proceed(r) /\ wraps' = wraps \ WrapsOf(req[r].who)
      /\ UNCHANGED <<exists, members, admins, invited, epoch, pending, suspended, knows, exposed, lapses>>
  BY DEF DeleteUserKeys, hist
<1>2. Sound /\ req[r].todo # <<>> /\ Head(req[r].todo) = "delete_user_keys"
  BY <1>1, StandsAt
<1>3. PICK op \in Ops : \E i \in 1..Len(Handler[op]) : Here(r, op, i) /\ Handler[op][i] = "delete_user_keys"
  BY <1>1, StandsAt
<1>4. PICK i \in 1..Len(Handler[op]) : Here(r, op, i) /\ Handler[op][i] = "delete_user_keys"
  BY <1>3
<1>5. (op = "leave" /\ i = 6) \/ (op = "kick" /\ i = 5) \/ (op = "decline" /\ i = 3)
  BY <1>4, Places DEF Place
<1>6. Asserts(op, i, req[r]) /\ req[r].by \notin suspended
  BY <1>4 DEF Here
<1>7. Sound'
  <2>1. RosterSound' /\ VersionsSound' /\ (AdminRemains => AdminRemains')
    BY <1>1, <1>2 DEF Sound, RosterSound, VersionsSound, AdminRemains
  <2>2. "failed" \notin lapses => KeysPlain'
    <3> SUFFICES ASSUME "failed" \notin lapses PROVE KeysPlain'
      OBVIOUS
    <3>1. KeysSound /\ (exists => \A u \in Users \ members : <<u, epoch>> \in knows => pending)
      BY <1>2, PlainHere DEF Sound
    <3>2. \A p \in Requests \ {r} : req[p].todo = <<>>
      BY <1>2, Standing
    <3>3. ASSUME NEW w \in wraps' PROVE w[1] \in members \cup invited
      <4>1. w \in wraps /\ w[1] # req[r].who
        BY <1>1, <3>3 DEF WrapsOf
      <4>2. ~Declining(w[1])
        BY <3>2, <4>1 DEF Declining, At
      <4> QED
        BY <3>1, <4>1, <4>2 DEF KeysSound
    <3> QED
      BY <1>1, <3>1, <3>3 DEF KeysPlain, KeysSound
  <2> QED
    BY <1>1, <1>2, <2>1, <2>2, PlainIsSound DEF Sound
<1>8. ASSUME i # Len(Handler[op]) PROVE Asserts(op, i + 1, req[r])'
  <2>1. req'[r].by = req[r].by /\ req'[r].who = req[r].who
    BY <1>1, <1>4, <1>8, Proceeds
  <2>2. op # "decline"
    BY <1>5, <1>8, Lengths
  <2>3. WrapsOf(req[r].who)' = {}
    BY <1>1, <2>1 DEF WrapsOf
  <2> QED
    BY <1>1, <1>5, <1>6, <2>1, <2>2, <2>3 DEF Asserts
<1> QED
  BY <1>1, <1>4, <1>6, <1>7, <1>8, Moving

LEMMA RemoveMemberTurn ==
  ASSUME Turn, NEW r \in Requests, RemoveMember(r)
  PROVE  TurnInv' /\ Stripped
<1>1. At(r, "remove_member") /\ Proceed(r) /\ members' = members \ {req[r].who}
      /\ UNCHANGED <<exists, admins, invited, wraps, epoch, pending, suspended, knows, exposed, lapses>>
  BY DEF RemoveMember, hist
<1>2. Sound /\ req[r].todo # <<>> /\ Head(req[r].todo) = "remove_member"
  BY <1>1, StandsAt
<1>3. PICK op \in Ops : \E i \in 1..Len(Handler[op]) : Here(r, op, i) /\ Handler[op][i] = "remove_member"
  BY <1>1, StandsAt
<1>4. PICK i \in 1..Len(Handler[op]) : Here(r, op, i) /\ Handler[op][i] = "remove_member"
  BY <1>3
<1>5. (op = "leave" /\ i = 7) \/ (op = "kick" /\ i = 6)
  BY <1>4, Places DEF Place
<1>6. Asserts(op, i, req[r]) /\ req[r].by \notin suspended
  BY <1>4 DEF Here
<1>7. req[r].who \notin admins /\ \A w \in wraps : w[1] # req[r].who
  <2>1. req[r].who \notin admins /\ WrapsOf(req[r].who) = {}
    BY <1>5, <1>6 DEF Asserts
  <2> QED
    BY <2>1 DEF WrapsOf
<1>8. i # Len(Handler[op]) /\ Handler[op][i + 1] = "set_pending"
  BY <1>5, Lengths, CheckPlaces
<1>9. /\ i + 1 \in 1..Len(Handler[op]) /\ req'[r].todo = Rest(op, i + 1)
      /\ req'[r].by = req[r].by /\ req'[r].who = req[r].who
  BY <1>1, <1>4, <1>8, Proceeds
<1>10. req'[r].todo # <<>> /\ Head(req'[r].todo) = "set_pending"
  BY <1>8, <1>9, RestShape
<1>11. Sound'
  <2>1. RosterSound' /\ VersionsSound' /\ (AdminRemains => AdminRemains')
    BY <1>1, <1>2, <1>7 DEF Sound, RosterSound, VersionsSound, AdminRemains
  <2>2. "failed" \notin lapses => KeysSound'
    <3> SUFFICES ASSUME "failed" \notin lapses PROVE KeysSound'
      OBVIOUS
    <3>1. KeysPlain
      BY <1>2, PlainHere
    <3>2. Leaving(req[r].who)'
      BY <1>9, <1>10 DEF Leaving, At
    <3>3. \A u \in Users \ members' : exists /\ <<u, epoch>> \in knows => pending \/ Leaving(u)'
      <4> SUFFICES ASSUME NEW u \in Users \ members', exists, <<u, epoch>> \in knows PROVE pending \/ Leaving(u)'
        OBVIOUS
      <4>1. CASE u \in members
        <5>1. u = req[r].who
          BY <1>1, <4>1
        <5> QED
          BY <1>9, <1>10, <5>1 DEF Leaving, At
      <4>2. CASE u \notin members
        BY <3>1, <4>2 DEF KeysPlain
      <4> QED
        BY <4>1, <4>2
    <3>4. \A w \in wraps : w[1] \in members' \cup invited
      BY <1>1, <1>7, <3>1 DEF KeysPlain
    <3> QED
      BY <1>1, <3>1, <3>3, <3>4 DEF KeysPlain, KeysSound
  <2> QED
    BY <1>1, <1>2, <2>1, <2>2 DEF Sound
<1>12. Asserts(op, i + 1, req[r])'
  <2>1. WrapsOf(req[r].who)' = {}
    BY <1>1, <1>7, <1>9 DEF WrapsOf
  <2> QED
    BY <1>1, <1>5, <1>6, <1>7, <1>9, <2>1 DEF Asserts
<1> QED
  BY <1>1, <1>4, <1>6, <1>7, <1>11, <1>12, Moving DEF Stripped

LEMMA SetPendingTurn ==
  ASSUME Turn, NEW r \in Requests, SetPending(r)
  PROVE  TurnInv'
<1>1. At(r, "set_pending") /\ Proceed(r) /\ pending' = (exists \/ pending)
      /\ UNCHANGED <<exists, members, admins, invited, wraps, epoch, suspended, knows, exposed, lapses>>
  BY DEF SetPending, hist
<1>2. Sound /\ req[r].todo # <<>> /\ Head(req[r].todo) = "set_pending"
  BY <1>1, StandsAt
<1>3. PICK op \in Ops : \E i \in 1..Len(Handler[op]) : Here(r, op, i) /\ Handler[op][i] = "set_pending"
  BY <1>1, StandsAt
<1>4. PICK i \in 1..Len(Handler[op]) : Here(r, op, i) /\ Handler[op][i] = "set_pending"
  BY <1>3
<1>5. (op = "leave" /\ i = 8) \/ (op = "kick" /\ i = 7) \/ (op = "redeem" /\ i = 7)
  BY <1>4, Places DEF Place
<1>6. Asserts(op, i, req[r]) /\ req[r].by \notin suspended
  BY <1>4 DEF Here
<1>7. Sound'
  <2>1. RosterSound' /\ VersionsSound' /\ (AdminRemains => AdminRemains')
    BY <1>1, <1>2 DEF Sound, RosterSound, VersionsSound, AdminRemains
  <2>2. "failed" \notin lapses => KeysPlain'
    <3>1. "failed" \notin lapses => exposed = {} /\ \A w \in wraps : w[1] \in members \cup invited
      BY <1>2, PlainHere DEF Sound, KeysSound
    <3>2. exists => pending'
      BY <1>1
    <3> QED
      BY <1>1, <3>1, <3>2 DEF KeysPlain
  <2> QED
    BY <1>1, <1>2, <2>1, <2>2, PlainIsSound DEF Sound
<1>8. i = Len(Handler[op])
  BY <1>5, Lengths
<1> QED
  BY <1>1, <1>4, <1>7, <1>8, Ending

LEMMA DeleteInvitationTurn ==
  ASSUME Turn, NEW r \in Requests, DeleteInvitation(r)
  PROVE  TurnInv'
<1>1. At(r, "delete_invitation") /\ Proceed(r) /\ invited' = invited \ {req[r].who}
      /\ UNCHANGED <<exists, members, admins, wraps, epoch, pending, suspended, knows, exposed, lapses>>
  BY DEF DeleteInvitation, hist
<1>2. Sound /\ req[r].todo # <<>> /\ Head(req[r].todo) = "delete_invitation"
  BY <1>1, StandsAt
<1>3. PICK op \in Ops : \E i \in 1..Len(Handler[op]) : Here(r, op, i) /\ Handler[op][i] = "delete_invitation"
  BY <1>1, StandsAt
<1>4. PICK i \in 1..Len(Handler[op]) : Here(r, op, i) /\ Handler[op][i] = "delete_invitation"
  BY <1>3
<1>5. (op = "accept" /\ i = 4) \/ (op = "decline" /\ i = 2)
  BY <1>4, Places DEF Place
<1>6. Asserts(op, i, req[r]) /\ req[r].by \notin suspended
  BY <1>4 DEF Here
<1>7. RosterSound' /\ VersionsSound' /\ (AdminRemains => AdminRemains')
  BY <1>1, <1>2 DEF Sound, RosterSound, VersionsSound, AdminRemains
<1>8. "failed" \notin lapses => KeysPlain
  BY <1>2, PlainHere
<1>9. CASE op = "accept" /\ i = 4
  <2>1. req[r].who \in members
    BY <1>6, <1>9 DEF Asserts
  <2>2. "failed" \notin lapses => KeysPlain'
    BY <1>1, <1>8, <2>1 DEF KeysPlain
  <2>3. Sound'
    BY <1>1, <1>2, <1>7, <2>2, PlainIsSound DEF Sound
  <2>4. i = Len(Handler[op])
    BY <1>9, Lengths
  <2> QED
    BY <1>1, <1>4, <2>3, <2>4, Ending
<1>10. CASE op = "decline" /\ i = 2
  <2>1. i # Len(Handler[op]) /\ Handler[op][i + 1] = "delete_user_keys"
    BY <1>10, Lengths, CheckPlaces
  <2>2. /\ i + 1 \in 1..Len(Handler[op]) /\ req'[r].todo = Rest(op, i + 1)
        /\ req'[r].by = req[r].by /\ req'[r].who = req[r].who
    BY <1>1, <1>4, <2>1, Proceeds
  <2>3. req'[r].todo # <<>> /\ Head(req'[r].todo) = "delete_user_keys"
    BY <2>1, <2>2, RestShape
  <2>4. "failed" \notin lapses => KeysSound'
    <3> SUFFICES ASSUME "failed" \notin lapses PROVE KeysSound'
      OBVIOUS
    <3>1. ASSUME NEW w \in wraps, w[1] \notin members \cup invited' PROVE Declining(w[1])'
      <4>1. w[1] = req[r].who
        BY <1>1, <1>8, <3>1 DEF KeysPlain
      <4> QED
        BY <2>2, <2>3, <4>1 DEF Declining, At
    <3> QED
      BY <1>1, <1>8, <3>1 DEF KeysPlain, KeysSound
  <2>5. Sound'
    BY <1>1, <1>2, <1>7, <2>4 DEF Sound
  <2>6. Asserts(op, i + 1, req[r])'
    BY <1>10 DEF Asserts
  <2> QED
    BY <1>1, <1>4, <1>6, <2>5, <2>6, Moving
<1> QED
  BY <1>5, <1>9, <1>10

LEMMA AddMemberTurn ==
  ASSUME Turn, NEW r \in Requests, AddMember(r)
  PROVE  TurnInv' /\ Stripped
<1>1. PICK s \in {"add_member", "seat"} : At(r, s)
  BY DEF AddMember
<1>2. Sound /\ req[r].todo # <<>> /\ Head(req[r].todo) = s
  BY <1>1, StandsAt
<1>3. PICK op \in Ops : \E i \in 1..Len(Handler[op]) : Here(r, op, i) /\ Handler[op][i] = s
  BY <1>1, StandsAt
<1>4. PICK i \in 1..Len(Handler[op]) : Here(r, op, i) /\ Handler[op][i] = s
  BY <1>3
<1>5. (op = "accept" /\ i = 3) \/ (op = "redeem" /\ i = 5)
  BY <1>4, Places DEF Place
<1>6. Asserts(op, i, req[r]) /\ req[r].by \notin suspended
  BY <1>4 DEF Here
<1>7. req[r].by = req[r].who
  BY <1>5, <1>6 DEF Asserts
<1>8. "failed" \notin lapses => KeysPlain
  BY <1>2, PlainHere
<1>9. CASE ~exists
  <2>1. Return(r) /\ UNCHANGED <<exists, members, admins, invited, wraps, epoch, pending, suspended, knows, exposed, lapses>>
    BY <1>9 DEF AddMember, hist
  <2>2. RosterSound' /\ VersionsSound' /\ (AdminRemains => AdminRemains') /\ Stripped
    BY <1>2, <2>1 DEF Sound, RosterSound, VersionsSound, AdminRemains, Stripped
  <2>3. "failed" \notin lapses => KeysPlain'
    BY <1>8, <2>1 DEF KeysPlain
  <2>4. Sound'
    BY <1>2, <2>1, <2>2, <2>3, PlainIsSound DEF Sound
  <2> QED
    BY <1>2, <2>1, <2>2, <2>4, Returns, Resting
<1>10. CASE exists
  <2>1. /\ Proceed(r) /\ members' = members \cup {req[r].who} /\ knows' = knows \cup WrapsOf(req[r].who)
        /\ UNCHANGED <<exists, admins, invited, wraps, epoch, pending, suspended, exposed, lapses>>
    BY <1>10 DEF AddMember
  <2>2. RosterSound' /\ (AdminRemains => AdminRemains') /\ Stripped
    BY <1>2, <1>6, <1>7, <2>1 DEF Sound, RosterSound, AdminRemains, Stripped
  <2>3. VersionsSound'
    BY <1>2, <2>1 DEF Sound, VersionsSound, WrapsOf
  <2>4. "failed" \notin lapses => KeysPlain'
    <3> SUFFICES ASSUME "failed" \notin lapses PROVE KeysPlain'
      OBVIOUS
    <3>1. ASSUME NEW u \in Users \ members', <<u, epoch>> \in knows' PROVE pending
      <4>1. u \notin members /\ u # req[r].who
        BY <2>1, <3>1
      <4>2. <<u, epoch>> \notin WrapsOf(req[r].who)
        BY <4>1 DEF WrapsOf
      <4> QED
        BY <1>8, <1>10, <2>1, <3>1, <4>1, <4>2 DEF KeysPlain
    <3> QED
      BY <1>8, <2>1, <3>1 DEF KeysPlain
  <2>5. Sound'
    BY <1>2, <2>1, <2>2, <2>3, <2>4, PlainIsSound DEF Sound
  <2>6. ASSUME i # Len(Handler[op]) PROVE Asserts(op, i + 1, req[r])'
    <3>1. req'[r].by = req[r].by /\ req'[r].who = req[r].who
      BY <1>4, <2>1, <2>6, Proceeds
    <3> QED
      BY <1>5, <1>7, <2>1, <3>1 DEF Asserts
  <2> QED
    BY <1>4, <1>6, <2>1, <2>2, <2>5, <2>6, Moving
<1> QED
  BY <1>9, <1>10

LEMMA StoreKeyTurn ==
  ASSUME Turn, NEW r \in Requests, StoreKey(r)
  PROVE  TurnInv'
<1>1. At(r, "store_key") /\ Proceed(r) /\ wraps' = (IF exists THEN wraps \cup {<<req[r].who, req[r].ver>>} ELSE wraps)
      /\ knows' = knows \cup {w \in wraps' : w[1] \in members}
      /\ UNCHANGED <<exists, members, admins, invited, epoch, pending, suspended, exposed, lapses>>
  BY DEF StoreKey, hist
<1>2. Sound /\ req[r].todo # <<>> /\ Head(req[r].todo) = "store_key"
  BY <1>1, StandsAt
<1>3. PICK op \in Ops : \E i \in 1..Len(Handler[op]) : Here(r, op, i) /\ Handler[op][i] = "store_key"
  BY <1>1, StandsAt
<1>4. PICK i \in 1..Len(Handler[op]) : Here(r, op, i) /\ Handler[op][i] = "store_key"
  BY <1>3
<1>5. op = "store" /\ i = 6
  BY <1>4, Places DEF Place
<1>6. Asserts(op, i, req[r]) /\ req[r].by \notin suspended
  BY <1>4 DEF Here
<1>7. Sound'
  <2>0. req[r].ver <= epoch /\ (req[r].who \in members \/ req[r].who \in invited)
    BY <1>5, <1>6 DEF Asserts, eligible
  <2>1. RosterSound' /\ (AdminRemains => AdminRemains')
    BY <1>1, <1>2 DEF Sound, RosterSound, AdminRemains
  <2>2. VersionsSound'
    BY <1>1, <1>2, <2>0 DEF Sound, VersionsSound
  <2>3. "failed" \notin lapses => KeysPlain'
    <3>1. "failed" \notin lapses => KeysPlain
      BY <1>2, PlainHere
    <3>2. \A u \in Users \ members : <<u, epoch>> \in knows' => <<u, epoch>> \in knows
      BY <1>1
    <3>3. \A w \in wraps' : w \in wraps \/ w[1] \in members \cup invited
      BY <1>1, <2>0
    <3> QED
      BY <1>1, <3>1, <3>2, <3>3 DEF KeysPlain
  <2> QED
    BY <1>1, <1>2, <2>1, <2>2, <2>3, PlainIsSound DEF Sound
<1>8. i = Len(Handler[op])
  BY <1>5, Lengths
<1> QED
  BY <1>1, <1>4, <1>7, <1>8, Ending

LEMMA RotateTurn ==
  ASSUME Turn, NEW r \in Requests, Rotate(r)
  PROVE  TurnInv'
<1>1. At(r, "rotate") /\ Proceed(r) 
      /\ UNCHANGED <<exists, members, admins, invited, suspended, exposed, lapses>>
  BY DEF Rotate, hist
<1>2. Sound /\ req[r].todo # <<>> /\ Head(req[r].todo) = "rotate"
  BY <1>1, StandsAt
<1>3. PICK op \in Ops : \E i \in 1..Len(Handler[op]) : Here(r, op, i) /\ Handler[op][i] = "rotate"
  BY <1>1, StandsAt
<1>4. PICK i \in 1..Len(Handler[op]) : Here(r, op, i) /\ Handler[op][i] = "rotate"
  BY <1>3
<1>5. op = "rotate" /\ i = 3
  BY <1>4, Places DEF Place
<1>6. Asserts(op, i, req[r]) /\ req[r].by \notin suspended
  BY <1>4 DEF Here
<1>7. Sound'
  <2>0. req[r].seen = members /\ req[r].by \in members /\ epoch \in Nat
    BY <1>5, <1>6 DEF Asserts, Turn, TypeOK, Epochs
  <2>1. RosterSound' /\ (AdminRemains => AdminRemains')
    BY <1>1, <1>2 DEF Sound, RosterSound, AdminRemains
  <2>2. "failed" \notin lapses => KeysPlain
    BY <1>2, PlainHere
  <2>3. CASE exists /\ req[r].ver = epoch + 1
    <3>1. /\ wraps' = wraps \cup {<<u, epoch + 1>> : u \in members} /\ epoch' = epoch + 1 /\ ~pending'
          /\ knows' = knows \cup {<<u, epoch + 1>> : u \in (members \cap members) \cup {req[r].by}}
      BY <2>0, <2>3 DEF Rotate
    <3>2. knows' = knows \cup {<<u, epoch + 1>> : u \in members}
      BY <2>0, <3>1
    <3>3. TypeOK /\ \A w \in knows \cup wraps : w[2] <= epoch /\ w[2] \in Nat
      BY <1>2 DEF Sound, VersionsSound, Turn, TypeOK, Epochs
    <3>4. VersionsSound'
      <4> SUFFICES ASSUME NEW w \in knows' \cup wraps' PROVE w[2] <= epoch + 1
        BY <3>1 DEF VersionsSound
      <4>1. w \in knows \cup wraps \/ w[2] = epoch + 1
        BY <3>1, <3>2
      <4> QED
        BY <2>0, <3>3, <4>1
    <3>5. "failed" \notin lapses => KeysPlain'
      <4> SUFFICES ASSUME "failed" \notin lapses PROVE KeysPlain'
        OBVIOUS
      <4>1. ASSUME NEW u \in Users \ members PROVE <<u, epoch + 1>> \notin knows'
        <5>1. <<u, epoch + 1>> \notin {<<v, epoch + 1>> : v \in members}
          BY <4>1
        <5>2. <<u, epoch + 1>> \notin knows
          <6>1. ~(epoch + 1 <= epoch)
            BY <2>0
          <6>2. <<u, epoch + 1>>[2] = epoch + 1
            OBVIOUS
          <6> QED
            BY <3>3, <6>1, <6>2
        <5> QED
          BY <3>2, <5>1, <5>2
      <4>2. \A w \in wraps' : w \in wraps \/ w[1] \in members
        BY <3>1
      <4> QED
        BY <1>1, <2>2, <3>1, <4>1, <4>2 DEF KeysPlain
    <3> QED
      BY <1>1, <1>2, <2>1, <3>4, <3>5, PlainIsSound DEF Sound
  <2>4. CASE ~(exists /\ req[r].ver = epoch + 1)
    <3>1. UNCHANGED <<wraps, epoch, pending, knows>>
      BY <2>4 DEF Rotate
    <3>2. VersionsSound' /\ (KeysPlain => KeysPlain')
      BY <1>1, <1>2, <3>1 DEF Sound, VersionsSound, KeysPlain
    <3> QED
      BY <1>1, <1>2, <2>1, <2>2, <3>2, PlainIsSound DEF Sound
  <2> QED
    BY <2>3, <2>4
<1>8. i = Len(Handler[op])
  BY <1>5, Lengths
<1> QED
  BY <1>1, <1>4, <1>7, <1>8, Ending

LEMMA CreateMessageTurn ==
  ASSUME Turn, NEW r \in Requests, CreateMessage(r)
  PROVE  TurnInv'
<1>1. At(r, "create_message") /\ Proceed(r) /\ exposed' = (IF exists
                  THEN exposed \cup {u \in Users \ members : <<u, req[r].ver>> \in knows}
                  ELSE exposed)
      /\ UNCHANGED <<exists, members, admins, invited, wraps, epoch, pending, suspended, knows, lapses>>
  BY DEF CreateMessage, db
<1>2. Sound /\ req[r].todo # <<>> /\ Head(req[r].todo) = "create_message"
  BY <1>1, StandsAt
<1>3. PICK op \in Ops : \E i \in 1..Len(Handler[op]) : Here(r, op, i) /\ Handler[op][i] = "create_message"
  BY <1>1, StandsAt
<1>4. PICK i \in 1..Len(Handler[op]) : Here(r, op, i) /\ Handler[op][i] = "create_message"
  BY <1>3
<1>5. op = "send" /\ i = 3
  BY <1>4, Places DEF Place
<1>6. Asserts(op, i, req[r]) /\ req[r].by \notin suspended
  BY <1>4 DEF Here
<1>7. Sound'
  <2>0. ~pending /\ req[r].ver = epoch
    BY <1>5, <1>6 DEF Asserts
  <2>1. RosterSound' /\ VersionsSound' /\ (AdminRemains => AdminRemains')
    BY <1>1, <1>2 DEF Sound, RosterSound, VersionsSound, AdminRemains
  <2>2. "failed" \notin lapses => KeysPlain'
    <3>1. "failed" \notin lapses => KeysPlain
      BY <1>2, PlainHere
    <3>2. "failed" \notin lapses /\ exists => \A u \in Users \ members : <<u, req[r].ver>> \notin knows
      BY <2>0, <3>1 DEF KeysPlain
    <3>3. "failed" \notin lapses => exposed' = {}
      BY <1>1, <3>1, <3>2 DEF KeysPlain
    <3> QED
      BY <1>1, <3>1, <3>3 DEF KeysPlain
  <2> QED
    BY <1>1, <1>2, <2>1, <2>2, PlainIsSound DEF Sound
<1>8. i = Len(Handler[op])
  BY <1>5, Lengths
<1> QED
  BY <1>1, <1>4, <1>7, <1>8, Ending

LEMMA DeleteRoomTurn ==
  ASSUME Turn, NEW r \in Requests, DeleteRoom(r)
  PROVE  TurnInv' /\ Stripped
<1>1. At(r, "delete_room") /\ Proceed(r) /\ exists' = FALSE /\ members' = {} /\ admins' = {} /\ invited' = {} /\ wraps' = {}
      /\ UNCHANGED <<epoch, pending, suspended, knows, exposed, lapses>>
  BY DEF DeleteRoom, hist
<1>2. Sound /\ req[r].todo # <<>> /\ Head(req[r].todo) = "delete_room"
  BY <1>1, StandsAt
<1>3. PICK op \in Ops : \E i \in 1..Len(Handler[op]) : Here(r, op, i) /\ Handler[op][i] = "delete_room"
  BY <1>1, StandsAt
<1>4. PICK i \in 1..Len(Handler[op]) : Here(r, op, i) /\ Handler[op][i] = "delete_room"
  BY <1>3
<1>5. op = "remove_room" /\ i = 3
  BY <1>4, Places DEF Place
<1>6. Asserts(op, i, req[r]) /\ req[r].by \notin suspended
  BY <1>4 DEF Here
<1>7. Sound'
  <2>1. RosterSound' /\ VersionsSound' /\ AdminRemains'
    BY <1>1, <1>2 DEF Sound, RosterSound, VersionsSound, AdminRemains
  <2>2. "failed" \notin lapses => KeysPlain'
    BY <1>1, <1>2 DEF KeysPlain, KeysSound, Sound
  <2> QED
    BY <1>1, <2>1, <2>2, PlainIsSound DEF Sound
<1>8. i = Len(Handler[op])
  BY <1>5, Lengths
<1>9. Stripped
  BY <1>1 DEF Stripped
<1> QED
  BY <1>1, <1>4, <1>7, <1>8, <1>9, Ending

LEMMA EvictTurn ==
  ASSUME Turn, NEW r \in Requests, EvictFromAllRooms(r)
  PROVE  TurnInv' /\ Stripped
<1>1. At(r, "evict_from_all_rooms") /\ Proceed(r) /\ wraps' = wraps \ WrapsOf(req[r].who)
      /\ members' = members \ {req[r].who} /\ admins' = admins \ {req[r].who}
      /\ invited' = invited \ {req[r].who} /\ pending' = (pending \/ req[r].who \in members)
      /\ lapses' = lapses \cup {"overruled"}
      /\ UNCHANGED <<exists, epoch, suspended, knows, exposed>>
  BY DEF EvictFromAllRooms, Met
<1>2. Sound /\ req[r].todo # <<>> /\ Head(req[r].todo) = "evict_from_all_rooms"
  BY <1>1, StandsAt
<1>3. PICK op \in Ops : \E i \in 1..Len(Handler[op]) : Here(r, op, i) /\ Handler[op][i] = "evict_from_all_rooms"
  BY <1>1, StandsAt
<1>4. PICK i \in 1..Len(Handler[op]) : Here(r, op, i) /\ Handler[op][i] = "evict_from_all_rooms"
  BY <1>3
<1>5. op = "evict" /\ i = 1
  BY <1>4, Places DEF Place
<1>6. Asserts(op, i, req[r]) /\ req[r].by \notin suspended
  BY <1>4 DEF Here
<1>7. \A w \in wraps' : w \in wraps /\ w[1] # req[r].who
  BY <1>1 DEF WrapsOf
<1>8. Stripped
  BY <1>1, <1>7 DEF Stripped
<1>9. Sound'
  <2>1. RosterSound' /\ VersionsSound'
    BY <1>1, <1>2, <1>7 DEF Sound, RosterSound, VersionsSound
  <2>2. "failed" \notin lapses => KeysPlain'
    <3> SUFFICES ASSUME "failed" \notin lapses PROVE KeysPlain'
      OBVIOUS
    <3>1. KeysPlain
      BY <1>2, PlainHere
    <3>2. \A w \in wraps' : w[1] \in members' \cup invited'
      BY <1>1, <1>7, <3>1 DEF KeysPlain
    <3>3. \A u \in Users \ members' : exists /\ <<u, epoch>> \in knows => pending'
      BY <1>1, <3>1 DEF KeysPlain
    <3> QED
      BY <1>1, <3>1, <3>2, <3>3 DEF KeysPlain
  <2>3. "failed" \notin lapses' => "failed" \notin lapses
    BY <1>1
  <2>4. "failed" \notin lapses' => KeysSound'
    BY <2>2, <2>3, PlainIsSound
  <2>5. "overruled" \notin lapses' => AdminRemains'
    BY <1>1
  <2> QED
    BY <2>1, <2>4, <2>5 DEF Sound
<1>10. ASSUME i # Len(Handler[op]) PROVE Asserts(op, i + 1, req[r])'
  <2>1. req'[r].by = req[r].by /\ req'[r].who = req[r].who
    BY <1>1, <1>4, <1>10, Proceeds
  <2> QED
    BY <1>1, <1>5, <2>1 DEF Asserts
<1> QED
  BY <1>1, <1>4, <1>6, <1>8, <1>9, <1>10, Moving

LEMMA SuspendTurn ==
  ASSUME Turn, NEW r \in Requests, Suspend(r)
  PROVE  TurnInv'
<1>1. At(r, "suspend") /\ Proceed(r) /\ suspended' = suspended \cup {req[r].who}
      /\ UNCHANGED <<exists, members, admins, invited, wraps, epoch, pending, knows, exposed, lapses>>
  BY DEF Suspend, hist
<1>2. Sound /\ req[r].todo # <<>> /\ Head(req[r].todo) = "suspend"
  BY <1>1, StandsAt
<1>3. PICK op \in Ops : \E i \in 1..Len(Handler[op]) : Here(r, op, i) /\ Handler[op][i] = "suspend"
  BY <1>1, StandsAt
<1>4. PICK i \in 1..Len(Handler[op]) : Here(r, op, i) /\ Handler[op][i] = "suspend"
  BY <1>3
<1>5. op = "evict" /\ i = 2
  BY <1>4, Places DEF Place
<1>6. Asserts(op, i, req[r]) /\ req[r].by \notin suspended
  BY <1>4 DEF Here
<1>7. Sound'
  <2>0. req[r].who \notin members
    BY <1>5, <1>6 DEF Asserts
  <2>1. RosterSound' /\ VersionsSound' /\ (AdminRemains => AdminRemains')
    BY <1>1, <1>2, <2>0 DEF Sound, RosterSound, VersionsSound, AdminRemains
  <2>2. "failed" \notin lapses => KeysPlain'
    <3>1. "failed" \notin lapses => KeysPlain
      BY <1>2, PlainHere
    <3> QED
      BY <1>1, <3>1 DEF KeysPlain
  <2> QED
    BY <1>1, <1>2, <2>1, <2>2, PlainIsSound DEF Sound
<1>8. i = Len(Handler[op])
  BY <1>5, Lengths
<1> QED
  BY <1>1, <1>4, <1>7, <1>8, Ending

LEMMA ReinstateTurn ==
  ASSUME Turn, NEW r \in Requests, Reinstate(r)
  PROVE  TurnInv'
<1>1. At(r, "reinstate") /\ Proceed(r) /\ suspended' = suspended \ {req[r].who}
      /\ UNCHANGED <<exists, members, admins, invited, wraps, epoch, pending, knows, exposed, lapses>>
  BY DEF Reinstate, hist
<1>2. Sound /\ req[r].todo # <<>> /\ Head(req[r].todo) = "reinstate"
  BY <1>1, StandsAt
<1>3. PICK op \in Ops : \E i \in 1..Len(Handler[op]) : Here(r, op, i) /\ Handler[op][i] = "reinstate"
  BY <1>1, StandsAt
<1>4. PICK i \in 1..Len(Handler[op]) : Here(r, op, i) /\ Handler[op][i] = "reinstate"
  BY <1>3
<1>5. op = "reinstate" /\ i = 1
  BY <1>4, Places DEF Place
<1>6. Asserts(op, i, req[r]) /\ req[r].by \notin suspended
  BY <1>4 DEF Here
<1>7. Sound'
  <2>1. RosterSound' /\ VersionsSound' /\ (AdminRemains => AdminRemains')
    BY <1>1, <1>2 DEF Sound, RosterSound, VersionsSound, AdminRemains
  <2>2. "failed" \notin lapses => KeysPlain'
    <3>1. "failed" \notin lapses => KeysPlain
      BY <1>2, PlainHere
    <3> QED
      BY <1>1, <3>1 DEF KeysPlain
  <2> QED
    BY <1>1, <1>2, <2>1, <2>2, PlainIsSound DEF Sound
<1>8. i = Len(Handler[op])
  BY <1>5, Lengths
<1> QED
  BY <1>1, <1>4, <1>7, <1>8, Ending

LEMMA FailTurn ==
  ASSUME Turn, NEW r \in Requests, Fail(r)
  PROVE  TurnInv'
<1>1. /\ req[r].todo # <<>> /\ Return(r) /\ lapses' = lapses \cup {"failed"}
      /\ UNCHANGED <<exists, members, admins, invited, wraps, epoch, pending, suspended, knows, exposed>>
  BY DEF Fail, Met, db
<1>2. Sound'
  <2>1. Sound
    BY <1>1, Standing
  <2>2. RosterSound' /\ VersionsSound' /\ (AdminRemains => AdminRemains')
    BY <1>1, <2>1 DEF Sound, RosterSound, VersionsSound, AdminRemains
  <2> QED
    BY <1>1, <2>1, <2>2 DEF Sound
<1> QED
  BY <1>1, <1>2, Returns, Resting

\* One step of one handler.
LEMMA StepTurn ==
  ASSUME Turn, NEW r \in Requests, Step(r)
  PROVE  TurnInv' /\ Stripped
<1>1. CASE Begin(r) \/ Check(r) \/ IsAdmin(r) \/ ListMembers(r) \/ Fail(r)
  <2>1. TurnInv'
    BY <1>1, BeginTurn, CheckTurn, IsAdminTurn, ListMembersTurn, FailTurn DEF Turn
  <2>2. members' = members
    BY <1>1 DEF Begin, Check, IsAdmin, ListMembers, Fail, db
  <2> QED
    BY <2>1, <2>2 DEF Stripped
<1>2. CASE CreateInvitation(r) \/ CreateLink(r) \/ RevokeLink(r) \/ Consume(r)
  <2>1. /\ req[r].todo # <<>>
        /\ Head(req[r].todo) \in {"create_invitation", "create_link", "revoke_link", "consume"}
        /\ Proceed(r) \/ Return(r)
        /\ UNCHANGED <<exists, members, admins, wraps, epoch, pending, suspended, knows, exposed, lapses>>
        /\ invited \subseteq invited'
    BY <1>2 DEF CreateInvitation, CreateLink, RevokeLink, Consume, At, hist
  <2> QED
    BY <2>1, QuietTurn DEF Stripped
<1>3. CASE RemoveAdmin(r) \/ AddAdmin(r) \/ DeleteUserKeys(r) \/ SetPending(r) \/ DeleteInvitation(r)
  <2>1. TurnInv'
    BY <1>3, RemoveAdminTurn, AddAdminTurn, DeleteUserKeysTurn, SetPendingTurn, DeleteInvitationTurn
  <2>2. members' = members
    BY <1>3 DEF RemoveAdmin, AddAdmin, DeleteUserKeys, SetPending, DeleteInvitation
  <2> QED
    BY <2>1, <2>2 DEF Stripped
<1>4. CASE StoreKey(r) \/ Rotate(r) \/ CreateMessage(r) \/ Suspend(r) \/ Reinstate(r)
  <2>1. TurnInv'
    BY <1>4, StoreKeyTurn, RotateTurn, CreateMessageTurn, SuspendTurn, ReinstateTurn
  <2>2. members' = members
    BY <1>4 DEF StoreKey, Rotate, CreateMessage, Suspend, Reinstate, db
  <2> QED
    BY <2>1, <2>2 DEF Stripped
<1>5. CASE RemoveMember(r) \/ AddMember(r) \/ DeleteRoom(r) \/ EvictFromAllRooms(r)
  BY <1>5, RemoveMemberTurn, AddMemberTurn, DeleteRoomTurn, EvictTurn
<1> QED
  BY <1>1, <1>2, <1>3, <1>4, <1>5 DEF Step

\* An overlap is never forgotten.
LEMMA OverlapStays ==
  ASSUME Next, "overlap" \in lapses
  PROVE  "overlap" \in lapses'
<1>1. ASSUME NEW l \in Links, Expire(l) PROVE lapses' = lapses
  BY <1>1 DEF Expire, hist
<1>2. ASSUME NEW r \in Requests, Step(r) PROVE lapses \subseteq lapses' \/ lapses' = Lapses
  <2>1. CASE Begin(r) \/ Check(r) \/ IsAdmin(r) \/ ListMembers(r) \/ Fail(r)
    BY <2>1 DEF Begin, Check, IsAdmin, ListMembers, Fail, Met, hist
  <2>2. CASE RemoveAdmin(r) \/ AddAdmin(r) \/ DeleteUserKeys(r) \/ RemoveMember(r)
             \/ SetPending(r) \/ CreateInvitation(r) \/ DeleteInvitation(r)
    BY <2>2 DEF RemoveAdmin, AddAdmin, DeleteUserKeys, RemoveMember, SetPending,
                CreateInvitation, DeleteInvitation, hist
  <2>3. CASE AddMember(r) \/ CreateLink(r) \/ RevokeLink(r) \/ Consume(r) \/ StoreKey(r)
    BY <2>3 DEF AddMember, CreateLink, RevokeLink, Consume, StoreKey, hist
  <2>4. CASE Rotate(r) \/ CreateMessage(r) \/ DeleteRoom(r) \/ EvictFromAllRooms(r) \/ Suspend(r) \/ Reinstate(r)
    BY <2>4 DEF Rotate, CreateMessage, DeleteRoom, EvictFromAllRooms, Suspend, Reinstate, Met, hist
  <2> QED
    BY <1>2, <2>1, <2>2, <2>3, <2>4 DEF Step
<1> QED
  BY <1>1, <1>2 DEF Next, Lapses

LEMMA TurnStep == TypeOK /\ TurnInv /\ [Next]_vars => TurnInv' /\ ["overlap" \notin lapses => Stripped]_vars
<1> SUFFICES ASSUME TypeOK, TurnInv, [Next]_vars
             PROVE  TurnInv' /\ ["overlap" \notin lapses => Stripped]_vars
  OBVIOUS
<1>1. CASE UNCHANGED vars
  <2>1. TurnInv'
    BY <1>1 DEF vars, TurnInv, Alone, Stands, Asserts, AnotherAdmin, WrapsOf, eligible, RosterSound,
        VersionsSound, KeysSound, Leaving, Declining, At, AdminRemains
  <2> QED
    BY <1>1, <2>1
<1>2. CASE Next /\ "overlap" \in lapses
  BY <1>2, OverlapStays DEF TurnInv
<1>3. ASSUME NEW l \in Links, Expire(l), "overlap" \notin lapses PROVE TurnInv' /\ Stripped
  <2>1. UNCHANGED <<exists, members, admins, invited, wraps, epoch, pending, suspended, req, knows, exposed, lapses>>
    BY <1>3 DEF Expire, hist
  <2>2. TurnInv'
    BY <2>1 DEF TurnInv, Alone, Stands, Asserts, AnotherAdmin, WrapsOf, eligible, RosterSound,
        VersionsSound, KeysSound, Leaving, Declining, At, AdminRemains
  <2> QED
    BY <2>1, <2>2 DEF Stripped
<1>4. ASSUME NEW r \in Requests, Step(r), "overlap" \notin lapses PROVE TurnInv' /\ Stripped
  BY <1>4, StepTurn DEF Turn
<1> QED
  BY <1>1, <1>2, <1>3, <1>4 DEF Next

LEMMA TurnInit == Init => TurnInv
<1> SUFFICES ASSUME Init PROVE TurnInv
  OBVIOUS
<1>1. \A r \in Requests : req[r].todo = <<>>
  BY DEF Init, Idle
<1>2. RosterSound /\ VersionsSound /\ KeysSound /\ AdminRemains
  BY DEF Init, RosterSound, VersionsSound, KeysSound, AdminRemains
<1> QED
  BY <1>1, <1>2 DEF TurnInv, Alone

-----------------------------------------------------------------------------
\* As long as handlers ran one after the other and none failed, nobody outside the
\* room can read what is sealed, whoever left with the current key forces a rotation
\* and no stranger has a wrap on file: for every set of wallets, handlers and epochs,
\* server admins who evict included.
THEOREM OutsidersAreKeptOut == Spec => []OutsidersStayOut
<1>1. TypeOK /\ TurnInv => OutsidersStayOut
  <2> SUFFICES ASSUME TypeOK, TurnInv, lapses \cap {"overlap", "failed"} = {}
               PROVE  NoLateReaders /\ DepartedForceRotation /\ NoStrangerHoldsWrap
    BY DEF OutsidersStayOut
  <2>1. KeysSound
    BY DEF TurnInv
  <2>2. Quiet => KeysPlain
    <3>1. DOMAIN req = Requests
      BY DEF TypeOK
    <3> QED
      BY <2>1, <3>1 DEF KeysSound, KeysPlain, Quiet, Leaving, Declining, At
  <2> QED
    BY <2>1, <2>2 DEF KeysSound, KeysPlain, NoLateReaders, DepartedForceRotation, NoStrangerHoldsWrap
<1> QED
  BY <1>1, TypeInit, TypeStep, TurnInit, TurnStep, PTL DEF Spec

\* As long as handlers ran one after the other and no server admin interfered, a room
\* that exists has an admin, wherever a handler failed.
THEOREM SomebodyStaysInCharge == Spec => []SomebodyInCharge
<1>1. TurnInv => SomebodyInCharge
  BY DEF TurnInv, SomebodyInCharge
<1> QED
  BY <1>1, TypeInit, TypeStep, TurnInit, TurnStep, PTL DEF Spec

\* As long as handlers ran one after the other, and wherever one failed, an evicted
\* wallet is in no roster until it is reinstated, and every admin is a member.
THEOREM EvictionsHold == Spec => []EvictedForGood
<1>1. TurnInv => EvictedForGood
  BY DEF TurnInv, EvictedForGood, RosterSound, EvictedStaysOut, AdminsAreMembers
<1> QED
  BY <1>1, TypeInit, TypeStep, TurnInit, TurnStep, PTL DEF Spec

\* As long as handlers ran one after the other, and wherever one failed, no step
\* removes a member whose wraps are still on file.
THEOREM LeaversHoldNoWrap == Spec => RemovedHoldNoWrap
<1>1. TypeOK /\ TurnInv /\ [Next]_vars
        => ["overlap" \notin lapses => \A u \in members \ members' : \A w \in wraps' : w[1] # u]_vars
  BY TurnStep DEF Stripped
<1> QED
  BY <1>1, TypeInit, TypeStep, TurnInit, TurnStep, PTL DEF Spec, RemovedHoldNoWrap
=============================================================================
