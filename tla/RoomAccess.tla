----------------------------- MODULE RoomAccess -----------------------------
(***************************************************************************)
(* Who may read a room: membership, admins, invitations, invite links,     *)
(* wrapped room keys and key epochs of ONE channel, with the HTTP handlers  *)
(* that change them running concurrently.                                  *)
(*                                                                         *)
(* The database is SQLite behind a pool of connections.  A statement, or a  *)
(* closure that opens a transaction, is atomic; a handler is a sequence of  *)
(* such statements, and the statements of different requests interleave.   *)
(* So a handler is modelled as the sequence of statements it executes       *)
(* (`todo`), and each kind of statement is one action.  A refused check     *)
(* ends the handler; so does a statement that errors (Fail), which leaves   *)
(* the earlier statements of that handler committed.                        *)
(*                                                                         *)
(* The room's own existence only ever goes from TRUE to FALSE, so of the    *)
(* several existence checks a handler makes only the last is a statement    *)
(* here: it passes only if the earlier ones did.                            *)
(***************************************************************************)
EXTENDS Naturals, Sequences, FiniteSets

CONSTANTS
    Users,        \* wallets with an account on the server
    Creator,      \* the wallet that created the room
    ServerAdmins, \* wallets named by VITE_FRUITNATION_ADMIN
    Requests,     \* request slots: how many handlers may be in flight at once
    Ops,          \* the handlers this instance exercises
    Links,        \* invite links that may be minted
    MaxUses,      \* max_uses of every minted link
    MaxAdmins,    \* MAX_ADMINS, 9 in the code
    MaxEpoch,     \* bound: rotations stop at this key version
    MayFail       \* whether a statement may fail and abort its handler

VARIABLES
    exists,       \* the rooms row
    members,      \* room_members
    admins,       \* room_admins
    invited,      \* room_invitations
    link,         \* room_invites
    wraps,        \* room_keys: <<user, key_version>>
    epoch,        \* rooms.current_key_version
    pending,      \* rooms.key_rotation_pending
    suspended,    \* the suspension set AuthUser consults
    req,          \* the requests in flight
    knows,        \* history: <<user, version>> wraps a member may have fetched
    seated,       \* history: users each link has seated
    exposed,      \* history: outsiders able to read a message when it was sealed
    lapses         \* history: what was met that some promises except, see Lapses

db   == <<exists, members, admins, invited, link, wraps, epoch, pending, suspended>>
hist == <<knows, seated, exposed, lapses>>
vars == <<exists, members, admins, invited, link, wraps, epoch, pending,
          suspended, req, knows, seated, exposed, lapses>>

ASSUME UsersAssumption ==
    /\ Creator \in Users
    /\ ServerAdmins \subseteq Users
    /\ IsFiniteSet(Users)
    /\ Links # {}
ASSUME BoundsAssumption ==
    /\ MaxUses \in Nat \ {0}
    /\ MaxAdmins \in Nat \ {0}
    /\ MaxEpoch \in Nat \ {0}
    /\ MayFail \in BOOLEAN

Epochs == 1..MaxEpoch

\* Handlers were in flight together, which no promise that excepts a lapse survives; one
\* was aborted by a statement that failed; a server admin who is not an admin of the room
\* acted on it, or evicted somebody.
Lapses == {"overlap", "failed", "overruled"}
Met(s, what) == lapses' = IF what THEN lapses \cup {s} ELSE lapses

-----------------------------------------------------------------------------
(***************************************************************************)
(* The handlers, as the statements they execute in order.                   *)
(***************************************************************************)

\* Faulty variants, for checking that the properties notice: leave without the
\* last-admin check, and leave that drops the membership row before the wraps.
leave_Unguarded == <<"caller_member", "exists", "is_admin", "remove_admin", "remove_admin",
                     "delete_user_keys", "remove_member", "set_pending">>
leave_WrapsLast == <<"caller_member", "exists", "is_admin", "admin_count", "remove_admin",
                     "remove_member", "delete_user_keys", "set_pending">>
leave == <<"caller_member", "exists", "is_admin", "admin_count", "remove_admin",
           "delete_user_keys", "remove_member", "set_pending">>
kick == <<"caller_admin", "exists", "target_member", "remove_admin",
          "delete_user_keys", "remove_member", "set_pending">>
add_admin == <<"caller_admin", "exists", "admin_room", "target_member",
               "target_not_admin", "add_admin">>
remove_admin == <<"caller_admin", "exists", "admin_count", "target_admin", "remove_admin">>
invite == <<"caller_room_admin", "exists", "target_not_member", "create_invitation">>
accept == <<"target_invited", "exists", "add_member", "delete_invitation">>
decline == <<"target_invited", "delete_invitation", "delete_user_keys">>
create_link == <<"caller_admin", "exists", "create_link">>
revoke_link == <<"exists", "caller_admin", "revoke_link">>
redeem == <<"link_live", "exists", "target_not_member", "consume", "seat",
            "has_encryption", "set_pending">>
store == <<"caller_belongs", "exists", "target_eligible", "store_authority",
           "key_absent", "store_key">>
rotate == <<"caller_member", "list_members", "rotate">>
send == <<"caller_member", "check_epoch", "create_message">>
remove_room == <<"exists", "caller_admin", "delete_room">>
evict == <<"evict_from_all_rooms", "suspend">>
reinstate == <<"reinstate">>

Handler == [leave |-> leave, kick |-> kick, add_admin |-> add_admin,
            remove_admin |-> remove_admin, invite |-> invite, accept |-> accept,
            decline |-> decline, create_link |-> create_link,
            revoke_link |-> revoke_link, redeem |-> redeem, store |-> store,
            rotate |-> rotate, send |-> send, remove_room |-> remove_room,
            evict |-> evict, reinstate |-> reinstate]

ASSUME OpsAssumption == Ops \subseteq DOMAIN Handler

\* Handlers whose body or path names any user, the caller included.
OnAnyone == {"add_admin", "remove_admin", "invite", "store", "reinstate"}

\* kick and evict refuse the caller as target, evict every server admin; the
\* remaining handlers act on the caller's own rows.
Targets(op, u) == CASE op \in OnAnyone -> Users
                    [] op = "kick"     -> Users \ {u}
                    [] op = "evict"    -> Users \ ({u} \cup ServerAdmins)
                    [] OTHER           -> {u}

\* Key versions a client can name: of an existing epoch to store or seal under,
\* of the epoch it proposes to install.
Versions(op) == CASE op \in {"store", "send"} -> 1..epoch
                  [] op = "rotate"            -> 2..MaxEpoch
                  [] OTHER                    -> {1}

LinksOf(op) == IF op \in {"create_link", "revoke_link", "redeem"} THEN Links
               ELSE {CHOOSE l \in Links : TRUE}

\* Statements that only read and end the handler unless they hold.
Checks == {"caller_member", "exists", "admin_count", "caller_admin", "target_member",
           "admin_room", "target_not_admin", "target_admin", "caller_room_admin",
           "target_not_member", "target_invited", "link_live", "has_encryption",
           "caller_belongs", "target_eligible", "store_authority", "key_absent",
           "check_epoch"}
Stmts == Checks \cup
         {"is_admin", "list_members", "remove_admin", "add_admin", "delete_user_keys",
          "remove_member", "set_pending", "create_invitation", "delete_invitation",
          "add_member", "seat", "create_link", "revoke_link", "consume", "store_key",
          "rotate", "create_message", "delete_room", "evict_from_all_rooms",
          "suspend", "reinstate"}

Idle == [todo |-> <<>>, by |-> Creator, who |-> Creator, ver |-> 1,
         seen |-> {}, lk |-> CHOOSE l \in Links : TRUE]

Request == [todo : Seq(Stmts), by : Users, who : Users, ver : Epochs,
            seen : SUBSET Users, lk : Links]
NoLink == [minted |-> FALSE, revoked |-> FALSE, expired |-> FALSE, uses |-> 0]
Minted == [minted |-> TRUE, revoked |-> FALSE, expired |-> FALSE, uses |-> 0]
Link == [minted : BOOLEAN, revoked : BOOLEAN, expired : BOOLEAN, uses : 0..MaxUses]

-----------------------------------------------------------------------------
\* create_room: the room, its first admin and its first member in one transaction.
Init ==
    /\ exists = TRUE
    /\ members = {Creator}
    /\ admins = {Creator}
    /\ invited = {}
    /\ link = [l \in Links |-> NoLink]
    /\ wraps = {}
    /\ epoch = 1
    /\ pending = FALSE
    /\ suspended = {}
    /\ req = [r \in Requests |-> Idle]
    /\ knows = {}
    /\ seated = [l \in Links |-> {}]
    /\ exposed = {}
    /\ lapses = {}

\* Another handler is in flight.
Busy(r) == \E p \in Requests \ {r} : req[p].todo # <<>>

\* Faulty variant: AuthUser does not consult the suspension set.
Begin_AnyCaller(r) ==
    /\ req[r].todo = <<>>
    /\ \E op \in Ops, u \in Users :
         /\ op \in {"evict", "reinstate"} => u \in ServerAdmins
         /\ \E w \in Targets(op, u), v \in Versions(op), l \in LinksOf(op) :
              req' = [req EXCEPT ![r] = [todo |-> Handler[op], by |-> u, who |-> w,
                                         ver |-> v, seen |-> {}, lk |-> l]]
    /\ lapses' = IF Busy(r) THEN Lapses ELSE lapses
    /\ UNCHANGED <<db, knows, seated, exposed>>

\* A request arrives: AuthUser refuses a suspended caller, ServerAdmin anybody
\* not configured as one; the body names a target, a version or a link.
Begin(r) ==
    /\ req[r].todo = <<>>
    /\ \E op \in Ops, u \in Users \ suspended :
         /\ op \in {"evict", "reinstate"} => u \in ServerAdmins
         /\ \E w \in Targets(op, u), v \in Versions(op), l \in LinksOf(op) :
              req' = [req EXCEPT ![r] = [todo |-> Handler[op], by |-> u, who |-> w,
                                         ver |-> v, seen |-> {}, lk |-> l]]
    /\ lapses' = IF Busy(r) THEN Lapses ELSE lapses
    /\ UNCHANGED <<db, knows, seated, exposed>>

At(r, s) == req[r].todo # <<>> /\ Head(req[r].todo) = s

\* The statement succeeded: on to the next one, or the handler returns.
Proceed(r) ==
    LET rest == Tail(req[r].todo) IN
    req' = [req EXCEPT ![r] = IF rest = <<>> THEN Idle
                              ELSE [req[r] EXCEPT !.todo = rest]]

\* The handler returns early.
Return(r) == req' = [req EXCEPT ![r] = Idle]

-----------------------------------------------------------------------------
(***************************************************************************)
(* Checks: statements that only read.                                       *)
(***************************************************************************)

is_server_admin(u) == u \in ServerAdmins
require_admin(u) == is_server_admin(u) \/ u \in admins
caller_belongs(u) == u \in members \/ u \in admins \/ u \in invited
eligible(u) == u \in members \/ u \in invited
\* The link's row (it goes with the room), neither revoked, expired nor used up.
live(l) == exists /\ link[l].minted /\ ~link[l].revoked /\ ~link[l].expired
           /\ link[l].uses < MaxUses
\* Faulty variant: the gate ignores the rotation flag.
check_epoch_Unflagged(v) == exists /\ v = epoch
check_epoch(v) == exists /\ ~pending /\ v = epoch

Holds(s, q) ==
    CASE s = "caller_member"     -> q.by \in members
      [] s = "exists"            -> exists
      [] s = "caller_admin"      -> require_admin(q.by)
      [] s = "caller_room_admin" -> q.by \in admins
      [] s = "admin_count"       -> Cardinality(admins) > 1
      [] s = "admin_room"        -> Cardinality(admins) < MaxAdmins
      [] s = "target_member"     -> q.who \in members
      [] s = "target_not_member" -> q.who \notin members
      [] s = "target_admin"      -> q.who \in admins
      [] s = "target_not_admin"  -> q.who \notin admins
      [] s = "target_invited"    -> q.who \in invited
      [] s = "link_live"         -> live(q.lk)
      [] s = "has_encryption"    -> wraps # {}
      [] s = "caller_belongs"    -> caller_belongs(q.by)
      [] s = "target_eligible"   -> eligible(q.who)
      [] s = "store_authority"   -> q.who = q.by \/ q.by \in admins
      [] s = "key_absent"        -> q.who = q.by \/ <<q.who, q.ver>> \notin wraps
      [] s = "check_epoch"       -> check_epoch(q.ver)
      [] OTHER                   -> FALSE

Check(r) ==
    /\ req[r].todo # <<>>
    /\ Head(req[r].todo) \in Checks
    /\ IF Holds(Head(req[r].todo), req[r]) THEN Proceed(r) ELSE Return(r)
    /\ Met("overruled", At(r, "caller_admin") /\ req[r].by \in ServerAdmins \ admins)
    /\ UNCHANGED <<db, knows, seated, exposed>>

\* leave's `if is_admin`: a plain member skips the count check and the demotion.
IsAdmin(r) ==
    /\ At(r, "is_admin")
    /\ IF req[r].by \in admins THEN Proceed(r)
       ELSE req' = [req EXCEPT ![r].todo = SubSeq(@, 4, Len(@))]
    /\ UNCHANGED <<db, hist>>

\* rotate's coverage checks pass exactly when the wraps submitted are for the
\* roster read here, so the roster is what the transaction will install.
ListMembers(r) ==
    /\ At(r, "list_members")
    /\ IF members = {} THEN Return(r)
       ELSE req' = [req EXCEPT ![r].todo = Tail(@), ![r].seen = members]
    /\ UNCHANGED <<db, hist>>

-----------------------------------------------------------------------------
(***************************************************************************)
(* Statements that write.  An INSERT into a table of a deleted room fails   *)
(* on its foreign key and the handler returns an error.                     *)
(***************************************************************************)

RemoveAdmin(r) ==
    /\ At(r, "remove_admin")
    /\ admins' = admins \ {req[r].who}
    /\ Proceed(r)
    /\ UNCHANGED <<exists, members, invited, link, wraps, epoch, pending, suspended, hist>>

AddAdmin(r) ==
    /\ At(r, "add_admin")
    /\ admins' = IF exists THEN admins \cup {req[r].who} ELSE admins
    /\ Proceed(r)
    /\ UNCHANGED <<exists, members, invited, link, wraps, epoch, pending, suspended, hist>>

WrapsOf(u) == {w \in wraps : w[1] = u}

DeleteUserKeys(r) ==
    /\ At(r, "delete_user_keys")
    /\ wraps' = wraps \ WrapsOf(req[r].who)
    /\ Proceed(r)
    /\ UNCHANGED <<exists, members, admins, invited, link, epoch, pending, suspended, hist>>

RemoveMember(r) ==
    /\ At(r, "remove_member")
    /\ members' = members \ {req[r].who}
    /\ Proceed(r)
    /\ UNCHANGED <<exists, admins, invited, link, wraps, epoch, pending, suspended, hist>>

SetPending(r) ==
    /\ At(r, "set_pending")
    /\ pending' = (exists \/ pending)
    /\ Proceed(r)
    /\ UNCHANGED <<exists, members, admins, invited, link, wraps, epoch, suspended, hist>>

CreateInvitation(r) ==
    /\ At(r, "create_invitation")
    /\ invited' = IF exists THEN invited \cup {req[r].who} ELSE invited
    /\ Proceed(r)
    /\ UNCHANGED <<exists, members, admins, link, wraps, epoch, pending, suspended, hist>>

DeleteInvitation(r) ==
    /\ At(r, "delete_invitation")
    /\ invited' = invited \ {req[r].who}
    /\ Proceed(r)
    /\ UNCHANGED <<exists, members, admins, link, wraps, epoch, pending, suspended, hist>>

\* Faulty variant: the membership row has no foreign key to its room.
AddMember_Orphans(r) ==
    /\ At(r, "add_member") \/ At(r, "seat")
    /\ members' = members \cup {req[r].who}
    /\ Proceed(r)
    /\ UNCHANGED <<exists, admins, invited, link, wraps, epoch, pending, suspended, hist>>

\* add_member, for accept and (after a link was spent) for redeem.
AddMember(r) ==
    /\ At(r, "add_member") \/ At(r, "seat")
    /\ IF ~exists THEN /\ Return(r)
                       /\ UNCHANGED <<members, hist>>
       ELSE /\ members' = members \cup {req[r].who}
            /\ seated' = IF At(r, "seat") THEN [seated EXCEPT ![req[r].lk] = @ \cup {req[r].who}]
                         ELSE seated
            /\ knows' = knows \cup WrapsOf(req[r].who)
            /\ UNCHANGED <<exposed, lapses>>
            /\ Proceed(r)
    /\ UNCHANGED <<exists, admins, invited, link, wraps, epoch, pending, suspended>>

CreateLink(r) ==
    /\ At(r, "create_link")
    /\ IF exists /\ ~link[req[r].lk].minted
       THEN link' = [link EXCEPT ![req[r].lk] = Minted]
       ELSE UNCHANGED link
    /\ Proceed(r)
    /\ UNCHANGED <<exists, members, admins, invited, wraps, epoch, pending, suspended, hist>>

RevokeLink(r) ==
    /\ At(r, "revoke_link")
    /\ link' = [link EXCEPT ![req[r].lk].revoked = @ \/ link[req[r].lk].minted]
    /\ Proceed(r)
    /\ UNCHANGED <<exists, members, admins, invited, wraps, epoch, pending, suspended, hist>>

\* Faulty variant: the increment trusts the check made when the link was read.
Consume_Unconditional(r) ==
    /\ At(r, "consume")
    /\ link' = [link EXCEPT ![req[r].lk].uses = @ + 1]
    /\ Proceed(r)
    /\ UNCHANGED <<exists, members, admins, invited, wraps, epoch, pending, suspended, hist>>

\* consume: the conditional UPDATE re-states every condition of a redeem.
Consume(r) ==
    /\ At(r, "consume")
    /\ IF live(req[r].lk)
       THEN /\ link' = [link EXCEPT ![req[r].lk].uses = @ + 1]
            /\ Proceed(r)
       ELSE /\ Return(r)
            /\ UNCHANGED link
    /\ UNCHANGED <<exists, members, admins, invited, wraps, epoch, pending, suspended, hist>>

StoreKey(r) ==
    /\ At(r, "store_key")
    /\ wraps' = IF exists THEN wraps \cup {<<req[r].who, req[r].ver>>} ELSE wraps
    /\ knows' = knows \cup {w \in wraps' : w[1] \in members}
    /\ Proceed(r)
    /\ UNCHANGED <<exists, members, admins, invited, link, epoch, pending, suspended, seated, exposed, lapses>>

\* Faulty variant: any version above the current one is accepted.
Rotate_AnyLater(r) ==
    /\ At(r, "rotate")
    /\ IF exists /\ req[r].ver > epoch
       THEN /\ wraps' = wraps \cup {<<u, req[r].ver>> : u \in req[r].seen}
            /\ epoch' = req[r].ver
            /\ pending' = FALSE
       ELSE UNCHANGED <<wraps, epoch, pending>>
    /\ Proceed(r)
    /\ UNCHANGED <<exists, members, admins, invited, link, suspended, hist>>

\* keys::rotate: the epoch check, the wraps and the new epoch in one transaction.
Rotate(r) ==
    /\ At(r, "rotate")
    /\ IF exists /\ req[r].ver = epoch + 1
       THEN /\ wraps' = wraps \cup {<<u, req[r].ver>> : u \in req[r].seen}
            /\ epoch' = req[r].ver
            /\ pending' = FALSE
            /\ knows' = knows \cup {<<u, req[r].ver>> : u \in (req[r].seen \cap members) \cup {req[r].by}}
       ELSE UNCHANGED <<wraps, epoch, pending, knows>>
    /\ Proceed(r)
    /\ UNCHANGED <<exists, members, admins, invited, link, suspended, seated, exposed, lapses>>

\* create_message of an encrypted message sealed under version `ver`.
CreateMessage(r) ==
    /\ At(r, "create_message")
    /\ exposed' = IF exists
                  THEN exposed \cup {u \in Users \ members : <<u, req[r].ver>> \in knows}
                  ELSE exposed
    /\ Proceed(r)
    /\ UNCHANGED <<db, knows, seated, lapses>>

\* DELETE FROM rooms, and every table hanging off it by ON DELETE CASCADE.
DeleteRoom(r) ==
    /\ At(r, "delete_room")
    /\ exists' = FALSE
    /\ members' = {}
    /\ admins' = {}
    /\ invited' = {}
    /\ wraps' = {}
    /\ Proceed(r)
    /\ UNCHANGED <<link, epoch, pending, suspended, hist>>

EvictFromAllRooms(r) ==
    /\ At(r, "evict_from_all_rooms")
    /\ wraps' = wraps \ WrapsOf(req[r].who)
    /\ members' = members \ {req[r].who}
    /\ admins' = admins \ {req[r].who}
    /\ invited' = invited \ {req[r].who}
    /\ pending' = (pending \/ req[r].who \in members)
    /\ Proceed(r)
    /\ Met("overruled", TRUE)
    /\ UNCHANGED <<exists, link, epoch, suspended, knows, seated, exposed>>

Suspend(r) ==
    /\ At(r, "suspend")
    /\ suspended' = suspended \cup {req[r].who}
    /\ Proceed(r)
    /\ UNCHANGED <<exists, members, admins, invited, link, wraps, epoch, pending, hist>>

Reinstate(r) ==
    /\ At(r, "reinstate")
    /\ suspended' = suspended \ {req[r].who}
    /\ Proceed(r)
    /\ UNCHANGED <<exists, members, admins, invited, link, wraps, epoch, pending, hist>>

-----------------------------------------------------------------------------
\* A statement errors (a busy database, a crash, a dropped connection): the
\* handler returns and what it already committed stays.
Fail(r) ==
    /\ MayFail
    /\ req[r].todo # <<>>
    /\ Return(r)
    /\ Met("failed", TRUE)
    /\ UNCHANGED <<db, knows, seated, exposed>>

\* expires_at passes.
Expire(l) ==
    /\ link[l].minted /\ ~link[l].expired
    /\ link' = [link EXCEPT ![l].expired = TRUE]
    /\ UNCHANGED <<exists, members, admins, invited, wraps, epoch, pending, suspended, req, hist>>

Step(r) ==
    \/ Begin(r) \/ Check(r) \/ IsAdmin(r) \/ ListMembers(r) \/ RemoveAdmin(r)
    \/ AddAdmin(r) \/ DeleteUserKeys(r) \/ RemoveMember(r) \/ SetPending(r)
    \/ CreateInvitation(r) \/ DeleteInvitation(r) \/ AddMember(r) \/ CreateLink(r)
    \/ RevokeLink(r) \/ Consume(r) \/ StoreKey(r) \/ Rotate(r) \/ CreateMessage(r)
    \/ DeleteRoom(r) \/ EvictFromAllRooms(r) \/ Suspend(r) \/ Reinstate(r) \/ Fail(r)

Next == (\E r \in Requests : Step(r)) \/ (\E l \in Links : Expire(l))

Spec == Init /\ [][Next]_vars

-----------------------------------------------------------------------------
(***************************************************************************)
(* Properties.                                                              *)
(***************************************************************************)

\* Every variable stays in its column's domain, and a request's remaining
\* statements are statements some handler executes.
TypeOK ==
    /\ exists \in BOOLEAN /\ pending \in BOOLEAN
    /\ members \subseteq Users /\ admins \subseteq Users /\ invited \subseteq Users
    /\ link \in [Links -> Link]
    /\ wraps \subseteq Users \X Epochs /\ knows \subseteq Users \X Epochs
    /\ epoch \in Epochs
    /\ suspended \subseteq Users /\ exposed \subseteq Users
    /\ req \in [Requests -> Request]
    /\ seated \in [Links -> SUBSET Users]
    /\ lapses \subseteq Lapses

Quiet == \A r \in DOMAIN req : req[r].todo = <<>>

\* Nobody outside the room can read a message sealed after they were outside:
\* what check_epoch and the rotation flag are for (routes/messages.rs, "accepting
\* ciphertext under it would let them read messages sent after they left").
NoLateReaders == exposed = {}

\* Between requests, a user outside the room who may hold the key of the current
\* epoch forces a rotation: leave, kick and evict raise key_rotation_pending and
\* only a rotation to an epoch they never had clears it.
DepartedForceRotation ==
    Quiet /\ exists => \A u \in Users \ members : <<u, epoch>> \in knows => pending

\* Between requests only members and invitees hold wraps: leave, kick, evict and
\* decline strip every epoch's wrap, store refuses anybody else.
NoStrangerHoldsWrap == Quiet => \A w \in wraps : w[1] \in members \cup invited

\* As long as handlers ran one after the other and none failed, outsiders stay out:
\* nobody outside can read what is sealed, who may still hold the key forces a
\* rotation, and only members and invitees have a wrap on file (check_epoch, leave,
\* kick, decline, store, rotate, evict).
OutsidersStayOut ==
    lapses \cap {"overlap", "failed"} = {} => NoLateReaders /\ DepartedForceRotation /\ NoStrangerHoldsWrap

\* A room that exists has an admin (remove_admin: "Room must have at least one
\* admin"; kick: not kicking oneself "keeps at least one admin in every room").
AdminRemains == exists => admins # {}

\* Every admin is a member: add_admin demands it, leave and kick demote first.
AdminsAreMembers == admins \subseteq members

\* As long as handlers ran one after the other and no server admin interfered, the
\* room keeps an admin wherever a handler stops.
SomebodyInCharge == lapses \cap {"overlap", "overruled"} = {} => AdminRemains

\* Somebody removed from the server stays out of the room until reinstated
\* (routes/admin.rs evict, "out of every room, and suspended so they cannot walk
\* back in").
EvictedStaysOut == Quiet => suspended \cap (members \cup admins) = {}

\* As long as handlers ran one after the other, and wherever one stops, an evicted
\* wallet is in no roster until it is reinstated, and who left the roster is no admin.
EvictedForGood == "overlap" \notin lapses => EvictedStaysOut /\ AdminsAreMembers

\* As long as handlers ran one after the other, nobody is removed with a wrap still on
\* file, wherever the handler that removes them stops (leave: "a failure between the two
\* leaves a member with no key rather than a non-member holding one").
RemovedHoldNoWrap ==
    []["overlap" \notin lapses => \A u \in members \ members' : \A w \in wraps' : w[1] # u]_vars

\* A link never seats more wallets than its max_uses, however many redeems race,
\* and every seat it gave was paid for with a use (db/invites.rs consume).
LinkBudget ==
    \A l \in Links : Cardinality(seated[l]) <= link[l].uses /\ link[l].uses <= MaxUses

\* Deleting a room leaves nothing of it behind, whatever was in flight: later
\* inserts of other handlers fail on their foreign keys (db/rooms.rs delete_room).
DeadRoomIsEmpty ==
    ~exists => members = {} /\ admins = {} /\ invited = {} /\ wraps = {}

\* The epoch only ever moves one step, by a rotation whose whole roster has its
\* wrap of the new epoch in the same step (keys::rotate: two racing rotations
\* "must not both succeed").
EpochMovesWhole ==
    [][epoch' # epoch =>
         /\ epoch' = epoch + 1
         /\ \E r \in Requests : /\ At(r, "rotate") /\ req[r].seen # {}
                                /\ \A u \in req[r].seen : <<u, epoch'>> \in wraps']_vars

\* A rotation hands the new epoch to members only (routes/keys.rs rotate, "No
\* strays: wrapping to a non-member would hand the new epoch to somebody the room
\* never admitted").
RotationHasNoStrays ==
    [][epoch' # epoch => \A w \in wraps' : w[2] = epoch' => w[1] \in members \cup invited]_vars
=============================================================================
