--------------------------- MODULE AccountsProofs ---------------------------
(***************************************************************************)
(* What holds of Accounts for any number of wallets, administrators'        *)
(* requests, callers, challenges and tickets; and of SignIn, the tab that    *)
(* asks, for any number of accounts, requests on their way and page loads;    *)
(* and of RateLimit, for any limit, window, addresses and requests at once.   *)
(***************************************************************************)
EXTENDS Accounts, SignIn, RateLimit, FiniteSetTheorems, TLAPS

Sanctions == {"suspend", "reinstate", "evict"}

AdminRequest == [op : Sanctions \cup {NoWallet}, who : Wallets \cup {NoWallet},
                 step : {"free", "read", "write"}, rows : SUBSET Wallets, older : SUBSET AdminCalls]
Pass == [kind : {"challenge", "ticket", NoWallet}, who : Wallets \cup {NoWallet},
         state : {"unissued", "open", "stale", "gone"}]
Call == [op : {"challenge", "ticket", "put_key", NoWallet}, who : Wallets \cup {NoWallet},
         step : {"free", "checked", "admitted"}]
Account == [row : BOOLEAN, key : Nat, sig : Nat]

\* Every variable in its domain.
AccTypeOK ==
    /\ suspended \subseteq Wallets /\ cache \subseteq Wallets
    /\ admin \in [AdminCalls -> AdminRequest] /\ pass \in [Passes -> Pass]
    /\ call \in [Callers -> Call] /\ users \in [Wallets -> Account]
    /\ salt \in [Wallets -> Nat] /\ drawn \in Nat
    /\ told \in [Wallets -> SUBSET Nat] /\ spent \in [Passes -> Nat]
    /\ drift \subseteq {"crossed", "failed"}

\* Whoever is in flight, the cache is right or somebody will put it right: a refresh
\* that is still to read, or the one that read last, whose rows are the table's and
\* which will not write before the others that wait to write.
Repairing ==
    drift = {} /\ (\A a \in AdminCalls : admin[a].step # "read") =>
        IF Writing = {} THEN cache = suspended
        ELSE \E w \in Writing : admin[w].rows = suspended /\ admin[w].older = Writing \ {w}

\* A challenge or ticket that let somebody in is gone, and a wallet without a salt was
\* told none.
PassesAccounted == \A p \in Passes : spent[p] <= 1 /\ (pass[p].state # "gone" => spent[p] = 0)
IdentitySound ==
    \A w \in Wallets : told[w] \subseteq {salt[w]} \ {0} /\ users[w].sig = users[w].key

-----------------------------------------------------------------------------
LEMMA AccTypeInit == AccInit => AccTypeOK
BY DEF AccInit, AccTypeOK, Resting, NoCall, NoWallet, Sanctions, AdminRequest, Pass, Call, Account

\* Well-typedness is preserved by every step of every request.
LEMMA AccTypeStep == AccTypeOK /\ [AccNext]_accVars => AccTypeOK'
<1> SUFFICES ASSUME AccTypeOK, [AccNext]_accVars PROVE AccTypeOK'
  OBVIOUS
<1> USE DEF AccTypeOK
<1>r. Resting \in AdminRequest /\ NoCall \in Call
  BY DEF Resting, AdminRequest, NoCall, Call
<1>0. CASE UNCHANGED accVars
  BY <1>0 DEF accVars
<1>1. ASSUME NEW a \in AdminCalls, NEW op \in Sanctions, NEW w \in Wallets, Sanction(a, op, w)
      PROVE  AccTypeOK'
  <2>1. [op |-> op, who |-> w, step |-> "read", rows |-> {}, older |-> {}] \in AdminRequest
    BY DEF AdminRequest
  <2>2. [users[w] EXCEPT !.key = 0, !.sig = 0] \in Account
    BY DEF Account
  <2> QED
    BY <1>1, <2>1, <2>2 DEF Sanction
<1>2. ASSUME NEW a \in AdminCalls, ReadSuspended(a) PROVE AccTypeOK'
  <2>1. [admin[a] EXCEPT !.step = "write", !.rows = suspended, !.older = Writing] \in AdminRequest
    <3>1. Writing \in SUBSET AdminCalls
      BY DEF Writing
    <3>2. admin[a] \in AdminRequest /\ suspended \in SUBSET Wallets
      OBVIOUS
    <3> QED
      BY <3>1, <3>2 DEF AdminRequest
  <2> QED
    BY <1>2, <2>1, <1>r, ZenonT(60) DEF ReadSuspended
<1>3. ASSUME NEW a \in AdminCalls, WriteCache(a) PROVE AccTypeOK'
  <2>1. \A b \in AdminCalls : [admin[b] EXCEPT !.older = @ \ {a}] \in AdminRequest
    BY DEF AdminRequest
  <2>2. admin[a].rows \subseteq Wallets
    BY DEF AdminRequest
  <2> QED
    BY <1>3, <2>1, <2>2, <1>r DEF WriteCache
<1>4. CASE Restart
  <2>1. \A p \in Passes : [pass[p] EXCEPT !.state = "gone"] \in Pass
    BY DEF Pass
  <2> QED
    BY <1>4, <2>1, <1>r DEF Restart
<1>5. ASSUME NEW p \in Passes, NEW kind \in {"challenge", "ticket"}, NEW w \in Wallets, Issue(p, kind, w)
      PROVE  AccTypeOK'
  BY <1>5 DEF Issue, Pass
<1>6. ASSUME NEW p \in Passes, Expire(p) PROVE AccTypeOK'
  <2>1. [pass[p] EXCEPT !.state = "stale"] \in Pass
    BY DEF Pass
  <2> QED
    BY <1>6, <2>1 DEF Expire
<1>7. ASSUME NEW c \in Callers, NEW p \in Passes, Consume(c, p) PROVE AccTypeOK'
  <2>1. [pass[p] EXCEPT !.state = "gone"] \in Pass
    BY DEF Pass
  <2>2. [op |-> pass[p].kind, who |-> pass[p].who, step |-> "checked"] \in Call
    BY DEF Pass, Call
  <2>3. pass' \in [Passes -> Pass] /\ spent' \in [Passes -> Nat]
    BY <1>7, <2>1 DEF Consume
  <2>4. call' \in [Callers -> Call]
    BY <1>7, <2>2 DEF Consume
  <2> QED
    BY <1>7, <2>3, <2>4 DEF Consume
<1>8. ASSUME NEW c \in Callers, NEW w \in Wallets, PutKey(c, w) PROVE AccTypeOK'
  BY <1>8 DEF PutKey, Call
<1>9. ASSUME NEW c \in Callers, Gate(c) PROVE AccTypeOK'
  <2>1. [call[c] EXCEPT !.step = "admitted"] \in Call
    BY DEF Call
  <2> QED
    BY <1>9, <2>1, <1>r DEF Gate
<1>10. ASSUME NEW c \in Callers, Act(c) PROVE AccTypeOK'
  <2>1. drawn' \in Nat /\ call' \in [Callers -> Call]
    BY <1>10, <1>r DEF Act
  <2>2. CASE call[c].op = "put_key"
    <3> DEFINE k == drawn + 1
    <3>0. k \in Nat
      OBVIOUS
    <3> HIDE DEF k
    <3>1. \A w \in Wallets : [users[w] EXCEPT !.key = k, !.sig = k] \in Account
      BY <3>0 DEF Account
    <3>2. users' \in [Wallets -> Account]
      <4>1. users' = [users EXCEPT ![call[c].who].key = k, ![call[c].who].sig = k]
        BY <1>10, <2>2 DEF Act, set_encryption_key, k
      <4>2. \A w \in Wallets : users'[w] = IF w = call[c].who THEN [users[w] EXCEPT !.key = k, !.sig = k]
                                                             ELSE users[w]
        BY <4>1
      <4> QED
        BY <3>1, <4>1, <4>2
    <3> QED
      BY <1>10, <2>1, <2>2, <3>2 DEF Act
  <2>3. CASE call[c].op # "put_key"
    <3>1. users' \in [Wallets -> Account]
      <4>1. PICK key \in {0, drawn + 1} : upsert_user(call[c].who, key)
        BY <1>10, <2>3 DEF Act
      <4>2. \A w \in Wallets : [users[w] EXCEPT !.row = TRUE] \in Account
        BY DEF Account
      <4>3. [row |-> TRUE, key |-> key, sig |-> key] \in Account
        BY DEF Account
      <4> QED
        BY <4>1, <4>2, <4>3 DEF upsert_user
    <3>2. salt' \in [Wallets -> Nat]
      BY <1>10, <2>3 DEF Act, get_or_create_salt
    <3>3. told' \in [Wallets -> SUBSET Nat]
      BY <1>10, <2>3, <3>2 DEF Act, get_or_create_salt
    <3> QED
      BY <1>10, <2>1, <3>1, <3>2, <3>3 DEF Act
  <2> QED
    BY <2>2, <2>3
<1> QED
  BY <1>0, <1>1, <1>2, <1>3, <1>4, <1>5, <1>6, <1>7, <1>8, <1>9, <1>10 DEF AccNext, Sanctions

\* Every reachable state of the accounts, their requests and the administrators' is
\* well typed.
THEOREM AccountsTypeCorrect == AccSpec => []AccTypeOK
BY AccTypeInit, AccTypeStep, PTL DEF AccSpec

-----------------------------------------------------------------------------
\* Requests of accounts touch neither the table nor the cache nor the refreshes.
LEMMA AccountsLeaveSuspensions ==
  ASSUME [AccNext]_accVars,
         \A a \in AdminCalls, op \in Sanctions, w \in Wallets : ~Sanction(a, op, w),
         \A a \in AdminCalls : ~ReadSuspended(a) /\ ~WriteCache(a),
         ~Restart
  PROVE  UNCHANGED <<suspended, cache, admin, drift>>
BY DEF AccNext, accVars, Sanctions, Issue, Expire, Consume, PutKey, Gate, Act

\* The cache is right, or a refresh in flight is bound to put it right.
LEMMA RepairStep == AccTypeOK /\ Repairing /\ [AccNext]_accVars => Repairing'
<1> SUFFICES ASSUME AccTypeOK, Repairing, [AccNext]_accVars PROVE Repairing'
  OBVIOUS
<1>1. ASSUME NEW a \in AdminCalls, NEW op \in Sanctions, NEW w \in Wallets, Sanction(a, op, w)
      PROVE  Repairing'
  <2>1. admin'[a].step = "read"
    BY <1>1 DEF Sanction, AccTypeOK
  <2> QED
    BY <2>1 DEF Repairing
<1>2. ASSUME NEW a \in AdminCalls, ReadSuspended(a) PROVE Repairing'
  <2>1. CASE drift' = drift \cup {"failed"}
    BY <2>1 DEF Repairing
  <2>2. CASE admin' = [admin EXCEPT ![a].step = "write", ![a].rows = suspended, ![a].older = Writing]
    <3>1. a \notin Writing /\ Writing' = Writing \cup {a}
      BY <1>2, <2>2 DEF ReadSuspended, Writing, AccTypeOK
    <3>2. admin'[a].rows = suspended' /\ admin'[a].older = Writing' \ {a}
      BY <1>2, <2>2, <3>1 DEF ReadSuspended, AccTypeOK
    <3> QED
      BY <3>1, <3>2 DEF Repairing
  <2> QED
    BY <1>2, <2>1, <2>2 DEF ReadSuspended
<1>3. ASSUME NEW a \in AdminCalls, WriteCache(a) PROVE Repairing'
  <2> SUFFICES ASSUME drift' = {}, \A b \in AdminCalls : admin'[b].step # "read"
               PROVE  IF Writing' = {} THEN cache' = suspended'
                      ELSE \E w \in Writing' : admin'[w].rows = suspended' /\ admin'[w].older = Writing' \ {w}
    BY DEF Repairing
  <2>1. drift = {} /\ admin[a].older = {}
    BY <1>3 DEF WriteCache
  <2>2. \A b \in AdminCalls \ {a} : /\ admin'[b].step = admin[b].step /\ admin'[b].rows = admin[b].rows
                                    /\ admin'[b].older = admin[b].older \ {a}
    BY <1>3 DEF WriteCache, AccTypeOK, AdminRequest
  <2>3. \A b \in AdminCalls : admin[b].step # "read"
    BY <1>3, <2>2 DEF WriteCache
  <2>4. a \in Writing /\ Writing' = Writing \ {a}
    BY <1>3, <2>2 DEF WriteCache, Writing, Resting
  <2>5. PICK w \in Writing : admin[w].rows = suspended /\ admin[w].older = Writing \ {w}
    BY <2>1, <2>3, <2>4 DEF Repairing
  <2>6. CASE w = a
    <3>1. Writing' = {}
      BY <2>1, <2>4, <2>5, <2>6
    <3> QED
      BY <1>3, <2>5, <2>6, <3>1 DEF WriteCache
  <2>7. CASE w # a
    <3>1. w \in Writing' /\ w \in AdminCalls \ {a}
      BY <2>4, <2>7 DEF Writing
    <3>2. admin'[w].rows = suspended' /\ admin'[w].older = Writing' \ {w}
      BY <1>3, <2>2, <2>4, <2>5, <3>1 DEF WriteCache
    <3> QED
      BY <3>1, <3>2
  <2> QED
    BY <2>6, <2>7
<1>4. CASE Restart
  <2>1. Writing' = {} /\ cache' = suspended'
    BY <1>4 DEF Restart, Writing, Resting
  <2> QED
    BY <2>1 DEF Repairing
<1>5. CASE UNCHANGED <<suspended, cache, admin, drift>>
  BY <1>5 DEF Repairing, Writing
<1> QED
  BY <1>1, <1>2, <1>3, <1>4, <1>5, AccountsLeaveSuspensions

\* Once no administrator's request is half way, the cached set of suspended accounts is
\* the table (AppState::refresh_suspensions), for any number of administrators at once,
\* as long as the refreshes wrote in the order they read and none failed.
THEOREM SuspensionsHold == AccSpec => []SuspensionHolds
<1>1. AccInit => Repairing
  BY DEF AccInit, Repairing, Writing, Resting
<1>2. AccTypeOK /\ Repairing => SuspensionHolds
  BY DEF AccTypeOK, Repairing, SuspensionHolds, Writing
<1> QED
  BY <1>1, <1>2, RepairStep, AccountsTypeCorrect, PTL DEF AccSpec

-----------------------------------------------------------------------------
\* A challenge or a ticket is taken out before it is looked at: it counts once.
LEMMA PassesStep == AccTypeOK /\ PassesAccounted /\ [AccNext]_accVars => PassesAccounted'
<1> SUFFICES ASSUME AccTypeOK, PassesAccounted, [AccNext]_accVars PROVE PassesAccounted'
  OBVIOUS
<1> USE DEF AccTypeOK, PassesAccounted
<1>1. CASE Restart
  BY <1>1 DEF Restart
<1>2. ASSUME NEW p \in Passes, NEW kind \in {"challenge", "ticket"}, NEW w \in Wallets, Issue(p, kind, w)
      PROVE  PassesAccounted'
  BY <1>2 DEF Issue
<1>3. ASSUME NEW p \in Passes, Expire(p) PROVE PassesAccounted'
  BY <1>3 DEF Expire
<1>4. ASSUME NEW c \in Callers, NEW p \in Passes, Consume(c, p) PROVE PassesAccounted'
  <2>1. spent[p] = 0
    BY <1>4 DEF Consume
  <2> QED
    BY <1>4, <2>1 DEF Consume
<1>5. CASE UNCHANGED <<pass, spent>>
  BY <1>5
<1> QED
  BY <1>1, <1>2, <1>3, <1>4, <1>5
  DEF AccNext, accVars, Sanction, ReadSuspended, WriteCache, PutKey, Gate, Act

\* A salt once handed out never changes, and key and signature are written as a pair.
LEMMA IdentityStep == AccTypeOK /\ IdentitySound /\ [AccNext]_accVars => IdentitySound'
<1> SUFFICES ASSUME AccTypeOK, IdentitySound, [AccNext]_accVars PROVE IdentitySound'
  OBVIOUS
<1> USE DEF AccTypeOK, IdentitySound
<1>1. ASSUME NEW a \in AdminCalls, NEW op \in Sanctions, NEW w \in Wallets, Sanction(a, op, w)
      PROVE  IdentitySound'
  BY <1>1 DEF Sanction
<1>2. ASSUME NEW c \in Callers, Act(c) PROVE IdentitySound'
  <2>1. \A w \in Wallets : users'[w].sig = users'[w].key
    <3>1. CASE call[c].op = "put_key"
      <4>1. users' = [users EXCEPT ![call[c].who].key = drawn + 1, ![call[c].who].sig = drawn + 1]
        BY <1>2, <3>1 DEF Act, set_encryption_key
      <4> QED
        BY <4>1 DEF Account
    <3>2. CASE call[c].op # "put_key"
      <4>1. PICK key \in {0, drawn + 1} : upsert_user(call[c].who, key)
        BY <1>2, <3>2 DEF Act
      <4> QED
        BY <4>1 DEF upsert_user, Account
    <3> QED
      BY <3>1, <3>2
  <2>2. ASSUME NEW w \in Wallets PROVE told'[w] \subseteq {salt'[w]} \ {0}
    <3>1. CASE told'[w] = told[w] /\ salt'[w] = salt[w]
      BY <3>1
    <3>2. CASE call[c].op # "put_key" /\ w = call[c].who
      <4>1. salt'[w] = IF salt[w] = 0 THEN drawn + 1 ELSE salt[w]
        BY <1>2, <3>2 DEF Act, get_or_create_salt
      <4>2. told'[w] = told[w] \cup {salt'[w]}
        BY <1>2, <3>2 DEF Act, get_or_create_salt
      <4>3. salt'[w] # 0
        BY <4>1
      <4>4. CASE salt[w] = 0
        BY <4>2, <4>3, <4>4
      <4>5. CASE salt[w] # 0
        BY <4>1, <4>2, <4>5
      <4> QED
        BY <4>4, <4>5
    <3> QED
      BY <1>2, <3>1, <3>2 DEF Act, get_or_create_salt
  <2> QED
    BY <2>1, <2>2
<1>3. CASE UNCHANGED <<users, salt, told>>
  BY <1>3
<1> QED
  BY <1>1, <1>2, <1>3
  DEF AccNext, Sanctions, accVars, ReadSuspended, WriteCache, Restart, Issue, Expire, Consume, PutKey, Gate

\* A challenge or ticket lets at most one request in, concurrent first sign-ins agree on
\* one salt, and a published key carries its own signature (consume_challenge,
\* TicketStore::consume, get_or_create_salt, upsert_user), for any number of callers.
THEOREM SignInsAreSound == AccSpec => []SignInsSound
<1>1. AccInit => PassesAccounted /\ IdentitySound
  BY DEF AccInit, PassesAccounted, IdentitySound
<1>2. PassesAccounted /\ IdentitySound => SignInsSound
  BY DEF PassesAccounted, IdentitySound, SignInsSound
<1> QED
  BY <1>1, <1>2, PassesStep, IdentityStep, AccountsTypeCorrect, PTL DEF AccSpec

-----------------------------------------------------------------------------
(***************************************************************************)
(* Who a tab is signed in as.                                               *)
(***************************************************************************)
Kinds == {"auto", "silent", "submit", "tss", "wallet"}
Login == [shown : BOOLEAN, fresh : BOOLEAN, cred : Accounts \cup {Nobody}, busy : BOOLEAN,
          booting : Sessions \cup {None}, choice : Backends, auto : BOOLEAN]
SignInRequest == [kind : Kinds \cup {"none"}, session : Sessions \cup {None}, keep : BOOLEAN,
                  mounted : BOOLEAN, left : BOOLEAN]

\* Every variable in its domain; out is Out, and whoever is in has a session.
TabTyped ==
    /\ stored \in Sessions \cup {None} /\ vault \in Accounts \cup {Nobody} /\ kept \in Backends
    /\ cached \in Accounts \cup {Nobody} /\ rooms \in Accounts \cup {Nobody}
    /\ auth \in [state : {"out", "locked", "unlocked"}, session : Sessions \cup {None}]
    /\ auth.session = None <=> auth.state = "out"
    /\ pending_boot \in Sessions \cup {None}
    /\ form \in Login /\ flight \in [Flights -> SignInRequest]

\* The login screen waits for one request at most, and for none once it has been answered;
\* it is there whenever nobody is signed in.
ScreenSound ==
    /\ client = kept
    /\ auth.state = "out" => form.shown
    /\ form.fresh => ~form.busy /\ form.booting = None
    /\ \A f \in Flights : flight[f].mounted =>
         flight[f].kind \notin {"none", "silent"} /\ form.shown /\ form.busy /\ form.booting = None
    /\ \A f, g \in Flights : flight[f].mounted /\ flight[g].mounted => f = g

\* A request whose session was not dropped on the way.
Wanted(f) == flight[f].kind # "none" /\ ~flight[f].left

\* Nobody is signed in: nothing of an earlier account is there, and the only request
\* wanted is the one the login screen waits for.
NobodyIn ==
    auth.state = "out" =>
        /\ rooms = Nobody /\ pending_boot = None /\ stored = form.booting
        /\ "switched" \notin slips => cached = Nobody
        /\ \A f \in Flights : Wanted(f) => flight[f].mounted /\ flight[f].kind # "auto"

\* Somebody is: the session is the stored one, and every request wanted is for it.
SomebodyIn ==
    auth.state # "out" =>
        /\ auth.session = stored /\ rooms \in {Nobody, auth.session.who}
        /\ "switched" \notin slips => cached \in {Nobody, auth.session.who}
        /\ pending_boot \in {None, auth.session}
        /\ \A f \in Flights : Wanted(f) => flight[f].session = auth.session

\* What is stored, and what is asked for, is of the chosen backend.
BackendSound ==
    /\ stored # None => stored.on = kept
    /\ form.booting # None => form.booting = stored
    /\ \A f \in Flights : Wanted(f) => flight[f].session \in Sessions /\ flight[f].session.on = kept

TabInv ==
    /\ TabTyped /\ ScreenSound
    /\ "late" \notin slips => NobodyIn /\ SomebodyIn /\ BackendSound

-----------------------------------------------------------------------------
(***************************************************************************)
(* What sessions, requests and the login screen are made of.                *)
(***************************************************************************)
LEMMA SessionFields ==
  /\ None \notin Sessions /\ None.who = Nobody
  /\ \A a \in Accounts, b \in Backends :
       [who |-> a, on |-> b] \in Sessions /\ [who |-> a, on |-> b].who = a /\ [who |-> a, on |-> b].on = b
  /\ \A s \in Sessions : s.who \in Accounts /\ s.who # Nobody /\ s.on \in Backends /\ s = [who |-> s.who, on |-> s.on]
BY SignInAssumption DEF None, Sessions

LEMMA GroundedFields ==
  /\ Grounded \in SignInRequest /\ Grounded.kind = "none" /\ Grounded.mounted = FALSE /\ Grounded.left = FALSE
BY DEF Grounded, SignInRequest

LEMMA DepartFields ==
  ASSUME NEW kind \in Kinds, NEW s \in Sessions, NEW keep \in BOOLEAN
  PROVE  LET d == Depart(kind, s, keep) IN
         /\ d \in SignInRequest /\ d.kind = kind /\ d.session = s /\ d.left = FALSE
         /\ kind # "silent" => d.mounted = TRUE
BY DEF Depart, SignInRequest

\* What Unmounted and Behind leave of the requests.
LEMMA UnmountedFields ==
  ASSUME NEW fl \in [Flights -> SignInRequest]
  PROVE  /\ Unmounted(fl) \in [Flights -> SignInRequest]
         /\ \A f \in Flights : /\ Unmounted(fl)[f].kind = fl[f].kind /\ Unmounted(fl)[f].session = fl[f].session
                               /\ Unmounted(fl)[f].left = fl[f].left /\ Unmounted(fl)[f].mounted = FALSE
BY DEF Unmounted, SignInRequest

LEMMA BehindFields ==
  ASSUME NEW fl \in [Flights -> SignInRequest]
  PROVE  /\ Behind(fl) \in [Flights -> SignInRequest]
         /\ \A f \in Flights : /\ Behind(fl)[f].kind = fl[f].kind /\ Behind(fl)[f].session = fl[f].session
                               /\ Behind(fl)[f].mounted = fl[f].mounted
                               /\ fl[f].kind # "none" => Behind(fl)[f].left
BY DEF Behind, SignInRequest

\* A silent unlock is of the session the tab is locked as.
Unlocking(f, fl, st, s, on) ==
    \/ flight'[f] = fl[f]
    \/ /\ flight'[f].kind = "silent" /\ flight'[f].session \in Sessions /\ st = "locked"
       /\ s.on = on => flight'[f].session = s
       /\ flight'[f].mounted = FALSE /\ flight'[f].left = FALSE
LEMMA SilentFields ==
  ASSUME NEW fl \in [Flights -> SignInRequest], NEW s \in Sessions \cup {None}, NEW st \in {"out", "locked", "unlocked"}, NEW r,
         NEW on \in Backends, Silent(Is(st, s), r, on, fl), st = "locked" => s \in Sessions
  PROVE  /\ flight' \in [Flights -> SignInRequest]
         /\ \A f \in Flights : Unlocking(f, fl, st, s, on)
<1> DEFINE a == Is(st, s)
<1>0. a.state = st /\ a.session = s
  BY DEF Is
<1>1. CASE flight' = fl
  BY <1>1 DEF Unlocking
<1>2. CASE st = "locked" /\ load_for(s.who) # Nobody
           /\ \E f \in Flights : fl[f].kind = "none" /\ flight' = [fl EXCEPT ![f] = Depart("silent", [who |-> load_for(s.who), on |-> on], FALSE)]
  <2> DEFINE t == [who |-> load_for(s.who), on |-> on]
  <2>1. load_for(s.who) = s.who /\ s \in Sessions
    BY <1>2 DEF load_for
  <2>2. t \in Sessions /\ (s.on = on => t = s)
    BY <2>1, SessionFields
  <2>3. PICK f \in Flights : flight' = [fl EXCEPT ![f] = Depart("silent", t, FALSE)]
    BY <1>2
  <2> HIDE DEF t
  <2>4. PICK d \in SignInRequest : /\ d = Depart("silent", t, FALSE) /\ d.kind = "silent" /\ d.session = t
                                   /\ d.left = FALSE /\ d.mounted = FALSE
    <3>1. "silent" \in Kinds /\ FALSE \in BOOLEAN
      BY DEF Kinds
    <3>2. LET d == Depart("silent", t, FALSE) IN
            d \in SignInRequest /\ d.kind = "silent" /\ d.session = t /\ d.left = FALSE /\ d.mounted = FALSE
      BY <2>2, <3>1 DEF Depart, SignInRequest
    <3> QED
      BY <3>2
  <2> QED
    BY <1>2, <2>2, <2>3, <2>4 DEF Unlocking
<1> QED
  BY <1>0, <1>1, <1>2 DEF Silent

LEMMA FormFields ==
  /\ NoForm \in Login /\ NoForm.shown = FALSE /\ NoForm.fresh = FALSE /\ NoForm.busy = FALSE /\ NoForm.booting = None
  /\ TabTyped => /\ Opened \in Login /\ Opened.shown = TRUE /\ Opened.fresh = TRUE /\ Opened.busy = FALSE
                 /\ Opened.booting = None
<1>1. /\ NoForm \in Login /\ NoForm.shown = FALSE /\ NoForm.fresh = FALSE /\ NoForm.busy = FALSE /\ NoForm.booting = None
  BY DEF NoForm, Login, Backends
<1>2. TabTyped => /\ Opened \in Login /\ Opened.shown = TRUE /\ Opened.fresh = TRUE /\ Opened.busy = FALSE
                 /\ Opened.booting = None
  BY <1>1 DEF Opened, Login, TabTyped
<1> QED
  BY <1>1, <1>2

LEMMA ReloadKeeps ==
  ASSUME TabInv, NEW r \in {"login", "rooms"}, Reload(r)
  PROVE  TabInv'
<1> USE DEF TabInv
<1>f1. UNCHANGED <<stored, vault, kept, cached, slips>> /\ client' = kept /\ pending_boot' = None /\ rooms' = Nobody
  BY DEF Reload, Load, disk
<1>f2. /\ auth' \in [state : {"out", "locked", "unlocked"}, session : Sessions \cup {None}]
       /\ auth'.session = stored /\ (auth'.state = "out" <=> stored = None)
  BY SessionFields DEF Reload, Load, Restored, Out, Is, TabTyped
<1>f3. /\ form' \in Login /\ form'.booting = None /\ form'.busy = FALSE
       /\ auth'.state = "out" => form'.shown
  BY FormFields DEF Reload, Load
<1>f4. /\ flight' \in [Flights -> SignInRequest]
       /\ \A f \in Flights : \/ flight'[f] = Grounded
                             \/ /\ flight'[f].kind = "silent" /\ flight'[f].session \in Sessions /\ stored # None
                                /\ stored.on = kept => flight'[f].session = stored
                                /\ flight'[f].mounted = FALSE /\ flight'[f].left = FALSE
  <2> DEFINE fl == [f \in Flights |-> Grounded]
  <2>1. fl \in [Flights -> SignInRequest] /\ \A f \in Flights : fl[f] = Grounded
    BY GroundedFields
  <2>2. PICK st \in {"out", "locked", "unlocked"} : Restored = Is(st, stored) /\ (st = "locked" => stored # None)
    BY DEF Restored, Out, Is
  <2>3. Silent(Is(st, stored), r, kept, fl)
    BY <2>2 DEF Reload, Load
  <2> HIDE DEF fl
  <2>4. st = "locked" => stored \in Sessions
    BY <2>2 DEF TabTyped
  <2>5. kept \in Backends /\ stored \in Sessions \cup {None}
    BY DEF TabTyped
  <2>6. flight' \in [Flights -> SignInRequest] /\ \A f \in Flights : Unlocking(f, fl, st, stored, kept)
    BY <2>1, <2>3, <2>4, <2>5, SilentFields
  <2> QED
    BY <2>1, <2>2, <2>6 DEF Unlocking
<1>f5. None \notin Sessions /\ Grounded.kind = "none" /\ Grounded.mounted = FALSE
  BY SessionFields, GroundedFields
<1>1. TabTyped'
  BY <1>f1, <1>f2, <1>f3, <1>f4, <1>f5 DEF TabTyped
<1>2. ScreenSound'
  BY <1>f1, <1>f2, <1>f3, <1>f4, <1>f5 DEF TabTyped, ScreenSound
<1>3. ASSUME "late" \notin slips' PROVE NobodyIn'
  BY <1>f1, <1>f2, <1>f3, <1>f4, <1>f5, <1>3 DEF TabTyped, ScreenSound, Wanted, NobodyIn, SomebodyIn, BackendSound
<1>4. ASSUME "late" \notin slips' PROVE SomebodyIn'
  BY <1>f1, <1>f2, <1>f3, <1>f4, <1>f5, <1>4 DEF TabTyped, ScreenSound, Wanted, NobodyIn, SomebodyIn, BackendSound
<1>5. ASSUME "late" \notin slips' PROVE BackendSound'
  BY <1>f1, <1>f2, <1>f3, <1>f4, <1>f5, <1>5 DEF TabTyped, ScreenSound, Wanted, NobodyIn, SomebodyIn, BackendSound
<1> QED
  BY <1>1, <1>2, <1>3, <1>4, <1>5

LEMMA NavigateKeeps ==
  ASSUME TabInv, NEW r \in {"login", "rooms"}, Navigate(r)
  PROVE  TabInv'
<1> USE DEF TabInv
<1>f1. UNCHANGED <<stored, vault, kept, cached, auth, client, pending_boot, rooms, slips>>
  BY DEF Navigate, disk
<1>f2. /\ form' \in Login
       /\ \/ form' = form
          \/ form'.booting = None /\ form'.busy = FALSE /\ (form.shown => ~form'.shown)
       /\ auth.state = "out" => form' = form
  BY FormFields DEF Navigate, Screen, TabTyped, ScreenSound
<1>f3. /\ flight' \in [Flights -> SignInRequest]
       /\ \A f \in Flights :
            \/ /\ flight'[f].kind = flight[f].kind /\ flight'[f].session = flight[f].session
               /\ flight'[f].left = flight[f].left
               /\ flight'[f].mounted = IF form'.shown THEN flight[f].mounted ELSE FALSE
            \/ /\ flight'[f].kind = "silent" /\ flight'[f].session \in Sessions /\ auth.state = "locked"
               /\ auth.session.on = kept => flight'[f].session = auth.session
               /\ flight'[f].mounted = FALSE /\ flight'[f].left = FALSE
  <2> DEFINE fl == IF form'.shown THEN flight ELSE Unmounted(flight)
  <2>1. /\ fl \in [Flights -> SignInRequest]
        /\ \A f \in Flights : /\ fl[f].kind = flight[f].kind /\ fl[f].session = flight[f].session
                              /\ fl[f].left = flight[f].left
                              /\ fl[f].mounted = IF form'.shown THEN flight[f].mounted ELSE FALSE
    BY UnmountedFields DEF TabTyped
  <2>2. PICK st \in {"out", "locked", "unlocked"}, s \in Sessions \cup {None} : auth = Is(st, s) /\ st = auth.state /\ s = auth.session
    BY DEF TabTyped, Is
  <2>3. Silent(Is(st, s), r, kept, fl)
    BY <2>2 DEF Navigate, ScreenSound
  <2> HIDE DEF fl
  <2>4. (st = "locked" => s \in Sessions) /\ kept \in Backends
    BY <2>2 DEF TabTyped
  <2>6. flight' \in [Flights -> SignInRequest] /\ \A f \in Flights : Unlocking(f, fl, st, s, kept)
    BY <2>1, <2>3, <2>4, SilentFields
  <2> QED
    BY <2>1, <2>2, <2>6 DEF Unlocking
<1>1. TabTyped'
  BY <1>f1, <1>f2, <1>f3 DEF TabTyped
<1>2. ScreenSound'
  BY <1>f1, <1>f2, <1>f3 DEF TabTyped, ScreenSound
<1>3. ASSUME "late" \notin slips' PROVE NobodyIn'
  <2>1. CASE auth.state = "out"
    <3>1. form' = form /\ form'.shown = TRUE
      BY <1>f2, <2>1 DEF ScreenSound, TabTyped, Login
    <3>2. \A f \in Flights : /\ flight'[f].kind = flight[f].kind /\ flight'[f].left = flight[f].left
                             /\ flight'[f].mounted = flight[f].mounted
      BY <1>f3, <2>1, <3>1
    <3> QED
      BY <1>f1, <1>3, <2>1, <3>1, <3>2 DEF NobodyIn, Wanted
  <2> QED
    BY <1>f1, <2>1 DEF NobodyIn
<1>4. ASSUME "late" \notin slips' PROVE SomebodyIn'
  BY <1>f1, <1>f2, <1>f3, <1>4 DEF TabTyped, ScreenSound, Wanted, NobodyIn, SomebodyIn, BackendSound
<1>5. ASSUME "late" \notin slips' PROVE BackendSound'
  BY <1>f1, <1>f2, <1>f3, <1>5 DEF TabTyped, ScreenSound, Wanted, NobodyIn, SomebodyIn, BackendSound
<1> QED
  BY <1>1, <1>2, <1>3, <1>4, <1>5

LEMMA MountKeeps ==
  ASSUME TabInv, Mount
  PROVE  TabInv'
<1> USE DEF TabInv
<1>f1. /\ UNCHANGED <<stored, vault, kept, cached, auth, client, pending_boot, rooms, slips>>
       /\ form.fresh /\ form.shown /\ form.booting = None
  BY DEF Mount, disk, tab, TabInv, ScreenSound
<1>f2. /\ form' \in Login /\ form'.shown = form.shown /\ form'.fresh = FALSE /\ form'.booting = None
       /\ (flight' = flight /\ form'.busy = form.busy) \/ form'.busy = TRUE
  <2> DEFINE known == IF auth.state = "out" THEN vault ELSE load_for(auth.session.who)
             local == ~online /\ auth.state = "out" /\ form.choice = "here"
             at == [form EXCEPT !.fresh = FALSE, !.cred = known,
                       !.choice = IF local THEN "local" ELSE @, !.auto = local]
  <2>1. known \in Accounts \cup {Nobody} /\ local \in BOOLEAN
    BY DEF TabTyped, load_for
  <2>2. (form' = at /\ flight' = flight) \/ form' = [at EXCEPT !.busy = TRUE]
    BY DEF Mount
  <2> HIDE DEF known, local
  <2>3. /\ at \in Login /\ at.shown = form.shown /\ at.fresh = FALSE /\ at.booting = None /\ at.busy = form.busy
    BY <1>f1, <2>1 DEF TabTyped, Login, Backends
  <2> HIDE DEF at
  <2> QED
    BY <2>2, <2>3 DEF Login
<1>f3. /\ flight' \in [Flights -> SignInRequest]
       /\ \/ flight' = flight
          \/ \E f \in Flights :
               /\ \A g \in Flights : g # f => flight'[g] = flight[g]
               /\ flight'[f].kind = "auto" /\ flight'[f].session \in Sessions /\ auth.state = "locked"
               /\ auth.session.on = client => flight'[f].session = auth.session
               /\ flight'[f].mounted = TRUE /\ flight'[f].left = FALSE /\ form'.busy = TRUE
  <2>1. CASE flight' = flight
    BY <2>1 DEF TabTyped
  <2>2. CASE flight' # flight
    <3>1. auth.state = "locked" /\ load_for(auth.session.who) # Nobody /\ form'.busy = TRUE
      BY <1>f2, <2>2 DEF Mount
    <3> DEFINE t == [who |-> load_for(auth.session.who), on |-> client]
    <3>2. PICK f \in Flights : flight' = [flight EXCEPT ![f] = Depart("auto", t, FALSE)]
      BY <2>2, <3>1 DEF Mount, Free
    <3>3. t \in Sessions /\ (auth.session.on = client => t = auth.session)
      <4>1. auth.session \in Sessions /\ load_for(auth.session.who) = auth.session.who /\ client \in Backends
        BY <3>1 DEF load_for, TabTyped, ScreenSound
      <4> QED
        BY <4>1, SessionFields
    <3> HIDE DEF t
    <3>4. LET d == Depart("auto", t, FALSE) IN
            d \in SignInRequest /\ d.kind = "auto" /\ d.session = t /\ d.left = FALSE /\ d.mounted = TRUE
      <4>1. "auto" \in Kinds /\ FALSE \in BOOLEAN
        BY DEF Kinds
      <4> QED
        BY <3>3, <4>1, DepartFields
    <3> QED
      BY <3>1, <3>2, <3>3, <3>4 DEF TabTyped
  <2> QED
    BY <2>1, <2>2
<1>f4. \A f \in Flights : flight[f].mounted = FALSE
  BY <1>f1 DEF ScreenSound, TabTyped, SignInRequest
<1>1. TabTyped'
  BY <1>f1, <1>f2, <1>f3, <1>f4 DEF TabTyped
<1>2. ScreenSound'
  BY <1>f1, <1>f2, <1>f3, <1>f4 DEF TabTyped, ScreenSound
<1>3. ASSUME "late" \notin slips' PROVE NobodyIn'
  BY <1>f1, <1>f2, <1>f3, <1>f4, <1>3 DEF TabTyped, ScreenSound, Wanted, NobodyIn, SomebodyIn, BackendSound
<1>4. ASSUME "late" \notin slips' PROVE SomebodyIn'
  BY <1>f1, <1>f2, <1>f3, <1>f4, <1>4 DEF TabTyped, ScreenSound, Wanted, NobodyIn, SomebodyIn, BackendSound
<1>5. ASSUME "late" \notin slips' PROVE BackendSound'
  BY <1>f1, <1>f2, <1>f3, <1>f4, <1>5 DEF TabTyped, ScreenSound, Wanted, NobodyIn, SomebodyIn, BackendSound
<1> QED
  BY <1>1, <1>2, <1>3, <1>4, <1>5

LEMMA TypeKeeps ==
  ASSUME TabInv, NEW a \in Accounts, Type(a)
  PROVE  TabInv'
<1> USE DEF TabInv
<1>f1. UNCHANGED <<stored, vault, kept, cached, auth, client, pending_boot, rooms, flight, slips>>
  BY DEF Type, disk, tab
<1>f2. /\ form' \in Login /\ form'.shown = form.shown /\ form'.fresh = form.fresh /\ form'.busy = form.busy
       /\ form'.booting = form.booting
  BY DEF Type, TabTyped, Login, Ready
<1>1. TabTyped'
  BY <1>f1, <1>f2 DEF TabTyped
<1>2. ScreenSound'
  BY <1>f1, <1>f2 DEF TabTyped, ScreenSound
<1>3. ASSUME "late" \notin slips' PROVE NobodyIn'
  BY <1>f1, <1>f2, <1>3 DEF TabTyped, ScreenSound, Wanted, NobodyIn, SomebodyIn, BackendSound
<1>4. ASSUME "late" \notin slips' PROVE SomebodyIn'
  BY <1>f1, <1>f2, <1>4 DEF TabTyped, ScreenSound, Wanted, NobodyIn, SomebodyIn, BackendSound
<1>5. ASSUME "late" \notin slips' PROVE BackendSound'
  BY <1>f1, <1>f2, <1>5 DEF TabTyped, ScreenSound, Wanted, NobodyIn, SomebodyIn, BackendSound
<1> QED
  BY <1>1, <1>2, <1>3, <1>4, <1>5

LEMMA PickConnKeeps ==
  ASSUME TabInv, NEW c \in Backends, pick_conn(c)
  PROVE  TabInv'
<1> USE DEF TabInv
<1>f1. UNCHANGED <<stored, vault, kept, cached, auth, client, pending_boot, rooms, flight, slips>>
  BY DEF pick_conn, disk, tab
<1>f2. /\ form' \in Login /\ form'.shown = form.shown /\ form'.fresh = form.fresh /\ form'.busy = form.busy
       /\ form'.booting = form.booting
  BY DEF pick_conn, TabTyped, Login, Ready
<1>1. TabTyped'
  BY <1>f1, <1>f2 DEF TabTyped
<1>2. ScreenSound'
  BY <1>f1, <1>f2 DEF TabTyped, ScreenSound
<1>3. ASSUME "late" \notin slips' PROVE NobodyIn'
  BY <1>f1, <1>f2, <1>3 DEF TabTyped, ScreenSound, Wanted, NobodyIn, SomebodyIn, BackendSound
<1>4. ASSUME "late" \notin slips' PROVE SomebodyIn'
  BY <1>f1, <1>f2, <1>4 DEF TabTyped, ScreenSound, Wanted, NobodyIn, SomebodyIn, BackendSound
<1>5. ASSUME "late" \notin slips' PROVE BackendSound'
  BY <1>f1, <1>f2, <1>5 DEF TabTyped, ScreenSound, Wanted, NobodyIn, SomebodyIn, BackendSound
<1> QED
  BY <1>1, <1>2, <1>3, <1>4, <1>5

LEMMA SetOnlineKeeps ==
  ASSUME TabInv, SetOnline
  PROVE  TabInv'
<1> USE DEF TabInv
<1>f1. UNCHANGED <<stored, vault, kept, cached, auth, client, pending_boot, rooms, flight, slips>>
  BY DEF SetOnline, disk, tab
<1>f2. /\ form' \in Login /\ form'.shown = form.shown /\ form'.fresh = form.fresh /\ form'.busy = form.busy
       /\ form'.booting = form.booting
  BY DEF SetOnline, TabTyped, Login, Ready, Backends
<1>1. TabTyped'
  BY <1>f1, <1>f2 DEF TabTyped
<1>2. ScreenSound'
  BY <1>f1, <1>f2 DEF TabTyped, ScreenSound
<1>3. ASSUME "late" \notin slips' PROVE NobodyIn'
  BY <1>f1, <1>f2, <1>3 DEF TabTyped, ScreenSound, Wanted, NobodyIn, SomebodyIn, BackendSound
<1>4. ASSUME "late" \notin slips' PROVE SomebodyIn'
  BY <1>f1, <1>f2, <1>4 DEF TabTyped, ScreenSound, Wanted, NobodyIn, SomebodyIn, BackendSound
<1>5. ASSUME "late" \notin slips' PROVE BackendSound'
  BY <1>f1, <1>f2, <1>5 DEF TabTyped, ScreenSound, Wanted, NobodyIn, SomebodyIn, BackendSound
<1> QED
  BY <1>1, <1>2, <1>3, <1>4, <1>5

LEMMA UseKeeps ==
  ASSUME TabInv, Use
  PROVE  TabInv'
<1> USE DEF TabInv
<1>f1. UNCHANGED <<stored, vault, kept, auth, client, pending_boot, form, flight, slips>>
  BY DEF Use
<1>f2. /\ auth.state # "out" /\ cached' = auth.session.who /\ (rooms' = rooms \/ rooms' = auth.session.who)
  BY DEF Use
<1>f3. auth.session \in Sessions /\ auth.session.who \in Accounts
  BY <1>f2, SessionFields DEF TabTyped
<1>1. TabTyped'
  BY <1>f1, <1>f2, <1>f3 DEF TabTyped
<1>2. ScreenSound'
  BY <1>f1, <1>f2, <1>f3 DEF TabTyped, ScreenSound
<1>3. ASSUME "late" \notin slips' PROVE NobodyIn'
  BY <1>f1, <1>f2, <1>f3, <1>3 DEF TabTyped, ScreenSound, Wanted, NobodyIn, SomebodyIn, BackendSound
<1>4. ASSUME "late" \notin slips' PROVE SomebodyIn'
  BY <1>f1, <1>f2, <1>f3, <1>4 DEF TabTyped, ScreenSound, Wanted, NobodyIn, SomebodyIn, BackendSound
<1>5. ASSUME "late" \notin slips' PROVE BackendSound'
  BY <1>f1, <1>f2, <1>f3, <1>5 DEF TabTyped, ScreenSound, Wanted, NobodyIn, SomebodyIn, BackendSound
<1> QED
  BY <1>1, <1>2, <1>3, <1>4, <1>5

LEMMA ForgetKeeps ==
  ASSUME TabInv, Forget
  PROVE  TabInv'
<1> USE DEF TabInv
<1>f1. UNCHANGED <<stored, kept, cached, auth, client, pending_boot, rooms, form, flight, slips>> /\ vault' = Nobody
  BY DEF Forget, tab
<1>1. TabTyped'
  BY <1>f1 DEF TabTyped
<1>2. ScreenSound'
  BY <1>f1 DEF TabTyped, ScreenSound
<1>3. ASSUME "late" \notin slips' PROVE NobodyIn'
  BY <1>f1, <1>3 DEF TabTyped, ScreenSound, Wanted, NobodyIn, SomebodyIn, BackendSound
<1>4. ASSUME "late" \notin slips' PROVE SomebodyIn'
  BY <1>f1, <1>4 DEF TabTyped, ScreenSound, Wanted, NobodyIn, SomebodyIn, BackendSound
<1>5. ASSUME "late" \notin slips' PROVE BackendSound'
  BY <1>f1, <1>5 DEF TabTyped, ScreenSound, Wanted, NobodyIn, SomebodyIn, BackendSound
<1> QED
  BY <1>1, <1>2, <1>3, <1>4, <1>5

LEMMA FinishBootKeeps ==
  ASSUME TabInv, FinishBoot
  PROVE  TabInv'
<1> USE DEF TabInv
<1>f1. UNCHANGED <<stored, vault, kept, cached, client, rooms, form, flight, slips>> /\ pending_boot' = None
  BY DEF FinishBoot, disk
<1>f2. auth.state # "out" /\ pending_boot \in Sessions /\ auth' = Is("unlocked", pending_boot)
  BY DEF FinishBoot, TabTyped
<1>f3. /\ auth' \in [state : {"out", "locked", "unlocked"}, session : Sessions \cup {None}]
       /\ auth'.state = "unlocked" /\ auth'.session = pending_boot /\ pending_boot # None
  BY <1>f2, SessionFields DEF Is
<1>f4. "late" \notin slips => pending_boot = auth.session
  BY <1>f2, <1>f3 DEF SomebodyIn
<1>1. TabTyped'
  BY <1>f1, <1>f2, <1>f3, <1>f4 DEF TabTyped
<1>2. ScreenSound'
  BY <1>f1, <1>f2, <1>f3, <1>f4 DEF TabTyped, ScreenSound
<1>3. ASSUME "late" \notin slips' PROVE NobodyIn'
  BY <1>f1, <1>f2, <1>f3, <1>f4, <1>3 DEF TabTyped, ScreenSound, Wanted, NobodyIn, SomebodyIn, BackendSound
<1>4. ASSUME "late" \notin slips' PROVE SomebodyIn'
  BY <1>f1, <1>f2, <1>f3, <1>f4, <1>4 DEF TabTyped, ScreenSound, Wanted, NobodyIn, SomebodyIn, BackendSound
<1>5. ASSUME "late" \notin slips' PROVE BackendSound'
  BY <1>f1, <1>f2, <1>f3, <1>f4, <1>5 DEF TabTyped, ScreenSound, Wanted, NobodyIn, SomebodyIn, BackendSound
<1> QED
  BY <1>1, <1>2, <1>3, <1>4, <1>5

LEMMA RefusedKeeps ==
  ASSUME TabInv, NEW f \in Flights, Refused(f)
  PROVE  TabInv'
<1> USE DEF TabInv
<1>f1. UNCHANGED <<stored, vault, kept, cached, auth, client, pending_boot, rooms, slips>>
  BY DEF Refused, disk, tab
<1>f2. /\ form' \in Login /\ form'.shown = form.shown /\ form'.fresh = form.fresh /\ form'.booting = form.booting
       /\ form'.busy = IF flight[f].mounted THEN FALSE ELSE form.busy
  BY DEF Refused, TabTyped, Login
<1>f3. /\ flight' \in [Flights -> SignInRequest] /\ flight'[f].kind = "none" /\ flight'[f].mounted = FALSE
       /\ \A g \in Flights : g # f => flight'[g] = flight[g]
  BY GroundedFields DEF Refused, TabTyped
<1>1. TabTyped'
  BY <1>f1, <1>f2, <1>f3 DEF TabTyped
<1>2. ScreenSound'
  BY <1>f1, <1>f2, <1>f3 DEF TabTyped, ScreenSound
<1>3. ASSUME "late" \notin slips' PROVE NobodyIn'
  BY <1>f1, <1>f2, <1>f3, <1>3 DEF TabTyped, ScreenSound, Wanted, NobodyIn, SomebodyIn, BackendSound
<1>4. ASSUME "late" \notin slips' PROVE SomebodyIn'
  BY <1>f1, <1>f2, <1>f3, <1>4 DEF TabTyped, ScreenSound, Wanted, NobodyIn, SomebodyIn, BackendSound
<1>5. ASSUME "late" \notin slips' PROVE BackendSound'
  BY <1>f1, <1>f2, <1>f3, <1>5 DEF TabTyped, ScreenSound, Wanted, NobodyIn, SomebodyIn, BackendSound
<1> QED
  BY <1>1, <1>2, <1>3, <1>4, <1>5

LEMMA AnsweredKeeps ==
  ASSUME TabInv, NEW f \in Flights, Answered(f)
  PROVE  TabInv'
<1> USE DEF TabInv
<1>f1. UNCHANGED <<kept, cached, auth, client, rooms>>
  BY DEF Answered
<1>f2. /\ form' \in Login /\ form'.shown = form.shown /\ form'.fresh = form.fresh /\ form'.busy = form.busy
       /\ form'.booting = IF flight[f].mounted THEN flight[f].session ELSE form.booting
  BY DEF Answered, TabTyped, Login, SignInRequest
<1>f3. /\ flight' \in [Flights -> SignInRequest] /\ flight'[f].kind = "none" /\ flight'[f].mounted = FALSE
       /\ \A g \in Flights : g # f => flight'[g] = flight[g]
  BY GroundedFields DEF Answered, TabTyped
<1>f4. /\ flight[f] \in SignInRequest /\ flight[f].session \in Sessions \cup {None} /\ stored' = flight[f].session
       /\ pending_boot' = IF flight[f].kind = "silent" THEN flight[f].session ELSE pending_boot
       /\ vault' \in Accounts \cup {Nobody}
  BY SessionFields DEF Answered, remember_wallet, TabTyped, SignInRequest, None
<1>f5. slips \subseteq slips' /\ ("late" \notin slips' => Wanted(f) /\ slips' = slips)
  BY DEF Answered, Wanted
<1>1. TabTyped'
  BY <1>f1, <1>f2, <1>f3, <1>f4, <1>f5 DEF TabTyped
<1>2. ScreenSound'
  BY <1>f1, <1>f2, <1>f3, <1>f4, <1>f5 DEF TabTyped, ScreenSound
<1>3. ASSUME "late" \notin slips' PROVE NobodyIn'
  BY <1>f1, <1>f2, <1>f3, <1>f4, <1>f5, <1>3 DEF TabTyped, ScreenSound, Wanted, NobodyIn, SomebodyIn, BackendSound
<1>4. ASSUME "late" \notin slips' PROVE SomebodyIn'
  BY <1>f1, <1>f2, <1>f3, <1>f4, <1>f5, <1>4 DEF TabTyped, ScreenSound, Wanted, NobodyIn, SomebodyIn, BackendSound
<1>5. ASSUME "late" \notin slips' PROVE BackendSound'
  BY <1>f1, <1>f2, <1>f3, <1>f4, <1>f5, <1>5 DEF TabTyped, ScreenSound, Wanted, NobodyIn, SomebodyIn, BackendSound
<1> QED
  BY <1>1, <1>2, <1>3, <1>4, <1>5

LEMMA BootDoneKeeps ==
  ASSUME TabInv, on_boot_done
  PROVE  TabInv'
<1> USE DEF TabInv
<1>f1. UNCHANGED <<stored, vault, kept, cached, client, pending_boot, slips>> /\ form' = NoForm
  BY DEF on_boot_done, disk
<1>f2. form.booting \in Sessions /\ form.booting # None /\ auth' = Is("unlocked", form.booting)
  BY DEF on_boot_done, SetAuth, TabTyped, Login
<1>f3. /\ auth' \in [state : {"out", "locked", "unlocked"}, session : Sessions \cup {None}]
       /\ auth'.state = "unlocked" /\ auth'.session = form.booting
  BY <1>f2, SessionFields DEF Is
<1>f4. /\ flight' \in [Flights -> SignInRequest]
       /\ \A f \in Flights : /\ flight'[f].kind = flight[f].kind /\ flight'[f].session = flight[f].session
                             /\ flight'[f].left = flight[f].left /\ flight'[f].mounted = FALSE
  BY UnmountedFields DEF on_boot_done, TabTyped
<1>f5. rooms' = Nobody \/ (rooms' = rooms /\ auth.session.who = form.booting.who)
  BY <1>f2, <1>f3 DEF on_boot_done, SetAuth, Is
<1>f6. form' \in Login /\ form'.fresh = FALSE /\ form'.booting = None
  BY <1>f1, FormFields
<1>f7. \A f \in Flights : flight[f].mounted = FALSE
  BY <1>f2 DEF ScreenSound, TabTyped, SignInRequest
<1>1. TabTyped'
  BY <1>f1, <1>f2, <1>f3, <1>f4, <1>f5, <1>f6, <1>f7 DEF TabTyped
<1>2. ScreenSound'
  BY <1>f1, <1>f2, <1>f3, <1>f4, <1>f5, <1>f6, <1>f7 DEF TabTyped, ScreenSound
<1>3. ASSUME "late" \notin slips' PROVE NobodyIn'
  BY <1>f1, <1>f2, <1>f3, <1>f4, <1>f5, <1>f6, <1>f7, <1>3 DEF TabTyped, ScreenSound, Wanted, NobodyIn, SomebodyIn, BackendSound
<1>4. ASSUME "late" \notin slips' PROVE SomebodyIn'
  BY <1>f1, <1>f2, <1>f3, <1>f4, <1>f5, <1>f6, <1>f7, <1>4 DEF TabTyped, ScreenSound, Wanted, NobodyIn, SomebodyIn, BackendSound
<1>5. ASSUME "late" \notin slips' PROVE BackendSound'
  BY <1>f1, <1>f2, <1>f3, <1>f4, <1>f5, <1>f6, <1>f7, <1>5 DEF TabTyped, ScreenSound, Wanted, NobodyIn, SomebodyIn, BackendSound
<1> QED
  BY <1>1, <1>2, <1>3, <1>4, <1>5

LEMMA SwitchAccountKeeps ==
  ASSUME TabInv, SwitchAccount
  PROVE  TabInv'
<1> USE DEF TabInv
<1>f1. /\ UNCHANGED <<kept, cached, client, pending_boot, form>> /\ stored' = None /\ vault' = Nobody
       /\ form.shown /\ form.booting = None /\ auth.state # "out"
  BY DEF SwitchAccount, Ready
<1>f2. /\ auth' = Out /\ auth'.state = "out" /\ auth'.session = None
       /\ auth' \in [state : {"out", "locked", "unlocked"}, session : Sessions \cup {None}]
       /\ rooms' = Nobody
  <2>1. auth' = Out /\ auth.session.who # Nobody /\ (auth.session.who # Out.session.who => rooms' = Nobody)
    BY SessionFields, <1>f1 DEF SwitchAccount, SetAuth, TabTyped
  <2> QED
    BY <2>1, SessionFields DEF Out
<1>f3. /\ flight' \in [Flights -> SignInRequest]
       /\ \A f \in Flights : /\ flight'[f].kind = flight[f].kind /\ flight'[f].session = flight[f].session
                             /\ flight'[f].mounted = flight[f].mounted
                             /\ flight[f].kind # "none" => flight'[f].left
  BY BehindFields DEF SwitchAccount, TabTyped
<1>f4. /\ "late" \notin slips' => pending_boot = None /\ "late" \notin slips
       /\ "switched" \notin slips' => cached = Nobody
  BY DEF SwitchAccount, Dropped, Parked
<1>1. TabTyped'
  BY <1>f1, <1>f2, <1>f3, <1>f4 DEF TabTyped
<1>2. ScreenSound'
  BY <1>f1, <1>f2, <1>f3, <1>f4 DEF TabTyped, ScreenSound
<1>3. ASSUME "late" \notin slips' PROVE NobodyIn'
  BY <1>f1, <1>f2, <1>f3, <1>f4, <1>3 DEF TabTyped, ScreenSound, Wanted, NobodyIn, SomebodyIn, BackendSound
<1>4. ASSUME "late" \notin slips' PROVE SomebodyIn'
  BY <1>f1, <1>f2, <1>f3, <1>f4, <1>4 DEF TabTyped, ScreenSound, Wanted, NobodyIn, SomebodyIn, BackendSound
<1>5. ASSUME "late" \notin slips' PROVE BackendSound'
  BY <1>f1, <1>f2, <1>f3, <1>f4, <1>5 DEF TabTyped, ScreenSound, Wanted, NobodyIn, SomebodyIn, BackendSound
<1> QED
  BY <1>1, <1>2, <1>3, <1>4, <1>5

LEMMA SignOutKeeps ==
  ASSUME TabInv, NEW r, sign_out(r)
  PROVE  TabInv'
<1> USE DEF TabInv
<1>f1. /\ UNCHANGED <<kept, client, pending_boot>> /\ stored' = None /\ vault' = Nobody /\ cached' = Nobody
       /\ auth.state # "out"
  BY DEF sign_out
<1>f2. /\ auth' = Out /\ auth'.state = "out" /\ auth'.session = None
       /\ auth' \in [state : {"out", "locked", "unlocked"}, session : Sessions \cup {None}]
       /\ rooms' = Nobody
  <2>1. auth' = Out /\ auth.session.who # Nobody /\ (auth.session.who # Out.session.who => rooms' = Nobody)
    BY SessionFields, <1>f1 DEF sign_out, SetAuth, TabTyped
  <2> QED
    BY <2>1, SessionFields DEF Out
<1>f3. /\ flight' \in [Flights -> SignInRequest]
       /\ \A f \in Flights : /\ flight'[f].kind = flight[f].kind /\ flight'[f].session = flight[f].session
                             /\ flight'[f].mounted = flight[f].mounted
                             /\ flight[f].kind # "none" => flight'[f].left
  BY BehindFields DEF sign_out, TabTyped
<1>f4. "late" \notin slips' => pending_boot = None /\ form.booting = None /\ "late" \notin slips
  BY DEF sign_out, Dropped, Parked
<1>f5. /\ form' \in Login /\ form'.shown
       /\ form' = form \/ (~form.shown /\ form'.booting = None /\ form'.busy = FALSE)
  BY FormFields DEF sign_out, Screen, Out, TabTyped
<1>1. TabTyped'
  BY <1>f1, <1>f2, <1>f3, <1>f4, <1>f5 DEF TabTyped
<1>2. ScreenSound'
  BY <1>f1, <1>f2, <1>f3, <1>f4, <1>f5 DEF TabTyped, ScreenSound
<1>3. ASSUME "late" \notin slips' PROVE NobodyIn'
  BY <1>f1, <1>f2, <1>f3, <1>f4, <1>f5, <1>3 DEF TabTyped, ScreenSound, Wanted, NobodyIn, SomebodyIn, BackendSound
<1>4. ASSUME "late" \notin slips' PROVE SomebodyIn'
  BY <1>f1, <1>f2, <1>f3, <1>f4, <1>f5, <1>4 DEF TabTyped, ScreenSound, Wanted, NobodyIn, SomebodyIn, BackendSound
<1>5. ASSUME "late" \notin slips' PROVE BackendSound'
  BY <1>f1, <1>f2, <1>f3, <1>f4, <1>f5, <1>5 DEF TabTyped, ScreenSound, Wanted, NobodyIn, SomebodyIn, BackendSound
<1> QED
  BY <1>1, <1>2, <1>3, <1>4, <1>5

LEMMA AttemptKeeps ==
  ASSUME TabInv, NEW kind \in {"submit", "tss", "wallet"}, NEW keep \in BOOLEAN, Attempt(kind, keep)
  PROVE  TabInv'
<1> USE DEF TabInv
<1>f1. /\ UNCHANGED <<vault, pending_boot>> /\ kept' = form.choice /\ client' = form.choice /\ form.choice \in Backends
  BY DEF Attempt, commit_choice, TabTyped, Login
<1>f2. /\ form' \in Login /\ form'.shown /\ form'.fresh = form.fresh /\ form'.busy = TRUE
       /\ form'.booting = None /\ form.booting = None /\ ~form.fresh /\ ~form.busy
  BY DEF Attempt, Ready, TabTyped, Login
<1>f3. PICK t \in Sessions :
         /\ t = [who |-> form.cred, on |-> form.choice] /\ t.on = form.choice
         /\ auth.state # "out" => t.who = auth.session.who
  <2>1. form.cred \in Accounts
    BY DEF Attempt, derive_wallet, TabTyped, Login
  <2> QED
    BY <1>f1, <2>1, SessionFields DEF Attempt, derive_wallet
<1>f4. PICK g \in Flights :
         /\ flight[g].kind = "none" /\ flight' \in [Flights -> SignInRequest]
         /\ flight'[g].kind = kind /\ flight'[g].session = t /\ flight'[g].left = FALSE /\ flight'[g].mounted = TRUE
         /\ \A f \in Flights \ {g} :
              /\ flight'[f].kind = flight[f].kind /\ flight'[f].session = flight[f].session
              /\ flight'[f].mounted = flight[f].mounted
              /\ IF Dropping THEN flight[f].kind # "none" => flight'[f].left ELSE flight'[f].left = flight[f].left
  <2> DEFINE fl == IF Dropping THEN Behind(flight) ELSE flight
  <2>1. PICK g \in Flights : flight[g].kind = "none" /\ flight' = [fl EXCEPT ![g] = Depart(kind, t, keep)]
    BY <1>f3 DEF Attempt, Free
  <2>2. /\ fl \in [Flights -> SignInRequest]
        /\ \A f \in Flights :
              /\ fl[f].kind = flight[f].kind /\ fl[f].session = flight[f].session
              /\ fl[f].mounted = flight[f].mounted
              /\ IF Dropping THEN flight[f].kind # "none" => fl[f].left ELSE fl[f].left = flight[f].left
    BY BehindFields DEF TabTyped
  <2> HIDE DEF fl
  <2>3. kind \in Kinds /\ kind # "silent"
    BY DEF Kinds
  <2>4. PICK d \in SignInRequest :
          d = Depart(kind, t, keep) /\ d.kind = kind /\ d.session = t /\ d.left = FALSE /\ d.mounted = TRUE
    <3>1. LET d == Depart(kind, t, keep) IN
            d \in SignInRequest /\ d.kind = kind /\ d.session = t /\ d.left = FALSE /\ d.mounted = TRUE
      BY <2>3 DEF Depart, SignInRequest
    <3> QED
      BY <3>1
  <2>5. /\ flight' = [fl EXCEPT ![g] = d] /\ flight' \in [Flights -> SignInRequest] /\ flight'[g] = d
        /\ \A f \in Flights \ {g} : flight'[f] = fl[f]
    BY <2>1, <2>2, <2>4
  <2> QED
    BY <2>1, <2>2, <2>4, <2>5
<1>f5. \A f \in Flights : flight[f].mounted = FALSE
  BY <1>f2 DEF ScreenSound, TabTyped, SignInRequest
<1>f6. kind # "none" /\ kind # "silent" /\ kind # "auto"
  OBVIOUS
<1>1. CASE Dropping
  <2>0. form.choice # kept /\ auth.state # "out"
    BY <1>1 DEF Dropping
  <2>1. /\ stored' = None /\ cached' = Nobody
        /\ auth' = Out /\ auth'.state = "out" /\ auth'.session = None
        /\ auth' \in [state : {"out", "locked", "unlocked"}, session : Sessions \cup {None}]
        /\ rooms' = Nobody
    <3>1. stored' = None /\ cached' = Nobody /\ SetAuth(Out)
      BY <2>0 DEF Attempt, commit_choice
    <3>2. auth.session.who # Nobody
      BY <2>0, SessionFields DEF TabTyped
    <3> QED
      BY <3>1, <3>2, SessionFields DEF SetAuth, Out
  <2>2. "late" \notin slips' => pending_boot = None
    BY <1>1 DEF Attempt, Dropped, Parked
  <2>3. TabTyped'
    BY <1>f1, <1>f2, <1>f4, <2>1 DEF TabTyped
  <2>4. ScreenSound'
    BY <1>f1, <1>f2, <1>f4, <1>f5, <1>f6, <2>1 DEF TabTyped, ScreenSound
  <2>5. \A f \in Flights : Wanted(f)' => f = g
    BY <1>1, <1>f4 DEF Wanted
  <2>6. ASSUME "late" \notin slips' PROVE NobodyIn' /\ SomebodyIn' /\ BackendSound'
    BY <1>f1, <1>f2, <1>f3, <1>f4, <1>f6, <2>1, <2>2, <2>5, <2>6 DEF NobodyIn, SomebodyIn, BackendSound
  <2> QED
    BY <2>3, <2>4, <2>6
<1>2. CASE ~Dropping
  <2>0. form.choice = kept \/ auth.state = "out"
    BY <1>2 DEF Dropping
  <2>1. UNCHANGED <<stored, cached, auth, rooms, slips>>
    BY <1>2, <2>0 DEF Attempt, commit_choice
  <2>2. TabTyped'
    BY <1>f1, <1>f2, <1>f4, <2>1 DEF TabTyped
  <2>3. ScreenSound'
    BY <1>f1, <1>f2, <1>f4, <1>f5, <1>f6, <2>1 DEF TabTyped, ScreenSound
  <2>4. \A f \in Flights \ {g} : Wanted(f)' => Wanted(f)
    BY <1>2, <1>f4 DEF Wanted
  <2>5. ASSUME "late" \notin slips, auth.state = "out" PROVE NobodyIn' /\ SomebodyIn' /\ BackendSound'
    <3>1. \A f \in Flights : Wanted(f)' => f = g
      BY <1>f5, <2>4, <2>5 DEF NobodyIn
    <3> QED
      BY <1>f1, <1>f2, <1>f3, <1>f4, <1>f6, <2>1, <2>5, <3>1 DEF NobodyIn, SomebodyIn, BackendSound
  <2>6. ASSUME "late" \notin slips, auth.state # "out" PROVE NobodyIn' /\ SomebodyIn' /\ BackendSound'
    <3>1. form.choice = kept /\ auth.session \in Sessions /\ auth.session = stored /\ stored.on = kept
      BY <2>0, <2>6, SessionFields DEF TabTyped, SomebodyIn, BackendSound
    <3>2. t = auth.session
      BY <1>f3, <2>6, <3>1, SessionFields
    <3> QED
      BY <1>f1, <1>f2, <1>f4, <2>1, <2>4, <2>6, <3>1, <3>2 DEF NobodyIn, SomebodyIn, BackendSound
  <2> QED
    BY <2>1, <2>2, <2>3, <2>5, <2>6
<1> QED
  BY <1>1, <1>2

-----------------------------------------------------------------------------
\* The tab, local storage and the backend agree on the account for as long as no sign-in
\* outlives the session it was asked in: an answer is only accepted for what was asked, and
\* every way of dropping a session drops what hangs on it (Store.auth, KEY_SESSION,
\* commit_choice, load_for, SetAuth).
THEOREM TabsAgreeOnAccounts == SiSpec => []AccountsAgree
<1>1. SiInit => TabInv
  <2> SUFFICES ASSUME SiInit PROVE TabInv
    OBVIOUS
  <2>1. form \in Login /\ form.shown /\ form.busy = FALSE /\ form.booting = None
    BY FormFields DEF SiInit, Login
  <2>2. \A f \in Flights : flight[f] = Grounded
    BY DEF SiInit
  <2>3. flight \in [Flights -> SignInRequest]
    BY GroundedFields DEF SiInit
  <2>4. /\ auth \in [state : {"out", "locked", "unlocked"}, session : Sessions \cup {None}]
        /\ auth.state = "out" /\ auth.session = None
    BY DEF SiInit, Out
  <2>5. TabTyped
    BY <2>1, <2>3, <2>4 DEF SiInit, TabTyped, Backends
  <2>6. ScreenSound
    BY <2>1, <2>2, GroundedFields DEF SiInit, ScreenSound
  <2>7. NobodyIn /\ SomebodyIn /\ BackendSound
    BY <2>1, <2>2, <2>4, GroundedFields DEF SiInit, NobodyIn, SomebodyIn, BackendSound, Wanted
  <2> QED
    BY <2>5, <2>6, <2>7 DEF TabInv
<1>2. TabInv /\ [SiNext]_siVars => TabInv'
  <2> SUFFICES ASSUME TabInv, SiStep \/ UNCHANGED siVars PROVE TabInv'
    BY DEF SiNext
  <2>1. CASE UNCHANGED siVars
    <3>1. UNCHANGED <<stored, vault, kept, cached, auth, client, pending_boot, rooms, form, flight, slips>>
      BY <2>1 DEF siVars, disk, tab
    <3> QED
      BY <3>1 DEF TabInv, TabTyped, ScreenSound, NobodyIn, SomebodyIn, BackendSound, Wanted
  <2>2. CASE \E r \in {"login", "rooms"} : Reload(r) \/ Navigate(r)
    BY <2>2, ReloadKeeps, NavigateKeeps
  <2>3. CASE \E r \in {route, "login"} : sign_out(r)
    <3>1. PICK r \in {route, "login"} : sign_out(r)
      BY <2>3
    <3> QED
      BY <3>1, SignOutKeeps
  <2>4. CASE Mount \/ SetOnline \/ SwitchAccount \/ on_boot_done \/ FinishBoot \/ Use \/ Forget
    BY <2>4, MountKeeps, SetOnlineKeeps, SwitchAccountKeeps, BootDoneKeeps, FinishBootKeeps, UseKeeps, ForgetKeeps
  <2>5. CASE (\E a \in Accounts : Type(a)) \/ (\E c \in Backends : pick_conn(c))
    BY <2>5, TypeKeeps, PickConnKeeps
  <2>6. CASE on_tss \/ on_wallet \/ \E keep \in BOOLEAN : on_submit(keep)
    BY <2>6, AttemptKeeps DEF on_tss, on_wallet, on_submit
  <2>7. CASE \E f \in Flights : Answered(f) \/ Refused(f)
    BY <2>7, AnsweredKeeps, RefusedKeeps
  <2> QED
    BY <2>1, <2>2, <2>3, <2>4, <2>5, <2>6, <2>7 DEF SiStep
<1>3. TabInv => AccountsAgree
  <2> SUFFICES ASSUME TabInv, "late" \notin slips PROVE AccountsAgree
    BY DEF AccountsAgree
  <2>1. ASSUME auth.state # "out"
        PROVE  /\ auth.session = stored /\ auth.session.on = client
               /\ rooms \in {Nobody, auth.session.who}
               /\ "switched" \notin slips => cached \in {Nobody, auth.session.who}
               /\ pending_boot \in {None, auth.session}
    BY <2>1 DEF TabInv, TabTyped, ScreenSound, SomebodyIn, BackendSound
  <2>2. ASSUME NEW f \in Flights, flight[f].kind \in {"auto", "silent"}, ~flight[f].left
        PROVE  flight[f].session = auth.session
    BY <2>2 DEF TabInv, ScreenSound, NobodyIn, SomebodyIn, Wanted
  <2> QED
    BY <2>1, <2>2 DEF AccountsAgree
<1> QED
  BY <1>1, <1>2, <1>3, PTL DEF SiSpec

-----------------------------------------------------------------------------
(***************************************************************************)
(* How often an address may act.                                            *)
(***************************************************************************)
Budget == [start : Nat, count : Nat]
Check == [step : {"free", "sweep", "count"}, peer : Peers, now : Nat]
Passed == [at : Nat, of : Nat, nth : 1..Limit]

\* Every variable in its domain.
RateTypeOK ==
    /\ clock \in Nat /\ window \in [Peers -> Budget] /\ check \in [Checks -> Check]
    /\ opened \in [Peers -> Nat] /\ admitted \in [Peers -> SUBSET Passed] /\ crossed \subseteq Peers

\* A request on its way is at most a tick behind.
OnTime == \A q \in Checks : check[q].step # "free" => check[q].now <= clock /\ clock <= check[q].now + 1

\* A dropped window has run out, and nothing was let through before the first.
Started(p) ==
    /\ window[p].start <= clock
    /\ opened[p] = 0 => window[p].count = 0 /\ admitted[p] = {}
    /\ opened[p] > 0 /\ window[p].count = 0 => clock >= window[p].start + Window

\* What was let through is of a window there was, and each is another.
Numbered(p) ==
    /\ \A e \in admitted[p] :
         /\ e.at <= clock /\ e.of <= opened[p]
         /\ e.of = opened[p] /\ window[p].count > 0 => e.nth <= window[p].count
    /\ \A e, f \in admitted[p] : e.of = f.of /\ e.nth = f.nth => e = f

\* How far behind the present window what is still remembered of earlier ones lies: the
\* window before it, and one more where a sweep crossed a request.
Spaced(p) ==
    \A e \in admitted[p] :
      /\ e.of = opened[p] => e.at <= window[p].start + Window
      /\ e.of < opened[p] => e.at <= window[p].start + 1
      /\ e.of + 1 < opened[p] => e.at + Window <= window[p].start + 2
      /\ e.at + Window > clock
      /\ e.of + 2 < opened[p] => e.at + Window <= clock
      /\ p \notin crossed /\ e.of < opened[p] => e.at <= window[p].start
      /\ p \notin crossed /\ e.of + 1 < opened[p] => e.at + Window <= clock

RateInv ==
    /\ RateTypeOK /\ OnTime
    /\ \A p \in Peers : Started(p) /\ Numbered(p) /\ Spaced(p)

-----------------------------------------------------------------------------
LEMMA RateStarts == RateInit => RateInv
<1> SUFFICES ASSUME RateInit PROVE RateInv
  OBVIOUS
<1>1. NoCheck \in Check /\ NoCheck.step = "free" /\ NoWindow \in Budget
  BY RateAssumption DEF NoCheck, Check, NoWindow, Budget
<1>2. RateTypeOK /\ OnTime
  BY <1>1 DEF RateInit, RateTypeOK, OnTime
<1>3. \A p \in Peers : Started(p) /\ Numbered(p) /\ Spaced(p)
  BY DEF RateInit, NoWindow, Started, Numbered, Spaced
<1> QED
  BY <1>2, <1>3 DEF RateInv

LEMMA TickKeeps == ASSUME RateInv, Tick PROVE RateInv'
<1> USE DEF RateInv, RateTypeOK
<1>1. /\ clock' = clock + 1 /\ UNCHANGED <<window, check, opened, crossed>>
      /\ \A p \in Peers : admitted'[p] = {e \in admitted[p] : e.at + Window > clock + 1}
  BY DEF Tick
<1>2. RateTypeOK'
  BY <1>1 DEF Tick
<1>3. OnTime'
  BY <1>1 DEF Tick, OnTime, Check
<1>4. ASSUME NEW p \in Peers PROVE Started(p)' /\ Numbered(p)' /\ Spaced(p)'
  <2>1. admitted'[p] \subseteq admitted[p] /\ \A e \in admitted'[p] : e \in Passed /\ e.at + Window > clock'
    BY <1>1
  <2>2. window[p] \in Budget /\ opened[p] \in Nat /\ Started(p) /\ Numbered(p) /\ Spaced(p)
    OBVIOUS
  <2>3. Started(p)'
    BY <1>1, <2>1, <2>2, RateAssumption DEF Started, Budget
  <2>4. Numbered(p)'
    BY <1>1, <2>1, <2>2 DEF Numbered, Passed
  <2>5. Spaced(p)'
    BY <1>1, <2>1, <2>2, RateAssumption DEF Spaced, Passed, Budget
  <2> QED
    BY <2>3, <2>4, <2>5
<1> QED
  BY <1>2, <1>3, <1>4

LEMMA ArriveKeeps == ASSUME RateInv, NEW q \in Checks, NEW p \in Peers, Arrive(q, p) PROVE RateInv'
<1> USE DEF RateInv, RateTypeOK
<1>1. UNCHANGED <<clock, window, opened, admitted, crossed>>
  BY DEF Arrive
<1>2. PICK c \in Check : c = [step |-> "sweep", peer |-> p, now |-> clock] /\ c.now = clock
  <2> DEFINE c == [step |-> "sweep", peer |-> p, now |-> clock]
  <2>1. c \in Check /\ c.now = clock
    BY DEF Check
  <2> QED
    BY <2>1
<1>3. check' = [check EXCEPT ![q] = c]
  BY <1>2 DEF Arrive
<1>4. RateTypeOK' /\ OnTime'
  BY <1>1, <1>2, <1>3 DEF OnTime
<1>5. \A r \in Peers : Started(r)' /\ Numbered(r)' /\ Spaced(r)'
  BY <1>1 DEF Started, Numbered, Spaced
<1> QED
  BY <1>4, <1>5

LEMMA SweepKeeps == ASSUME RateInv, NEW q \in Checks, SweepWindows(q) PROVE RateInv'
<1> USE DEF RateInv, RateTypeOK
<1>1. UNCHANGED <<clock, opened, admitted, crossed>> /\ check[q].step = "sweep"
  BY DEF SweepWindows
<1>2. PICK c \in Check : c = [check[q] EXCEPT !.step = "count"] /\ c.now = check[q].now
  <2> DEFINE c == [check[q] EXCEPT !.step = "count"]
  <2>1. check[q] \in Check
    OBVIOUS
  <2>2. c \in Check /\ c.now = check[q].now
    BY <2>1 DEF Check
  <2> QED
    BY <2>2
<1>3. check' = [check EXCEPT ![q] = c]
  BY <1>2 DEF SweepWindows
<1>4. check' \in [Checks -> Check] /\ OnTime'
  BY <1>1, <1>2, <1>3 DEF OnTime
<1>5. ASSUME NEW p \in Peers
      PROVE  [window[p] EXCEPT !.count = 0] \in Budget /\ [window[p] EXCEPT !.count = 0].start = window[p].start
             /\ [window[p] EXCEPT !.count = 0].count = 0
  BY DEF Budget
<1>6. /\ window' \in [Peers -> Budget]
      /\ \A p \in Peers : \/ window'[p] = window[p]
                          \/ /\ window'[p].start = window[p].start /\ window'[p].count = 0
                             /\ ~(duration_since(check[q].now, window[p].start) < Window)
  <2>1. CASE window' = window
    BY <2>1
  <2>2. CASE window' = [p \in Peers |-> IF duration_since(check[q].now, window[p].start) < Window
                                        THEN window[p] ELSE [window[p] EXCEPT !.count = 0]]
    BY <1>5, <2>2
  <2> QED
    BY <2>1, <2>2 DEF SweepWindows
<1>7. ASSUME NEW p \in Peers PROVE Started(p)' /\ Numbered(p)' /\ Spaced(p)'
  <2>1. window[p] \in Budget /\ window'[p] \in Budget /\ opened[p] \in Nat /\ Started(p) /\ Numbered(p) /\ Spaced(p)
    BY <1>6
  <2>2. window'[p].start = window[p].start /\ (window'[p].count = window[p].count \/ window'[p].count = 0)
    BY <1>6
  <2>3. window'[p].count = 0 => window[p].count = 0 \/ clock >= window[p].start + Window
    <3>1. check[q].now \in Nat /\ check[q].now <= clock
      BY <1>1 DEF OnTime, Check
    <3> QED
      BY <1>6, <2>1, <3>1, RateAssumption DEF duration_since, Budget
  <2>4. Started(p)'
    BY <1>1, <2>1, <2>2, <2>3 DEF Started, Budget
  <2>5. Numbered(p)'
    BY <1>1, <2>1, <2>2 DEF Numbered, Budget
  <2>6. Spaced(p)'
    BY <1>1, <2>1, <2>2 DEF Spaced
  <2> QED
    BY <2>4, <2>5, <2>6
<1> QED
  BY <1>1, <1>4, <1>6, <1>7

LEMMA CountKeeps == ASSUME RateInv, NEW q \in Checks, Count(q) PROVE RateInv'
<1> USE DEF RateInv, RateTypeOK
<1>1. PICK p \in Peers, now \in Nat : p = check[q].peer /\ now = check[q].now
  BY DEF Check
<1>2. now <= clock /\ clock <= now + 1 /\ clock' = clock
  BY <1>1 DEF Count, OnTime
<1>3. PICK w \in Budget : w = Counted(window[p], now)
  <2>1. window[p] \in Budget
    OBVIOUS
  <2>2. Counted(window[p], now) \in Budget
    BY <2>1, RateAssumption DEF Counted, Budget
  <2> QED
    BY <2>2
<1>4. window' = [window EXCEPT ![p] = w]
  BY <1>1, <1>3 DEF Count
<1>5. /\ opened' = [opened EXCEPT ![p] = IF Opens(window[p], now) THEN @ + 1 ELSE @]
      /\ opened'[p] = IF Opens(window[p], now) THEN opened[p] + 1 ELSE opened[p]
      /\ opened' \in [Peers -> Nat]
  BY <1>1 DEF Count
<1>6. PICK new \in {[at |-> clock, of |-> opened'[p], nth |-> w.count]} :
        /\ new.at = clock /\ new.of = opened'[p] /\ new.nth = w.count
        /\ w.count <= Limit => new \in Passed
  <2>1. w.count \in Nat \ {0}
    BY <1>3, RateAssumption DEF Counted, Opens, Budget
  <2> QED
    BY <1>5, <2>1 DEF Passed, Budget
<1>7. /\ admitted' \in [Peers -> SUBSET Passed]
      /\ \A r \in Peers \ {p} : admitted'[r] = admitted[r]
      /\ admitted'[p] = IF w.count <= Limit THEN admitted[p] \cup {new} ELSE admitted[p]
  <2>1. admitted' = [admitted EXCEPT ![p] = IF w.count <= Limit THEN @ \cup {new} ELSE @]
    BY <1>1, <1>3, <1>6 DEF Count
  <2> QED
    BY <1>6, <2>1
<1>8. /\ crossed' \subseteq Peers /\ \A r \in Peers \ {p} : r \in crossed' <=> r \in crossed
      /\ p \notin crossed' => /\ p \notin crossed
                              /\ ~(window[p].count = 0 /\ opened[p] > 0 /\ duration_since(now, window[p].start) < Window)
  BY <1>1 DEF Count
<1>9. check' \in [Checks -> Check] /\ OnTime'
  <2>1. NoCheck \in Check /\ NoCheck.step = "free"
    BY RateAssumption DEF NoCheck, Check
  <2> QED
    BY <1>2, <2>1 DEF Count, OnTime
<1>10. ASSUME NEW r \in Peers \ {p} PROVE Started(r)' /\ Numbered(r)' /\ Spaced(r)'
  <2>1. /\ window'[r] = window[r] /\ opened'[r] = opened[r] /\ admitted'[r] = admitted[r]
        /\ r \in crossed' <=> r \in crossed
    BY <1>4, <1>5, <1>7, <1>8
  <2> QED
    BY <1>2, <2>1 DEF Started, Numbered, Spaced
<1>11. Started(p)' /\ Numbered(p)' /\ Spaced(p)'
  <2>1. /\ window[p] \in Budget /\ opened[p] \in Nat /\ window'[p] = w
        /\ Started(p) /\ Numbered(p) /\ Spaced(p) /\ \A e \in admitted[p] : e \in Passed
    BY <1>4
  <2>2. CASE Opens(window[p], now)
    <3>1. w.start = now /\ w.count = 1 /\ opened'[p] = opened[p] + 1 /\ Limit >= 1
      BY <1>3, <1>5, <2>2, RateAssumption DEF Counted
    <3>2. admitted'[p] = admitted[p] \cup {new}
      BY <1>7, <3>1, RateAssumption
    \* The window before, if there was one, has run out.
    <3>3. opened[p] > 0 => clock >= window[p].start + Window
      BY <1>2, <2>1, <2>2, RateAssumption DEF Opens, duration_since, Started, Budget
    <3>4. p \notin crossed' /\ opened[p] > 0 => now >= window[p].start + Window
      BY <1>8, <2>1, <2>2, RateAssumption DEF Opens, duration_since, Budget
    <3>5. Started(p)'
      BY <1>2, <2>1, <3>1 DEF Started, Budget
    <3>6. Numbered(p)'
      BY <1>2, <1>6, <2>1, <3>1, <3>2 DEF Numbered, Passed, Budget
    <3>7. ASSUME NEW e \in admitted[p]
          PROVE  /\ e.of < opened'[p] /\ e.at <= now + 1 /\ e.at + Window > clock
                 /\ e.of + 1 < opened'[p] => e.at + Window <= now + 2
                 /\ e.of + 2 < opened'[p] => e.at + Window <= clock
                 /\ p \notin crossed' => e.at <= now /\ (e.of + 1 < opened'[p] => e.at + Window <= clock)
      <4>1. /\ e \in Passed /\ e.at <= clock /\ e.of <= opened[p] /\ opened[p] > 0
            /\ e.of = opened[p] => e.at <= window[p].start + Window
            /\ e.of < opened[p] => e.at <= window[p].start + 1
            /\ e.of + 1 < opened[p] => e.at + Window <= window[p].start + 2
            /\ e.at + Window > clock
            /\ p \notin crossed /\ e.of < opened[p] => e.at <= window[p].start
        BY <2>1 DEF Started, Numbered, Spaced
      <4>2. e.of < opened'[p] /\ e.at <= now + 1 /\ e.at + Window > clock
        BY <1>2, <2>1, <3>1, <4>1 DEF Passed
      <4>3. e.of + 1 < opened'[p] => e.of < opened[p] /\ e.at + Window <= now + 2
        BY <1>2, <2>1, <3>1, <3>3, <4>1, RateAssumption DEF Passed, Budget
      <4>4. e.of + 2 < opened'[p] => e.at + Window <= clock
        BY <1>2, <2>1, <3>1, <3>3, <4>1, RateAssumption DEF Passed, Budget
      <4>5. p \notin crossed' => e.at <= now /\ (e.of + 1 < opened'[p] => e.at + Window <= clock)
        <5>1. e.at \in Nat /\ e.of \in Nat /\ window[p].start \in Nat /\ opened[p] \in Nat
          BY <2>1, <4>1 DEF Passed, Budget
        <5>2. p \notin crossed' => p \notin crossed /\ now >= window[p].start + Window
          BY <1>8, <3>4, <4>1
        <5> QED
          BY <1>2, <3>1, <4>1, <5>1, <5>2, RateAssumption
      <4> QED
        BY <4>2, <4>3, <4>4, <4>5
    <3>8. /\ new.of = opened'[p] /\ new.at <= now + Window /\ new.at + Window > clock
      BY <1>2, <1>6, RateAssumption
    <3> QED
      BY <1>2, <1>5, <2>1, <3>1, <3>2, <3>5, <3>6, <3>7, <3>8 DEF Spaced, Passed
  <2>3. CASE ~Opens(window[p], now)
    <3>1. /\ w.start = window[p].start /\ w.count >= window[p].count /\ window[p].count > 0
          /\ w.count <= Limit => w.count = window[p].count + 1
      BY <1>3, <2>1, <2>3, RateAssumption DEF Counted, Opens, Budget
    <3>2. opened'[p] = opened[p] /\ (p \in crossed' <=> p \in crossed) /\ opened[p] > 0
      BY <1>1, <1>5, <2>1, <2>3, <3>1 DEF Count, Started, Opens
    <3>3. now < window[p].start + Window
      BY <2>1, <2>3, RateAssumption DEF Opens, duration_since, Budget
    <3>4. Started(p)'
      BY <1>2, <2>1, <3>1, <3>2 DEF Started, Budget
    <3>5. Numbered(p)'
      BY <1>2, <1>6, <1>7, <2>1, <3>1, <3>2 DEF Numbered, Passed, Budget
    <3>6. Spaced(p)'
      BY <1>2, <1>6, <1>7, <2>1, <3>1, <3>2, <3>3, RateAssumption DEF Spaced, Passed, Budget
    <3> QED
      BY <3>4, <3>5, <3>6
  <2> QED
    BY <2>2, <2>3
<1> QED
  BY <1>2, <1>4, <1>5, <1>7, <1>8, <1>9, <1>10, <1>11

LEMMA RateHolds == RateSpec => []RateInv
<1>1. RateInv /\ [RateNext]_rateVars => RateInv'
  <2> SUFFICES ASSUME RateInv, [RateNext]_rateVars PROVE RateInv'
    OBVIOUS
  <2>1. CASE UNCHANGED rateVars
    BY <2>1 DEF rateVars, RateInv, RateTypeOK, OnTime, Started, Numbered, Spaced
  <2> QED
    BY <2>1, TickKeeps, ArriveKeeps, SweepKeeps, CountKeeps DEF RateNext
<1> QED
  BY <1>1, RateStarts, PTL DEF RateSpec

\* The places of so many windows.
LEMMA Places ==
  ASSUME NEW a \in Int, NEW k \in Nat \ {0}
  PROVE  LET S == (a..(a + k - 1)) \X (1..Limit) IN IsFiniteSet(S) /\ Cardinality(S) = k * Limit
<1>1. IsFiniteSet(a..(a + k - 1)) /\ Cardinality(a..(a + k - 1)) = k
  BY FS_Interval
<1>2. IsFiniteSet(1..Limit) /\ Cardinality(1..Limit) = Limit
  BY FS_Interval, RateAssumption
<1> DEFINE A == a..(a + k - 1)
           B == 1..Limit
<1>3. IsFiniteSet(A) /\ Cardinality(A) = k /\ IsFiniteSet(B) /\ Cardinality(B) = Limit
  BY <1>1, <1>2
<1> HIDE DEF A, B
<1>4. IsFiniteSet(A \X B) /\ Cardinality(A \X B) = Cardinality(A) * Cardinality(B)
  BY <1>3, FS_Product
<1>5. IsFiniteSet(A \X B) /\ Cardinality(A \X B) = k * Limit
  BY <1>3, <1>4, Zenon
<1> QED
  BY <1>5 DEF A, B

\* What is remembered fits into the places of the last two windows, or three.
LEMMA FewPassed ==
  ASSUME RateInv, NEW p \in Peers, NEW k \in {2, 3}, k = 2 => p \notin crossed
  PROVE  Cardinality(admitted[p]) <= k * Limit
<1> DEFINE T == ((opened[p] - k + 1)..(opened[p] - k + 1 + k - 1)) \X (1..Limit)
           f == [e \in admitted[p] |-> <<e.of, e.nth>>]
<1>1. IsFiniteSet(T) /\ Cardinality(T) = k * Limit
  <2>1. opened[p] - k + 1 \in Int /\ k \in Nat \ {0}
    BY DEF RateInv, RateTypeOK
  <2> QED
    BY <2>1, Places
<1>2. \A e \in admitted[p] : e.of \in (opened[p] - k + 1)..(opened[p] - k + 1 + k - 1) /\ e.nth \in 1..Limit
  BY RateAssumption DEF RateInv, RateTypeOK, Numbered, Spaced, Passed
<1>3. f \in Injection(admitted[p], T)
  BY <1>2 DEF Injection, IsInjective, RateInv, Numbered
<1> HIDE DEF T, f
<1>4. Cardinality(admitted[p]) <= Cardinality(T)
  BY <1>1, <1>3, FS_Injection
<1> QED
  BY <1>1, <1>4

\* However requests, clock readings and sweeps interleave, no address gets more than two
\* windows' worth through in a span of one window, and three where a sweep took a window
\* away before a request that still read it as running (RateLimiter::check_at), for any
\* limit, window, threshold, addresses and requests in flight.
THEOREM BurstsStayBounded == RateSpec => []BurstBounded
<1>1. RateInv => BurstBounded
  BY FewPassed, RateAssumption DEF BurstBounded
<1> QED
  BY <1>1, RateHolds, PTL
=============================================================================
