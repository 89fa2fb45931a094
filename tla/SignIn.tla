------------------------------- MODULE SignIn -------------------------------
(***************************************************************************)
(* Who a browser tab is signed in as: what local storage keeps (the session,    *)
(* the remembered credential, the chosen backend), the login screen, the silent   *)
(* unlock behind every other screen, and the requests of both, which answer long   *)
(* after the click that sent them and whatever happened to the tab meanwhile.      *)
(*                                                                         *)
(* A credential is named by the account it derives.  Challenges, signatures and    *)
(* keys are Accounts' and the core crate's; here a sign-in is sent and answered.   *)
(* The login screen is mounted on its own route and wherever nobody is signed in;  *)
(* going from the one to the other it stays the same component and keeps its state. *)
(***************************************************************************)
EXTENDS Naturals, FiniteSets

CONSTANTS
    Accounts,   \* wallet addresses
    Flights,    \* slots for sign-in requests on their way
    MaxReloads, \* bound on page loads after the first
    AfterLate   \* whether a behaviour goes on once a sign-in came back to a dropped session

Nobody == "nobody"
ASSUME SignInAssumption == Nobody \notin Accounts

Backends == {"here", "local"}   \* ConnChoice: this origin, or the browser's own database
None == [who |-> Nobody, on |-> "here"]
Sessions == [who : Accounts, on : Backends]
Grounded == [kind |-> "none", session |-> None, keep |-> FALSE, mounted |-> FALSE, left |-> FALSE]

VARIABLES
    stored,        \* KEY_SESSION: the PersistedSession
    vault,         \* KEY_VAULT: the account whose credential the device remembers
    kept,          \* the persisted connection mode
    cached,        \* the account whose rooms the disk cache holds
    auth,          \* Store.auth: out, locked or unlocked, and as whom
    client,        \* Store.client: which backend answers
    pending_boot,  \* the session parked behind the cutscene by the silent unlock
    rooms,         \* the account whose decrypted rooms the store holds
    route,         \* login or rooms
    online,        \* Store.online
    form,          \* the login screen: fresh until its mount effect ran, credential, busy, ...
    flight,        \* the sign-in requests on their way
    reloads,       \* page loads so far
    left,          \* history: signed out, and nobody has asked to sign in since
    slips          \* history: "late", a sign-in still under way or behind its cutscene when
                   \* the session was dropped; "switched", an account left for another one

disk == <<stored, vault, kept, cached>>
tab == <<auth, client, pending_boot, rooms, route, online>>
siVars == <<disk, tab, form, flight, reloads, left, slips>>

Out == [state |-> "out", session |-> None]
Is(state, s) == [state |-> state, session |-> s]
NoForm == [shown |-> FALSE, fresh |-> FALSE, cred |-> Nobody, busy |-> FALSE, booting |-> None,
           choice |-> "here", auto |-> FALSE]

SiTypeOK ==
    /\ stored \in Sessions \cup {None} /\ vault \in Accounts \cup {Nobody} /\ kept \in Backends
    /\ auth.state \in {"out", "locked", "unlocked"} /\ auth.session \in Sessions \cup {None}
    /\ form.booting \in Sessions \cup {None} /\ pending_boot \in Sessions \cup {None}
    /\ \A f \in Flights : flight[f].session \in Sessions \cup {None}

-----------------------------------------------------------------------------
(***************************************************************************)
(* Helpers.                                                                 *)
(***************************************************************************)

\* A login screen that is just mounted: every use_state at its initial value.
Opened == [NoForm EXCEPT !.shown = TRUE, !.fresh = TRUE, !.choice = kept]
\* The screen after a step that leaves the tab at route r with auth a.
Screen(r, a) ==
    IF r = "login" \/ a.state = "out" THEN IF form.shown THEN form ELSE Opened ELSE NoForm

\* Requests of a login screen that goes away have nobody to report to.
Unmounted(fl) == [f \in Flights |-> [fl[f] EXCEPT !.mounted = FALSE]]
\* Requests of a session that is dropped.
Behind(fl) == [f \in Flights |-> IF fl[f].kind = "none" THEN fl[f] ELSE [fl[f] EXCEPT !.left = TRUE]]

\* A session behind a cutscene when its account is signed out comes back with its end.
Parked == form.booting # None \/ pending_boot # None
Dropped(more) == slips' = slips \cup more \cup (IF Parked THEN {"late"} ELSE {})

Free == {f \in Flights : flight[f].kind = "none"}
Depart(kind, s, keep) ==
    [kind |-> kind, session |-> s, keep |-> keep, mounted |-> kind # "silent", left |-> FALSE]

\* StoredWallet::load_for: the remembered credential, if it is this account's.  Faulty
\* variant: whoever's it is.
load_for_Any(who) == vault
load_for(who) == IF vault = who THEN vault ELSE Nobody

\* Action::SetAuth: switching identity drops the decrypted rooms.
SetAuth(a) ==
    /\ auth' = a
    /\ rooms' = IF a.session.who # auth.session.who THEN Nobody ELSE rooms

\* unlock_from_vault: wherever the tab sits locked outside the login screen.  fl are the
\* requests still on their way.
Silent(a, r, on, fl) ==
    IF a.state = "locked" /\ r # "login" /\ load_for(a.session.who) # Nobody
    THEN \E f \in Flights :
           /\ fl[f].kind = "none"
           /\ flight' = [fl EXCEPT ![f] =
                  Depart("silent", [who |-> load_for(a.session.who), on |-> on], FALSE)]
    ELSE flight' = fl

-----------------------------------------------------------------------------
(***************************************************************************)
(* Loading the page and moving about.                                       *)
(***************************************************************************)

\* Auth::restore and the initial route; nothing in memory survives, and neither do the
\* requests on their way.
Restored == IF stored = None THEN Out ELSE Is("locked", stored)
Load(r) ==
    /\ auth' = Restored /\ client' = kept /\ pending_boot' = None /\ rooms' = Nobody
    /\ route' = r /\ online' = TRUE
    /\ form' = IF r = "login" \/ Restored.state = "out" THEN Opened ELSE NoForm
    /\ Silent(Restored, r, kept, [f \in Flights |-> Grounded])

SiInit ==
    /\ stored = None /\ vault = Nobody /\ kept = "here" /\ cached = Nobody
    /\ auth = Out /\ client = "here" /\ pending_boot = None /\ rooms = Nobody
    /\ route = "rooms" /\ online = TRUE
    /\ form = [NoForm EXCEPT !.shown = TRUE, !.fresh = TRUE]
    /\ flight = [f \in Flights |-> Grounded]
    /\ reloads = 0 /\ left = FALSE /\ slips = {}

Reload(r) ==
    /\ reloads < MaxReloads
    /\ reloads' = reloads + 1
    /\ Load(r)
    /\ UNCHANGED <<disk, left, slips>>

Navigate(r) ==
    /\ r # route
    /\ route' = r
    /\ form' = Screen(r, auth)
    /\ Silent(auth, r, client, IF form'.shown THEN flight ELSE Unmounted(flight))
    /\ UNCHANGED <<disk, auth, client, pending_boot, rooms, online, reloads, left, slips>>

-----------------------------------------------------------------------------
(***************************************************************************)
(* The login screen.                                                        *)
(***************************************************************************)

\* The mount effects: a remembered credential fills the form and, when the tab is locked
\* as its account, is used at once; an unreachable origin suggests the local backend.
Mount ==
    /\ form.shown /\ form.fresh
    /\ LET known == IF auth.state = "out" THEN vault ELSE load_for(auth.session.who)
           local == ~online /\ auth.state = "out" /\ form.choice = "here"
           at == [form EXCEPT !.fresh = FALSE, !.cred = known,
                     !.choice = IF local THEN "local" ELSE @, !.auto = local]
       IN IF known # Nobody /\ auth.state = "locked"
          THEN /\ form' = [at EXCEPT !.busy = TRUE]
               /\ \E f \in Free :
                    flight' = [flight EXCEPT ![f] =
                        Depart("auto", [who |-> known, on |-> client], FALSE)]
          ELSE form' = at /\ UNCHANGED flight
    /\ UNCHANGED <<disk, tab, reloads, left, slips>>

Ready == form.shown /\ ~form.fresh /\ form.booting = None
Type(a) ==
    /\ Ready /\ a # form.cred
    /\ form' = [form EXCEPT !.cred = a]
    /\ UNCHANGED <<disk, tab, flight, reloads, left, slips>>
pick_conn(c) ==
    /\ Ready /\ form.choice # c
    /\ form' = [form EXCEPT !.choice = c, !.auto = FALSE]
    /\ UNCHANGED <<disk, tab, flight, reloads, left, slips>>

\* The probe's answer, and the effect of the login screen that follows it: the local
\* backend is suggested while the origin is unreachable and taken back afterwards.  Behind
\* the other screens the answer matters to nothing here.
SetOnline ==
    /\ client = "here" /\ form.shown
    /\ online' = ~online
    /\ form' = CASE Ready /\ online /\ auth.state = "out" /\ form.choice = "here" /\ kept = "here" ->
                      [form EXCEPT !.choice = "local", !.auto = TRUE]
                 [] Ready /\ ~online /\ form.auto /\ form.choice = "local" ->
                      [form EXCEPT !.choice = "here", !.auto = FALSE]
                 [] OTHER -> form
    /\ UNCHANGED <<disk, auth, client, pending_boot, rooms, route, flight, reloads, left, slips>>

\* commit_choice and apply_choice: another backend than the persisted one drops the
\* session first; then mode and client follow the choice.
commit_choice(c) ==
    /\ IF c # kept /\ auth.state # "out"
       THEN stored' = None /\ cached' = Nobody /\ SetAuth(Out)
       ELSE UNCHANGED <<stored, cached, auth, rooms>>
    /\ kept' = c /\ client' = c
Dropping == form.choice # kept /\ auth.state # "out"

\* Whether the form holds a credential that derives a wallet; an unlock takes none but the
\* locked account's.
derive_wallet == form.cred # Nobody /\ (auth.state # "out" => form.cred = auth.session.who)

\* A sign-in is sent; one at a time.
Attempt(kind, keep) ==
    /\ Ready /\ ~form.busy /\ derive_wallet
    /\ form' = [form EXCEPT !.busy = TRUE]
    /\ commit_choice(form.choice)
    /\ \E f \in Free :
         flight' = [IF Dropping THEN Behind(flight) ELSE flight EXCEPT ![f] =
             Depart(kind, [who |-> form.cred, on |-> form.choice], keep)]
    /\ left' = FALSE
    /\ IF Dropping THEN Dropped({}) ELSE UNCHANGED slips
    /\ UNCHANGED <<vault, pending_boot, route, online, reloads>>

\* With a phrase or a key, which leave a credential to remember.
on_submit(keep) == Attempt("submit", keep)
\* With the share files of a threshold wallet.
on_tss == form.choice # "local" /\ Attempt("tss", FALSE)
\* With a browser's wallet, or Privy's: offered when signed out.
on_wallet == form.choice # "local" /\ auth.state = "out" /\ Attempt("wallet", FALSE)

\* sign_out of the login screen, "sign in as someone else": the cache is left alone.
SwitchAccount ==
    /\ Ready /\ auth.state # "out"
    /\ stored' = None /\ vault' = Nobody
    /\ SetAuth(Out)
    /\ flight' = Behind(flight)
    /\ left' = TRUE
    /\ Dropped(IF cached # Nobody THEN {"switched"} ELSE {})
    /\ UNCHANGED <<kept, cached, client, pending_boot, route, online, form, reloads>>

\* The cutscene over: Unlocked, and on to the rooms.
on_boot_done ==
    /\ form.booting # None
    /\ SetAuth(Is("unlocked", form.booting))
    /\ route' = "rooms"
    /\ form' = NoForm
    /\ flight' = Unmounted(flight)
    /\ UNCHANGED <<disk, client, pending_boot, online, reloads, left, slips>>

-----------------------------------------------------------------------------
(***************************************************************************)
(* Answers.                                                                 *)
(***************************************************************************)

\* remember_wallet: the preference decides, and switching it off forgets.
remember_wallet(t) ==
    vault' = IF t.kind = "submit" THEN IF t.keep THEN t.session.who ELSE Nobody ELSE vault

\* A sign-in that succeeded is persisted whatever became of the tab meanwhile.
Answered(f) ==
    /\ flight[f].kind # "none"
    /\ LET t == flight[f] IN
       /\ stored' = t.session
       /\ remember_wallet(t)
       /\ pending_boot' = IF t.kind = "silent" THEN t.session ELSE pending_boot
       /\ form' = IF t.mounted THEN [form EXCEPT !.booting = t.session] ELSE form
       /\ slips' = IF t.left THEN slips \cup {"late"} ELSE slips
    /\ flight' = [flight EXCEPT ![f] = Grounded]
    /\ UNCHANGED <<kept, cached, auth, client, rooms, route, online, reloads, left>>

Refused(f) ==
    /\ flight[f].kind # "none"
    /\ form' = IF flight[f].mounted THEN [form EXCEPT !.busy = FALSE] ELSE form
    /\ flight' = [flight EXCEPT ![f] = Grounded]
    /\ UNCHANGED <<disk, tab, reloads, left, slips>>

\* The cutscene of the silent unlock, shown where somebody is signed in and the route is
\* not the login screen.  FinishBoot replaces the session and nothing else.
FinishBoot ==
    /\ pending_boot # None /\ route # "login" /\ auth.state # "out"
    /\ auth' = Is("unlocked", pending_boot)
    /\ pending_boot' = None
    /\ UNCHANGED <<disk, client, rooms, route, online, form, flight, reloads, left, slips>>

-----------------------------------------------------------------------------
(***************************************************************************)
(* A session in use, and its end.                                           *)
(***************************************************************************)

\* The rooms are fetched and cached; with the keys they are decrypted as well.  The fetch
\* answers at once: one that answers after its account was left is not played.
Use ==
    /\ auth.state # "out"
    /\ cached' = auth.session.who
    /\ rooms' = IF auth.state = "unlocked" THEN auth.session.who ELSE rooms
    /\ <<cached', rooms'>> # <<cached, rooms>>
    /\ UNCHANGED <<stored, vault, kept, auth, client, pending_boot, route, online, form, flight,
                   reloads, left, slips>>

\* actions::sign_out: the user's click, an expired session or a 401 to any refresh.
sign_out(r) ==
    /\ auth.state # "out"
    /\ vault' = Nobody /\ stored' = None /\ cached' = Nobody
    /\ SetAuth(Out)
    /\ route' = r /\ form' = Screen(r, Out)
    /\ flight' = Behind(flight)
    /\ left' = TRUE
    /\ Dropped({})
    /\ UNCHANGED <<kept, client, pending_boot, online, reloads>>

\* vault::forget, in the settings.
Forget ==
    /\ auth.state = "unlocked" /\ route # "login" /\ vault # Nobody
    /\ vault' = Nobody
    /\ UNCHANGED <<stored, kept, cached, tab, form, flight, reloads, left, slips>>

SiStep ==
    \/ \E r \in {"login", "rooms"} : Reload(r) \/ Navigate(r)
    \/ \E r \in {route, "login"} : sign_out(r)
    \/ Mount \/ SetOnline \/ SwitchAccount \/ on_boot_done \/ FinishBoot \/ Use \/ Forget
    \/ \E a \in Accounts : Type(a)
    \/ \E c \in Backends : pick_conn(c)
    \/ on_tss \/ on_wallet \/ \E keep \in BOOLEAN : on_submit(keep)
    \/ \E f \in Flights : Answered(f) \/ Refused(f)
SiNext == ("late" \in slips => AfterLate) /\ SiStep
SiSpec == SiInit /\ [][SiNext]_siVars

-----------------------------------------------------------------------------
(***************************************************************************)
(* Properties.                                                              *)
(***************************************************************************)

\* While no answer came late, the tab, local storage and the backend agree on the account:
\* a signed-in tab is the persisted session, on the backend that issued it; an unlock nobody
\* asked for is of the account the tab is locked as; and neither the decrypted rooms nor the
\* disk cache are another account's (commit_choice, load_for, SetAuth, sign_out).
AccountsAgree ==
    "late" \notin slips =>
        /\ auth.state # "out" =>
             /\ auth.session = stored /\ auth.session.on = client
             /\ rooms \in {Nobody, auth.session.who}
             /\ "switched" \notin slips => cached \in {Nobody, auth.session.who}
             /\ pending_boot \in {None, auth.session}
        /\ \A f \in Flights :
             flight[f].kind \in {"auto", "silent"} /\ ~flight[f].left => flight[f].session = auth.session

\* Once signed out, a device keeps no session until somebody asks to sign in (the comment on
\* actions::sign_out, and on sign_out of the login screen).
SignOutSticks == left => stored = None /\ auth.state = "out"
=============================================================================
