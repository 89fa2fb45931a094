------------------------------ MODULE Accounts ------------------------------
(***************************************************************************)
(* Who may act: sign-in by a signed single-use challenge, single-use stream   *)
(* tickets, bearer tokens checked against a cached set of suspended accounts,  *)
(* the administrators who change that set, and the identity a wallet           *)
(* publishes (salt, encryption key and its binding signature).                *)
(*                                                                         *)
(* A handler runs one step per await.  The suspension table is the database's, *)
(* the cache is the process's; refresh_suspensions reads one and then writes    *)
(* the other.  Signatures are external: a request carries one that verifies.    *)
(***************************************************************************)
EXTENDS Naturals, FiniteSets

CONSTANTS
    Wallets,     \* ordinary accounts
    AdminCalls,  \* administrators' requests that may be in flight at once
    Callers,     \* accounts' requests that may be in flight at once
    Passes,      \* challenges and tickets, each issued once
    MaxKeys      \* bound: salts drawn and keys published

NoWallet == "none"

VARIABLES
    suspended,  \* suspended_users
    cache,      \* AppState.suspensions
    admin,      \* per administrator's request: operation, target, step, rows read, and (history)
                \* the requests that had read before and not written yet
    pass,       \* per challenge or ticket: kind, wallet and state
    call,       \* per request of an account: what it is doing and for whom
    users,      \* per wallet: whether it has a row, its published key and signature
    salt,       \* encryption_salts, 0 before the first sign-in
    drawn,      \* salts and keys drawn so far
    told,       \* history: the salts each wallet was handed
    spent,      \* history: how often each pass let somebody in
    drift       \* history: "crossed" (a refresh wrote before one that had read earlier),
                \* "failed" (one could not read)

accVars == <<suspended, cache, admin, pass, call, users, salt, drawn, told, spent, drift>>

Resting == [op |-> NoWallet, who |-> NoWallet, step |-> "free", rows |-> {}, older |-> {}]
NoCall == [op |-> NoWallet, who |-> NoWallet, step |-> "free"]
AccInit ==
    /\ suspended = {} /\ cache = {}
    /\ admin = [a \in AdminCalls |-> Resting]
    /\ pass = [p \in Passes |-> [kind |-> NoWallet, who |-> NoWallet, state |-> "unissued"]]
    /\ call = [c \in Callers |-> NoCall]
    /\ users = [w \in Wallets |-> [row |-> FALSE, key |-> 0, sig |-> 0]]
    /\ salt = [w \in Wallets |-> 0] /\ drawn = 0
    /\ told = [w \in Wallets |-> {}] /\ spent = [p \in Passes |-> 0] /\ drift = {}

is_suspended(w) == w \in cache

-----------------------------------------------------------------------------
(***************************************************************************)
(* Administrators.                                                          *)
(***************************************************************************)

\* suspend, reinstate, evict: the database first.  evict also withdraws the
\* published key, in evict_from_all_rooms' transaction.
Sanction(a, op, w) ==
    /\ admin[a].step = "free"
    /\ suspended' = IF op = "reinstate" THEN suspended \ {w} ELSE suspended \cup {w}
    /\ users' = IF op = "evict" THEN [users EXCEPT ![w].key = 0, ![w].sig = 0] ELSE users
    /\ admin' = [admin EXCEPT ![a] = [op |-> op, who |-> w, step |-> "read", rows |-> {}, older |-> {}]]
    /\ UNCHANGED <<cache, pass, call, salt, drawn, told, spent, drift>>

\* Faulty variant: the handler answers without reading the table again.
ReadSuspended_Skipped(a) ==
    /\ admin[a].step = "read"
    /\ admin' = [admin EXCEPT ![a] = Resting]
    /\ UNCHANGED <<suspended, cache, pass, call, users, salt, drawn, told, spent, drift>>
Writing == {a \in AdminCalls : admin[a].step = "write"}
\* refresh_suspensions: suspended_addresses ...
ReadSuspended(a) ==
    /\ admin[a].step = "read"
    /\ \/ /\ admin' = [admin EXCEPT ![a].step = "write", ![a].rows = suspended, ![a].older = Writing]
          /\ UNCHANGED drift
       \/ admin' = [admin EXCEPT ![a] = Resting] /\ drift' = drift \cup {"failed"}
    /\ UNCHANGED <<suspended, cache, pass, call, users, salt, drawn, told, spent>>

\* ... then the whole set; disconnect follows, which changes nothing here.
WriteCache(a) ==
    /\ admin[a].step = "write"
    /\ cache' = admin[a].rows
    /\ drift' = IF admin[a].older = {} THEN drift ELSE drift \cup {"crossed"}
    /\ admin' = [b \in AdminCalls |-> IF b = a THEN Resting ELSE [admin[b] EXCEPT !.older = @ \ {a}]]
    /\ UNCHANGED <<suspended, pass, call, users, salt, drawn, told, spent>>

\* The process goes down with every request and ticket, and comes up with the table.
Restart ==
    /\ \E a \in AdminCalls : admin[a].step # "free"
    /\ cache' = suspended
    /\ admin' = [a \in AdminCalls |-> Resting] /\ call' = [c \in Callers |-> NoCall]
    /\ pass' = [p \in Passes |-> IF pass[p].kind = "ticket" THEN [pass[p] EXCEPT !.state = "gone"] ELSE pass[p]]
    /\ drift' = {}
    /\ UNCHANGED <<suspended, users, salt, drawn, told, spent>>

-----------------------------------------------------------------------------
(***************************************************************************)
(* Accounts.                                                                *)
(***************************************************************************)

\* challenge, for anybody; issue_ticket, for a caller the extractor admits.
Issue(p, kind, w) ==
    /\ pass[p].state = "unissued"
    /\ kind = "ticket" => users[w].row /\ ~is_suspended(w)
    /\ pass' = [pass EXCEPT ![p] = [kind |-> kind, who |-> w, state |-> "open"]]
    /\ UNCHANGED <<suspended, cache, admin, call, users, salt, drawn, told, spent, drift>>

\* CHALLENGE_TTL_MS or TICKET_TTL passes.
Expire(p) ==
    /\ pass[p].state = "open"
    /\ pass' = [pass EXCEPT ![p].state = "stale"]
    /\ UNCHANGED <<suspended, cache, admin, call, users, salt, drawn, told, spent, drift>>

\* Faulty variant: the row is read here and deleted once the login is through.
Consume_Later(c, p) ==
    /\ call[c].step = "free" /\ pass[p].state = "open"
    /\ call' = [call EXCEPT ![c] = [op |-> pass[p].kind, who |-> pass[p].who, step |-> "checked"]]
    /\ pass' = [pass EXCEPT ![p].state = "open"]
    /\ spent' = [spent EXCEPT ![p] = @ + 1]
    /\ UNCHANGED <<suspended, cache, admin, users, salt, drawn, told, drift>>
\* consume_challenge and TicketStore::consume: taken out before anything is looked
\* at; then the expiry, the wallet or address it was issued for, the signature.
Consume(c, p) ==
    /\ call[c].step = "free" /\ pass[p].state \in {"open", "stale"}
    /\ pass' = [pass EXCEPT ![p].state = "gone"]
    /\ \E genuine \in BOOLEAN :
         IF genuine /\ pass[p].state = "open"
         THEN /\ call' = [call EXCEPT ![c] = [op |-> pass[p].kind, who |-> pass[p].who, step |-> "checked"]]
              /\ spent' = [spent EXCEPT ![p] = @ + 1]
         ELSE UNCHANGED <<call, spent>>
    /\ UNCHANGED <<suspended, cache, admin, users, salt, drawn, told, drift>>

\* AuthUser on a request that publishes a key.
PutKey(c, w) ==
    /\ call[c].step = "free" /\ users[w].row /\ ~is_suspended(w)
    /\ call' = [call EXCEPT ![c] = [op |-> "put_key", who |-> w, step |-> "admitted"]]
    /\ UNCHANGED <<suspended, cache, admin, pass, users, salt, drawn, told, spent, drift>>

\* login's own suspension check, and resolve_active's on a stream.
Gate(c) ==
    /\ call[c].step = "checked"
    /\ call' = [call EXCEPT ![c] = IF is_suspended(call[c].who) \/ call[c].op = "ticket" THEN NoCall
                                   ELSE [@ EXCEPT !.step = "admitted"]]
    /\ UNCHANGED <<suspended, cache, admin, pass, users, salt, drawn, told, spent, drift>>

\* An absent key leaves both columns alone.
upsert_user(w, key) ==
    users' = [users EXCEPT ![w] = IF key = 0 THEN [@ EXCEPT !.row = TRUE] ELSE [row |-> TRUE, key |-> key, sig |-> key]]
set_encryption_key(w, key) == users' = [users EXCEPT ![w].key = key, ![w].sig = key]

\* ON CONFLICT DO NOTHING, then the row that is there.
get_or_create_salt(w) ==
    /\ salt' = [salt EXCEPT ![w] = IF @ = 0 THEN drawn + 1 ELSE @]
    /\ told' = [told EXCEPT ![w] = @ \cup {salt'[w]}]

\* The admitted request writes: login upserts the account and hands out the salt,
\* with or without a key; encryption_key replaces the pair.
Act(c) ==
    /\ call[c].step = "admitted" /\ drawn < MaxKeys
    /\ drawn' = drawn + 1
    /\ IF call[c].op = "put_key"
       THEN set_encryption_key(call[c].who, drawn + 1) /\ UNCHANGED <<salt, told>>
       ELSE /\ \E key \in {0, drawn + 1} : upsert_user(call[c].who, key)
            /\ get_or_create_salt(call[c].who)
    /\ call' = [call EXCEPT ![c] = NoCall]
    /\ UNCHANGED <<suspended, cache, admin, pass, spent, drift>>

AccNext ==
    \/ \E a \in AdminCalls : \/ \E op \in {"suspend", "reinstate", "evict"}, w \in Wallets : Sanction(a, op, w)
                             \/ ReadSuspended(a) \/ WriteCache(a)
    \/ Restart
    \/ \E p \in Passes : \/ \E kind \in {"challenge", "ticket"}, w \in Wallets : Issue(p, kind, w)
                         \/ Expire(p)
    \/ \E c \in Callers : \/ \E p \in Passes : Consume(c, p)
                          \/ \E w \in Wallets : PutKey(c, w)
                          \/ Gate(c) \/ Act(c)

AccSpec == AccInit /\ [][AccNext]_accVars

-----------------------------------------------------------------------------
\* With no administrator's request half way, the cached set is the table
\* (refresh_suspensions, "re-reading is the only update that cannot drift"), as long as
\* the refreshes wrote in the order they read and none failed; a restart heals both.
SuspensionHolds ==
    (\A a \in AdminCalls : admin[a].step = "free") /\ drift = {} => cache = suspended

\* A challenge or ticket lets at most one request in, however many present it
\* ("Redeem a ticket exactly once"); concurrent first sign-ins agree on one salt, and a
\* published key always carries its own binding signature ("The two columns always move
\* as a pair").
SignInsSound ==
    /\ \A p \in Passes : spent[p] <= 1
    /\ \A w \in Wallets : told[w] \subseteq {salt[w]} \ {0} /\ users[w].sig = users[w].key
=============================================================================
