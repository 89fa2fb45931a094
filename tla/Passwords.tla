------------------------------ MODULE Passwords ------------------------------
(***************************************************************************)
(* The password screen (components/passwords.rs) over the server's table of   *)
(* sealed entries (routes/passwords.rs, db/passwords.rs), for one wallet.     *)
(*                                                                         *)
(* Every handler works on the entries of the render it was made in; a save    *)
(* splices its answer into that snapshot, a paste and a removal ask for the   *)
(* whole list again.  A secret is a number, 0 the empty one; sealing binds it *)
(* to the id of its entry and is otherwise the core crate's.  Revealing and    *)
(* copying a value only read the rows and are left out.  Only an unlocked session *)
(* is played: a locked one lists the same entries and can only remove.         *)
(***************************************************************************)
EXTENDS Integers, FiniteSets, Functions

CONSTANTS
    Calls,       \* requests and clipboard accesses that may be under way at once
    Before,      \* entries stored before the screen opened: 1..Before
    MaxEntries,  \* MAX_ENTRIES: what one account may hold
    MaxEntryIds, \* bound: ids ever minted
    MaxSecrets,  \* bound: secrets ever typed, generated or pasted
    MaxAsked,    \* bound: saves, removals, pastes, fast passwords and visits
    MaxOdd       \* bound: kinds of mishap in one behaviour

ASSUME PasswordsAssumption ==
    /\ {MaxEntryIds, MaxSecrets} \subseteq Nat /\ Before \in 0..MaxEntryIds /\ Before <= MaxSecrets

EntryIds == 1..MaxEntryIds
NoEntry == 0
Nowhere == -1   \* the draft is closed
Resting == [do |-> "nothing"]
Shut == [of |-> Nowhere, secret |-> 0]

VARIABLES
    table,        \* password_entries of this owner: id -> sealed secret
    entries,      \* `rows` of the screen
    draft,        \* the form: which entry it is for (NoEntry: a new one) and the secret in it
    busy,         \* a save is under way
    arming,       \* the entry whose removal is armed
    arming_paste, \* the entry whose replacement is armed
    call,         \* requests and clipboard accesses under way
    served,       \* history: of the answers not yet taken, which the server gave before which
    overtaken,    \* history: those of them folded after one answered later
    entry_ids,    \* ids minted so far
    secrets,      \* secrets made so far
    asked,        \* saves, removals, pastes, fast passwords and visits so far
    meant,        \* history: the entry each secret was typed for
    odd           \* history: "splice", a save folded into entries that had changed beside it;
                  \* "overtaken", an answer folded after a later one; "lost", a request that
                  \* failed on its way; "left", the screen left while a call was under way

screen == <<entries, draft, busy, arming, arming_paste>>
pwVars == <<table, screen, call, served, overtaken, entry_ids, secrets, asked, meant, odd>>

PwTypeOK ==
    /\ DOMAIN table \subseteq 1..entry_ids /\ DOMAIN entries \subseteq 1..entry_ids
    /\ draft.of \in -1..entry_ids /\ draft.secret \in 0..secrets /\ busy \in BOOLEAN
    /\ {arming, arming_paste} \subseteq 0..entry_ids
    /\ odd \subseteq {"splice", "overtaken", "lost", "left"}

-----------------------------------------------------------------------------
(***************************************************************************)
(* Helpers.                                                                 *)
(***************************************************************************)
With(f, id, secret) == [i \in DOMAIN f \cup {id} |-> IF i = id THEN secret ELSE f[i]]
Without(f, id) == Restrict(f, DOMAIN f \ {id})
Start(c, what) == call[c] = Resting /\ call' = [call EXCEPT ![c] = what]
Count == asked < MaxAsked /\ asked' = asked + 1

\* A secret nobody has used yet, typed, generated or found on the clipboard for an entry.
Fresh(id) ==
    /\ secrets < MaxSecrets /\ secrets' = secrets + 1
    /\ meant' = [meant EXCEPT ![secrets'] = id]

\* Before the screen is opened.
PwIdle ==
    /\ table = [i \in 1..Before |-> i] /\ entry_ids = Before /\ secrets = Before
    /\ meant = [s \in 1..MaxSecrets |-> IF s <= Before THEN s ELSE NoEntry]
    /\ entries = <<>> /\ draft = Shut /\ busy = FALSE
    /\ arming = NoEntry /\ arming_paste = NoEntry
    /\ served = {} /\ overtaken = {} /\ asked = 0 /\ odd = {}
\* Mounting asks for the list.
PwInit ==
    /\ PwIdle
    /\ \E c \in Calls : call = [d \in Calls |-> IF d = c THEN [do |-> "list", here |-> TRUE] ELSE Resting]

-----------------------------------------------------------------------------
(***************************************************************************)
(* The form.                                                                *)
(***************************************************************************)
start_new ==
    /\ draft.of = Nowhere
    /\ draft' = [of |-> NoEntry, secret |-> 0]
    /\ UNCHANGED <<table, entries, busy, arming, arming_paste, call, served, overtaken, entry_ids,
                   secrets, asked, meant, odd>>

\* Faulty variant: the form is named for the entry and keeps what was typed into it.
start_edit_Keeps(id) ==
    /\ id \in DOMAIN entries
    /\ draft' = [draft EXCEPT !.of = id]
    /\ UNCHANGED <<table, entries, busy, arming, arming_paste, call, served, overtaken, entry_ids,
                   secrets, asked, meant, odd>>
\* Offered on every row, also while a save is under way.
start_edit(id) ==
    /\ id \in DOMAIN entries
    /\ draft' = [of |-> id, secret |-> entries[id]]
    /\ UNCHANGED <<table, entries, busy, arming, arming_paste, call, served, overtaken, entry_ids,
                   secrets, asked, meant, odd>>

\* The secret field and the generator; both are disabled during a save.
generate ==
    /\ draft.of # Nowhere /\ ~busy
    /\ Fresh(draft.of)
    /\ draft' = [draft EXCEPT !.secret = secrets']
    /\ UNCHANGED <<table, entries, busy, arming, arming_paste, call, served, overtaken,
                   entry_ids, asked, odd>>

close_draft ==
    /\ draft.of # Nowhere /\ ~busy
    /\ draft' = Shut
    /\ UNCHANGED <<table, entries, busy, arming, arming_paste, call, served, overtaken,
                   entry_ids, secrets, asked, meant, odd>>

\* save: an id is minted for a new entry, the secret sealed for it, and the entries kept as
\* they are for the answer.  What was typed for a new entry is for the one just minted.
save(c) ==
    /\ draft.of # Nowhere /\ ~busy /\ Count
    /\ IF draft.of # NoEntry
       THEN /\ Start(c, [do |-> "replace", id |-> draft.of, secret |-> draft.secret,
                         snapshot |-> entries, here |-> TRUE])
            /\ UNCHANGED <<entry_ids, meant>>
       ELSE /\ entry_ids < MaxEntryIds /\ entry_ids' = entry_ids + 1
            /\ Start(c, [do |-> "create", id |-> entry_ids', secret |-> draft.secret,
                         snapshot |-> entries, here |-> TRUE])
            /\ meant' = [s \in DOMAIN meant |-> IF s = draft.secret THEN entry_ids' ELSE meant[s]]
    /\ busy' = TRUE
    /\ UNCHANGED <<table, entries, draft, arming, arming_paste, served, overtaken, secrets, odd>>

\* fast: a generated secret goes to the clipboard; the button stands where the form is not.
fast(c) ==
    /\ draft.of = Nowhere /\ Count /\ Fresh(NoEntry)
    /\ Start(c, [do |-> "copy", secret |-> secrets', here |-> TRUE])
    /\ UNCHANGED <<table, screen, served, overtaken, entry_ids, odd>>

-----------------------------------------------------------------------------
(***************************************************************************)
(* The rows.                                                                *)
(***************************************************************************)
\* The first click of a removal or a paste; only one button is armed at a time.
Arm(id, forPaste) ==
    /\ arming' = IF forPaste THEN NoEntry ELSE id
    /\ arming_paste' = IF forPaste THEN id ELSE NoEntry

FirstClick(id, forPaste) ==
    /\ id \in DOMAIN entries /\ (IF forPaste THEN arming_paste ELSE arming) # id
    /\ Arm(id, forPaste)
    /\ UNCHANGED <<table, entries, draft, busy, call, served, overtaken, entry_ids, secrets,
                   asked, meant, odd>>

\* remove, armed: the request goes out.
remove(c, id) ==
    /\ id \in DOMAIN entries /\ arming = id /\ arming' = NoEntry /\ Count
    /\ Start(c, [do |-> "remove", id |-> id, here |-> TRUE])
    /\ UNCHANGED <<table, entries, draft, busy, arming_paste, served, overtaken, entry_ids,
                   secrets, meant, odd>>

\* paste, armed: only now the clipboard is read.
paste(c, id) ==
    /\ id \in DOMAIN entries /\ arming_paste = id /\ arming_paste' = NoEntry /\ Count
    /\ Start(c, [do |-> "clipboard", id |-> id, here |-> TRUE])
    /\ UNCHANGED <<table, entries, draft, busy, arming, served, overtaken, entry_ids, secrets,
                   meant, odd>>

\* The clipboard answers: refused or empty, and nothing happens; or the replacement is sealed
\* under the id the click named, and sent.
Clipboard(c) ==
    /\ call[c].do = "clipboard"
    /\ \/ call' = [call EXCEPT ![c] = Resting] /\ UNCHANGED <<secrets, meant>>
       \/ /\ Fresh(call[c].id)
          /\ call' = [call EXCEPT ![c] =
                 [do |-> "paste", id |-> call[c].id, secret |-> secrets', here |-> call[c].here]]
    /\ UNCHANGED <<table, screen, served, overtaken, entry_ids, asked, odd>>

\* copy_then of a fast password: on the clipboard, or into a new draft over whatever is open.
Copied(c) ==
    /\ call[c].do = "copy"
    /\ \/ UNCHANGED draft
       \/ call[c].here /\ draft' = [of |-> NoEntry, secret |-> call[c].secret]
    /\ call' = [call EXCEPT ![c] = Resting]
    /\ UNCHANGED <<table, entries, busy, arming, arming_paste, served, overtaken, entry_ids,
                   secrets, asked, meant, odd>>

-----------------------------------------------------------------------------
(***************************************************************************)
(* The server.  Each handler is one statement or one IMMEDIATE transaction.  *)
(***************************************************************************)
HasAnswer(c) == call[c].do \in {"listed", "done create", "done replace", "done paste", "done remove", "failed"}
Reply(c, answer) ==
    /\ call' = [call EXCEPT ![c] = answer]
    /\ served' = served \cup {<<d, c>> : d \in {d \in Calls : HasAnswer(d)}}
    /\ UNCHANGED <<screen, overtaken, entry_ids, secrets, asked, meant, odd>>
Error(c) == [do |-> "failed", was |-> call[c].do, here |-> call[c].here]
DoneAs == [create |-> "done create", replace |-> "done replace", paste |-> "done paste",
           remove |-> "done remove"]
Done(c) == [call[c] EXCEPT !.do = DoneAs[call[c].do]]

list(c) ==
    /\ call[c].do = "list"
    /\ Reply(c, [do |-> "listed", entries |-> table, here |-> call[c].here])
    /\ UNCHANGED table
\* create_capped: the count and the insert in one transaction; the id is fresh.
create_capped(c) ==
    /\ call[c].do = "create"
    /\ IF Cardinality(DOMAIN table) >= MaxEntries
       THEN Reply(c, Error(c)) /\ UNCHANGED table
       ELSE Reply(c, Done(c)) /\ table' = With(table, call[c].id, call[c].secret)
replace(c) ==
    /\ call[c].do \in {"replace", "paste"}
    /\ IF call[c].id \notin DOMAIN table
       THEN Reply(c, Error(c)) /\ UNCHANGED table
       ELSE Reply(c, Done(c)) /\ table' = With(table, call[c].id, call[c].secret)
delete(c) ==
    /\ call[c].do = "remove"
    /\ IF call[c].id \notin DOMAIN table
       THEN Reply(c, Error(c)) /\ UNCHANGED table
       ELSE Reply(c, Done(c)) /\ table' = Without(table, call[c].id)

\* The request or its answer is lost: the client sees an error either way.
Lose(c) ==
    /\ call[c].do \in {"list", "create", "replace", "paste", "remove", "listed", "done create",
                       "done replace", "done paste", "done remove"}
    /\ call' = [call EXCEPT ![c] = [do |-> "failed", here |-> call[c].here,
           was |-> IF call[c].do = "done create" THEN "create"
                   ELSE IF call[c].do = "done replace" THEN "replace" ELSE call[c].do]]
    /\ odd' = odd \cup {"lost"}
    /\ UNCHANGED <<table, screen, served, overtaken, entry_ids, secrets, asked, meant>>

-----------------------------------------------------------------------------
(***************************************************************************)
(* Answers.                                                                 *)
(***************************************************************************)

\* An answer is taken: the earlier ones still on their way have been overtaken.
Taken(c) ==
    /\ served' = {p \in served : c \notin {p[1], p[2]}}
    /\ overtaken' = (overtaken \cup {d \in Calls : <<d, c>> \in served}) \ {c}
    /\ UNCHANGED <<table, entry_ids, secrets, asked, meant>>
Note(c, kinds) == odd' = odd \cup kinds \cup (IF c \in overtaken THEN {"overtaken"} ELSE {})
Ends(c) == call' = [call EXCEPT ![c] = Resting]

\* reload's answer replaces the rows.
Listed(c) ==
    /\ call[c].do = "listed" /\ Taken(c) /\ Ends(c)
    /\ IF call[c].here THEN entries' = call[c].entries /\ Note(c, {}) ELSE UNCHANGED <<entries, odd>>
    /\ UNCHANGED <<draft, busy, arming, arming_paste>>

\* A save's answer closes the draft, whichever is open by now, and splices the entry into the
\* rows of the click.
Saved(c) ==
    /\ call[c].do \in {"done create", "done replace"} /\ Taken(c) /\ Ends(c)
    /\ IF call[c].here
       THEN /\ draft' = Shut /\ busy' = FALSE
            /\ entries' = With(call[c].snapshot, call[c].id, call[c].secret)
            /\ Note(c, IF Without(entries, call[c].id) # Without(call[c].snapshot, call[c].id)
                       THEN {"splice"} ELSE {})
       ELSE UNCHANGED <<draft, busy, entries, odd>>
    /\ UNCHANGED <<arming, arming_paste>>

\* A removal or a paste that succeeded asks for the list again.
Reask(c) == call' = [call EXCEPT ![c] = [do |-> "list", here |-> call[c].here]]
Changed(c) ==
    /\ call[c].do \in {"done paste", "done remove"} /\ Taken(c) /\ Reask(c)
    /\ UNCHANGED <<screen, odd>>

\* An error is shown; a save's lets the form go.
Failed(c) ==
    /\ call[c].do = "failed" /\ Taken(c) /\ Ends(c)
    /\ busy' = (busy /\ ~(call[c].here /\ call[c].was \in {"create", "replace"}))
    /\ UNCHANGED <<entries, draft, arming, arming_paste, odd>>

\* The screen is left and opened again: its state is gone, its requests are not.
Revisit(c) ==
    /\ call[c] = Resting /\ Count
    /\ entries' = <<>> /\ draft' = Shut /\ busy' = FALSE
    /\ arming' = NoEntry /\ arming_paste' = NoEntry
    /\ call' = [d \in Calls |-> IF d = c THEN [do |-> "list", here |-> TRUE]
                                ELSE IF call[d] = Resting THEN Resting ELSE [call[d] EXCEPT !.here = FALSE]]
    /\ odd' = IF \A d \in Calls : call[d] = Resting THEN odd ELSE odd \cup {"left"}
    /\ UNCHANGED <<table, served, overtaken, entry_ids, secrets, meant>>

PwStep ==
    \/ start_new \/ generate \/ close_draft
    \/ \E id \in EntryIds : start_edit(id) \/ FirstClick(id, TRUE) \/ FirstClick(id, FALSE)
    \/ \E c \in Calls : \/ save(c) \/ fast(c) \/ Clipboard(c) \/ Copied(c) \/ Revisit(c)
                        \/ \E id \in EntryIds : remove(c, id) \/ paste(c, id)
                        \/ list(c) \/ create_capped(c) \/ replace(c) \/ delete(c) \/ Lose(c)
                        \/ Listed(c) \/ Saved(c) \/ Changed(c) \/ Failed(c)
PwNext == PwStep /\ Cardinality(odd') <= MaxOdd
PwSpec == PwInit /\ [][PwNext]_pwVars

-----------------------------------------------------------------------------
(***************************************************************************)
(* Properties.                                                              *)
(***************************************************************************)

\* With nothing under way the screen lists what the server has (reload, save).
ListsTheTable == odd = {} /\ (\A c \in Calls : call[c] = Resting) => entries = table

\* No order of clicks and answers files a secret under an entry it was not typed for
\* (start_edit, save).
SecretsStayHome ==
    "lost" \notin odd => \A id \in DOMAIN table : table[id] # 0 => meant[table[id]] = id

\* "Only one destructive button is ever armed at a time" (paste, remove).
OneArmed == arming = NoEntry \/ arming_paste = NoEntry

\* The password screen is sound: it lists the table once its requests are settled, unless one
\* was lost, overtaken, left behind or spliced into a list that changed beside it; whatever
\* the order of clicks and answers a secret is filed under the entry it was typed for; and
\* one destructive button at most is armed (save, reload, start_edit, paste, remove).
VaultSound == ListsTheTable /\ SecretsStayHome /\ OneArmed
=============================================================================
