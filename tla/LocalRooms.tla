----------------------------- MODULE LocalRooms -----------------------------
(***************************************************************************)
(* Local mode: the backend that answers the client's requests from IndexedDB     *)
(* (web/src/local), with several tabs of the browser open on one account.        *)
(*                                                                         *)
(* One IndexedDB transaction is one step.  commit_with_serial is one             *)
(* transaction; what a handler reads before it (find_message), the range a purge  *)
(* deletes and the salt are transactions of their own.  A message's content is    *)
(* the serial of the write that gave it.  Each tab folds /sync pages into what it *)
(* shows.  Reads for one answer (history, threads, search) are left out.          *)
(***************************************************************************)
EXTENDS Naturals, FiniteSets, FiniteSetsExt

CONSTANTS
    Tabs,       \* tabs of the browser
    MsgIds,     \* message ids a session mints
    MaxWrites,  \* bound on the serial counter
    MaxMints,   \* bound on the salts drawn
    PageRows    \* logic::SYNC_PAGE

ASSUME LocalAssumption == MaxWrites \in Nat /\ MaxMints \in Nat /\ PageRows \in Nat \ {0}

NoSalt == 0

VARIABLES
    serial,   \* META "serial"
    table,    \* MESSAGES, keyed by serial: id and msgType
    msgid,    \* MSGID: per message, the key of its row, 0 for none
    meta_salt, \* META "salt"
    mints,    \* salts drawn
    sealed,   \* the salts that notes, passwords and media at rest were sealed under
    tab,      \* per tab: what it has read, its key's salt, its cursor and what it shows
    mishap    \* history: "torn" (a purge was cut short after its range and no marker has
              \* come since), "crossed" (a tab stored the salt it minted over another's)

loVars == <<serial, table, msgid, meta_salt, mints, sealed, tab, mishap>>

NewTab == [op |-> "idle", id |-> 0, key |-> 0, salt |-> NoSalt, cursor |-> 0, shows |-> {}]
LoInit ==
    /\ serial = 0 /\ table = {} /\ msgid = [i \in MsgIds |-> 0]
    /\ meta_salt = NoSalt /\ mints = 0 /\ sealed = {} /\ mishap = {}
    /\ tab = [t \in Tabs |-> NewTab]

RowAt(n, i, type) == [serial |-> n, id |-> i, type |-> type]
Keep(t, op, i, k) == tab' = [tab EXCEPT ![t].op = op, ![t].id = i, ![t].key = k]

-----------------------------------------------------------------------------
(***************************************************************************)
(* Rooms.                                                                   *)
(***************************************************************************)

\* Faulty variant: the counter is read in a transaction of its own and may be stale.
commit_with_serial_Stale(drop, i, type) ==
    \E n \in {serial, serial + 1} :
        /\ n \in 1..MaxWrites
        /\ serial' = n
        /\ table' = {r \in table : r.serial \notin (drop \cup {n})} \cup {RowAt(n, i, type)}
\* commit_with_serial: the next serial and the writes built on it, in one transaction.
commit_with_serial(drop, i, type) ==
    /\ serial < MaxWrites
    /\ serial' = serial + 1
    /\ table' = {r \in table : r.serial \notin drop} \cup {RowAt(serial + 1, i, type)}

send_message(t, i) ==
    /\ tab[t].op = "idle" /\ tab[t].salt # NoSalt /\ msgid[i] = 0
    /\ commit_with_serial({}, i, "add")
    /\ msgid' = [msgid EXCEPT ![i] = serial']
    /\ UNCHANGED <<meta_salt, mints, sealed, tab, mishap>>

\* find_message, for an edit, a deletion or a reaction: the row must be there.
find_message(t, i, op) ==
    /\ tab[t].op = "idle" /\ tab[t].salt # NoSalt
    /\ \E r \in table : r.serial = msgid[i] /\ r.id = i
    /\ Keep(t, op, i, msgid[i])
    /\ UNCHANGED <<serial, table, msgid, meta_salt, mints, sealed, mishap>>

\* mutate_message: the row read before moves to the fresh serial; the key read before
\* is the one deleted.
mutate_message(t, type) ==
    /\ tab[t].op = type /\ Keep(t, "idle", 0, 0)
    /\ commit_with_serial({tab[t].key}, tab[t].id, type)
    /\ msgid' = [msgid EXCEPT ![tab[t].id] = serial']
    /\ UNCHANGED <<meta_salt, mints, sealed, mishap>>

\* react: an event row beside the message.
react(t) ==
    /\ tab[t].op = "emoticon" /\ Keep(t, "idle", 0, 0)
    /\ commit_with_serial({}, tab[t].id, "emoticon")
    /\ UNCHANGED <<msgid, meta_salt, mints, sealed, mishap>>

\* purge_room: the room's rows go, then the marker comes.
PurgeRange(t) ==
    /\ tab[t].op = "idle" /\ tab[t].salt # NoSalt
    /\ table' = {} /\ Keep(t, "purge", 0, 0)
    /\ UNCHANGED <<serial, msgid, meta_salt, mints, sealed, mishap>>
PurgeMarker(t) ==
    /\ tab[t].op = "purge" /\ Keep(t, "idle", 0, 0)
    /\ commit_with_serial({}, 0, "delete_all") /\ mishap' = mishap \ {"torn"}
    /\ UNCHANGED <<msgid, meta_salt, mints, sealed>>

\* A page of /sync: the rows past the cursor in serial order, at most PageRows.
sync_page(t) ==
    LET past == {r \in table : r.serial > tab[t].cursor} IN
    {r \in past : Cardinality({q \in past : q.serial < r.serial}) < PageRows}

\* The client's fold of one row into what a tab shows.
FoldRow(shows, r) ==
    CASE r.type \in {"add", "edit"} -> {m \in shows : m.id # r.id} \cup {[id |-> r.id, content |-> r.serial]}
      [] r.type = "delete" -> {m \in shows : m.id # r.id}
      [] r.type = "delete_all" -> {}
      [] OTHER -> shows
\* A page folded in order: what is left of each message is the last word on it.
FoldPage(shows, page) ==
    LET cleared == Max({0} \cup {r.serial : r \in {q \in page : q.type = "delete_all"}})
        words == {r \in page : r.serial > cleared /\ r.type # "emoticon"}
        last == {r \in words : \A q \in words : q.id = r.id => q.serial <= r.serial}
        spared == {m \in shows : cleared = 0 /\ \A r \in last : r.id # m.id}
    IN spared \cup UNION {FoldRow({}, r) : r \in last}

\* drain_sync, a page at a time.
Drain(t) ==
    /\ sync_page(t) # {}
    /\ tab' = [tab EXCEPT ![t].shows = FoldPage(@, sync_page(t)),
                          ![t].cursor = Max({r.serial : r \in sync_page(t)})]
    /\ UNCHANGED <<serial, table, msgid, meta_salt, mints, sealed, mishap>>

-----------------------------------------------------------------------------
(***************************************************************************)
(* The account's salt, and what is sealed under the key derived from it.    *)
(***************************************************************************)

\* get_or_create_salt: the stored salt, or a mint to be stored.
ReadSalt(t) ==
    /\ tab[t].op = "idle" /\ tab[t].salt = NoSalt
    /\ IF meta_salt # NoSalt THEN tab' = [tab EXCEPT ![t].salt = meta_salt] /\ UNCHANGED mints
       ELSE mints < MaxMints /\ mints' = mints + 1 /\ Keep(t, "mint", 0, mints + 1)
    /\ UNCHANGED <<serial, table, msgid, meta_salt, sealed, mishap>>
PutSalt(t) ==
    /\ tab[t].op = "mint"
    /\ meta_salt' = tab[t].key /\ mishap' = mishap \cup {x \in {"crossed"} : meta_salt # NoSalt}
    /\ tab' = [tab EXCEPT ![t].op = "idle", ![t].key = 0, ![t].salt = tab[t].key]
    /\ UNCHANGED <<serial, table, msgid, mints, sealed>>

\* seal: a note, a password or a medium under the tab's key.
SealAtRest(t) ==
    /\ tab[t].op = "idle" /\ tab[t].salt # NoSalt
    /\ sealed' = sealed \cup {tab[t].salt}
    /\ UNCHANGED <<serial, table, msgid, meta_salt, mints, tab, mishap>>

\* A reload of the tab: the page's memory is gone, the database stays.
Reload(t) ==
    /\ tab' = [tab EXCEPT ![t] = NewTab] /\ mishap' = mishap \cup {x \in {"torn"} : tab[t].op = "purge"}
    /\ UNCHANGED <<serial, table, msgid, meta_salt, mints, sealed>>

LoNext ==
    \E t \in Tabs :
        \/ \E i \in MsgIds : send_message(t, i)
        \/ \E i \in MsgIds, op \in {"edit", "delete", "emoticon"} : find_message(t, i, op)
        \/ \E type \in {"edit", "delete"} : mutate_message(t, type)
        \/ react(t) \/ PurgeRange(t) \/ PurgeMarker(t) \/ Drain(t)
        \/ ReadSalt(t) \/ PutSalt(t) \/ SealAtRest(t) \/ Reload(t)

-----------------------------------------------------------------------------
\* Two tabs that have drained everything show the same messages with the same
\* content, whatever the tabs wrote between each other's reads and however the pages
\* fell (commit_with_serial: "what matters to /sync is strict monotonicity, which the
\* single transaction guarantees even across tabs").  A purge under way, or cut short
\* by a reload, is between its two transactions: the rows are gone and no row says so.
Drained(t) == sync_page(t) = {}
TabsAgree ==
    \A t, u \in Tabs :
        Drained(t) /\ Drained(u) /\ "torn" \notin mishap /\ (\A v \in Tabs : tab[v].op # "purge")
            => tab[t].shows = tab[u].shows

\* What is sealed at rest can be opened with the stored salt: it is minted once and
\* never replaced (get_or_create_salt: "a new salt would make every stored note and
\* password permanently undecryptable"), unless two tabs of a new account both found none.
NothingOrphaned == "crossed" \notin mishap => \A s \in sealed : s = meta_salt

\* What the tabs show and what is at rest stay whole.
LocalSound == TabsAgree /\ NothingOrphaned
=============================================================================
