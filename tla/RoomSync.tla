------------------------------ MODULE RoomSync ------------------------------
(***************************************************************************)
(* One viewer's web client following the room of Messages: the fold of      *)
(* /sync pages (web/src/store.rs), the reducer that stores it on disk        *)
(* (state.rs, cache.rs, session.rs) and the tasks that fetch (actions.rs).   *)
(*                                                                         *)
(* A task is a slot of `job`: it asks, the server reads its answer, the      *)
(* answer is folded later.  Tasks see the store as it was at the render they *)
(* captured it from: `handle` is the cursor in that snapshot.                *)
(***************************************************************************)
EXTENDS Messages, FiniteSetsExt

CONSTANTS
    Viewer,        \* the client's user
    Blocked,       \* users the viewer has blocked
    Jobs,          \* fetching tasks that may be in flight at once
    Moves,         \* the optional client behaviours this instance exercises
    SyncLimit,     \* SYNC_LIMIT: rows of one /sync page
    HistoryLimit,  \* rows of one history page (50)
    MaxRows,       \* MAX_ROWS: rows the cache keeps
    MaxSlips       \* bound: a behaviour ends with this many kinds of slip

ASSUME RoomSyncAssumption ==
    /\ Viewer \in Users /\ Blocked \subseteq Users \ {Viewer}
    /\ Moves \subseteq {"older", "resync", "reload", "fail", "echo", "quota"}
    /\ {SyncLimit, HistoryLimit, MaxRows} \subseteq Nat \ {0} /\ MaxSlips \in Nat

VARIABLES
    room,    \* RoomState: messages, reactions, cursor, more (has_more_history)
    disk,    \* the CachedRoom on disk, or Nothing
    saved,   \* the sync cursor on disk
    handle,  \* the cursor in the store snapshot that event handlers hold
    job,     \* fetching tasks
    echo,    \* the answer to the viewer's own send, on its way back
    slips    \* history: the slips so far that some promise of the client excepts

client == <<room, disk, saved, handle, job, echo, slips>>
syncVars == <<server, client>>

Nothing == [rows |-> {}, reactions |-> [id \in Ids |-> {}], more |-> FALSE, kept |-> FALSE]
Quiet == [step |-> "idle"]
Fresh == [messages |-> [id \in Ids |-> None], reactions |-> [id \in Ids |-> {}],
          cursor |-> 0, more |-> FALSE]
Larger(a, b) == IF a > b THEN a ELSE b

\* A slip is noted: "overlap" (a task starts while another is under way), "echo" (an own
\* send is folded beside a task, late, or over rows still to come), "cut" (a replay from
\* behind the cursor ends before it is through), "hydrated" (the cached rows raise the
\* cursor above the saved one), "trimmed" (the cache does not take every row or
\* reaction), "quota" (it takes none), "resync".
Slip(kinds) == slips' = slips \cup kinds
When(kind, cond) == IF cond THEN {kind} ELSE {}

ClientInit ==
    /\ room = Fresh /\ disk = Nothing /\ saved = 0 /\ handle = 0
    /\ job = [j \in Jobs |-> Quiet] /\ echo = None /\ slips = {}
SyncInit == MessagesInit /\ ClientInit

-----------------------------------------------------------------------------
(***************************************************************************)
(* What the server answers.                                                 *)
(***************************************************************************)
Readable == {rows[id] : id \in {i \in Ids : Exists(i) /\ rows[i].by \notin Blocked}}

\* sync_messages: of the rows above the cursor those with the lowest serials, a page of them.
Above(since) == {r \in Readable : r.serial > since}
sync_messages(since) ==
    [page |-> {r \in Above(since) : Cardinality({o \in Above(since) : o.serial < r.serial}) < SyncLimit},
     more |-> Cardinality(Above(since)) > SyncLimit]

\* Newer on the (messageTimestamp, msgSerial) key.
Later(a, b) == a.at > b.at \/ (a.at = b.at /\ a.serial > b.serial)
Newest(set, n) == {r \in set : Cardinality({o \in set : Later(o, r)}) < n}

\* get_messages: the newest live channel messages older than a timestamp (0: any).
get_messages(before) ==
    Newest({r \in Readable : r.kind \in Renderable /\ r.of = 0 /\ (before = 0 \/ r.at < before)}, HistoryLimit)

-----------------------------------------------------------------------------
(***************************************************************************)
(* RoomState.                                                               *)
(***************************************************************************)

\* Faulty variant: a removal is taken for one more reaction.
React_AddsOnly(who, e) == who \cup {e.by}
\* The reactors of a message after one reaction event.
React(who, e) == IF e.kind = "emoticon_add" THEN who \cup {e.by} ELSE who \ {e.by}

Advance(cursor, serial) == Larger(cursor, serial)

\* fold_one: one event of a page.
fold_one(st, e) ==
    LET seen == [st EXCEPT !.cursor = Advance(@, e.serial)]
    IN CASE e.kind \in Renderable -> [seen EXCEPT !.messages[e.id] = e]
         [] e.kind = "delete" -> [seen EXCEPT !.messages[e.id] = None, !.reactions[e.id] = {}]
         [] e.kind = "delete_all" -> [Fresh EXCEPT !.cursor = seen.cursor]
         [] e.kind \in Events -> [seen EXCEPT !.reactions[e.of] = React(@, e)]
\* fold: the events of a page one by one, in the order of their serials (ORDER BY msg_serial).
fold(st, page) ==
    LET folded[n \in 0..MaxSerial] ==
            IF n = 0 THEN st
            ELSE IF \E e \in page : e.serial = n
            THEN fold_one(folded[n - 1], CHOOSE e \in page : e.serial = n)
            ELSE folded[n - 1]
    IN folded[MaxSerial]

\* merge_history: rows that are not held yet; the cursor stays.
merge_history(st, page) ==
    [st EXCEPT !.messages = [id \in Ids |->
        IF st.messages[id] = None /\ \E r \in page : r.id = id THEN CHOOSE r \in page : r.id = id
        ELSE st.messages[id]]]

Held(st) == {st.messages[id] : id \in {i \in Ids : st.messages[i] # None}}

\* to_cached: the newest rows, and the reactions to those.
to_cached(st) ==
    LET kept == Newest(Held(st), MaxRows)
    IN [rows |-> kept, more |-> st.more, kept |-> TRUE,
        reactions |-> [id \in Ids |-> IF \E r \in kept : r.id = id THEN st.reactions[id] ELSE {}]]

\* from_cached: the cursor is the highest of the rows' serials and the saved one.
from_cached(cached, persisted) ==
    [messages |-> merge_history(Fresh, cached.rows).messages, reactions |-> cached.reactions,
     cursor |-> Max({persisted} \cup {r.serial : r \in cached.rows}), more |-> cached.more]

oldest_timestamp(st) ==
    IF Held(st) = {} THEN 0 ELSE Min({r.at : r \in Held(st)})

-----------------------------------------------------------------------------
(***************************************************************************)
(* The reducer.                                                             *)
(***************************************************************************)

\* save_room and save_cursor write separately; a full storage is ignored.
Keep(st, kinds) ==
    LET trimmed == When("trimmed", \/ Cardinality(Held(st)) > MaxRows
                                   \/ \E id \in Ids : st.reactions[id] # {} /\ st.messages[id] = None)
    IN \/ disk' = to_cached(st) /\ Slip(kinds \cup trimmed)
       \/ "quota" \in Moves /\ disk' = disk /\ to_cached(st) # disk /\ Slip(kinds \cup {"quota"})

\* Faulty variant: a fold saves its cursor and not its rows.
Sync_NoCache(page, kinds) ==
    /\ room' = fold(room, page)
    /\ saved' = IF page # {} THEN room'.cursor ELSE saved
    /\ Slip(kinds) /\ UNCHANGED disk
\* Action::Sync.
Sync(page, kinds) ==
    /\ room' = fold(room, page)
    /\ saved' = IF page # {} THEN room'.cursor ELSE saved
    /\ Keep(room', kinds)

\* Action::History.
History(page, more) ==
    /\ room' = [merge_history(room, page) EXCEPT !.more = more]
    /\ Keep(room', {}) /\ UNCHANGED saved

-----------------------------------------------------------------------------
(***************************************************************************)
(* Tasks.                                                                   *)
(***************************************************************************)
Is(j, step) == job[j].step = step
Now(j, what) == job' = [job EXCEPT ![j] = what]
Overlap(j) == When("overlap", \E o \in Jobs \ {j} : ~Is(o, "idle"))
Drain(since) == [step |-> "sync", since |-> since]

\* A wake-up or the safety interval: drain_sync from the captured snapshot.
Wake(j) ==
    /\ Is(j, "idle") /\ Now(j, Drain(handle)) /\ Slip(Overlap(j))
    /\ UNCHANGED <<server, room, disk, saved, handle, echo>>

\* The transport reconnects or the room is switched to: handlers capture the store anew.
Capture ==
    /\ handle # room.cursor /\ handle' = room.cursor
    /\ UNCHANGED <<server, room, disk, saved, job, echo, slips>>

\* open_room: what is in memory, else the cache, else a first history page; then drain.
Open(j) ==
    /\ Is(j, "idle")
    /\ LET since == Larger(room.cursor, saved)
       IN IF Held(room) # {} THEN Now(j, Drain(since)) /\ UNCHANGED room
          ELSE IF disk.kept THEN Now(j, Drain(since)) /\ room' = from_cached(disk, saved)
          ELSE Now(j, [step |-> "history", before |-> 0, since |-> since, drain |-> TRUE]) /\ UNCHANGED room
    /\ Slip(Overlap(j) \cup When("hydrated", room'.cursor > Larger(room.cursor, saved)))
    /\ UNCHANGED <<server, disk, saved, handle, echo>>

\* resync_room: cache and memory are dropped; the drain starts at the cursor of the
\* snapshot the button held.
Resync(j) ==
    /\ "resync" \in Moves /\ Is(j, "idle") /\ Held(room) # {}
    /\ Now(j, [step |-> "history", before |-> 0, since |-> room.cursor, drain |-> TRUE])
    /\ disk' = Nothing /\ room' = Fresh /\ Slip(Overlap(j) \cup {"resync"})
    /\ UNCHANGED <<server, saved, handle, echo>>

\* load_older: offered while there is more behind the oldest row held.
LoadOlder(j) ==
    /\ "older" \in Moves /\ Is(j, "idle") /\ room.more /\ Held(room) # {}
    /\ Now(j, [step |-> "history", before |-> oldest_timestamp(room), since |-> 0, drain |-> FALSE])
    /\ Slip(Overlap(j))
    /\ UNCHANGED <<server, room, disk, saved, handle, echo>>

\* The server reads the answer to a task's request.
Answer(j) ==
    /\ \/ /\ Is(j, "sync")
          /\ Now(j, [step |-> "page", since |-> job[j].since, answer |-> sync_messages(job[j].since)])
       \/ /\ Is(j, "history")
          /\ Now(j, [step |-> "past", since |-> job[j].since, drain |-> job[j].drain,
                     answer |-> get_messages(job[j].before)])
    /\ UNCHANGED <<server, room, disk, saved, handle, echo, slips>>

\* Faulty variant: one page and no more.
Next_OnePage(since, page, more) == Quiet
\* next_sync_cursor: stop on the last page and on an empty one.
next_sync_cursor(since, page, more) ==
    IF more /\ page # {} THEN Drain(Larger(since, Max({e.serial : e \in page}))) ELSE Quiet

\* drain_sync folds a page and goes on.
TakePage(j) ==
    /\ Is(j, "page")
    /\ LET a == job[j].answer
       IN Sync(a.page, {}) /\ Now(j, next_sync_cursor(job[j].since, a.page, a.more))
    /\ UNCHANGED <<server, handle, echo>>

\* A history page is merged; a first page is full or the last, an older one is empty or not.
TakeHistory(j) ==
    /\ Is(j, "past")
    /\ LET page == job[j].answer
       IN /\ History(page, IF job[j].drain THEN Cardinality(page) >= HistoryLimit ELSE page # {})
          /\ Now(j, IF job[j].drain THEN Drain(job[j].since) ELSE Quiet)
    /\ UNCHANGED <<server, handle, echo>>

\* A drain that started behind the cursor, and has not caught up with it again.
Cut(jobs) == When("cut", \E j \in jobs : job[j].step \in {"sync", "page"} /\ job[j].since < room.cursor)

\* The request fails: the task ends.
Fail(j) ==
    /\ "fail" \in Moves /\ ~Is(j, "idle") /\ Now(j, Quiet) /\ Slip(Cut({j}))
    /\ UNCHANGED <<server, room, disk, saved, handle, echo>>

\* The tab is closed and opened again.
Reload ==
    /\ "reload" \in Moves /\ room # Fresh
    /\ room' = Fresh /\ handle' = 0 /\ job' = [j \in Jobs |-> Quiet] /\ echo' = None
    /\ Slip(Cut(Jobs))
    /\ UNCHANGED <<server, disk, saved>>

\* send_message folds the row the server answered with.
TakeEcho ==
    /\ echo # None
    /\ Sync({echo}, When("echo", \/ \E j \in Jobs : ~Is(j, "idle")
                                 \/ echo.serial <= room.cursor
                                 \/ \E r \in Readable : room.cursor < r.serial /\ r.serial < echo.serial))
    /\ echo' = None
    /\ UNCHANGED <<server, handle, job>>

\* A server step; the answer to the viewer's own send may be on its way to this tab.
Serve ==
    /\ ServerStep
    /\ \/ UNCHANGED client
       \/ /\ "echo" \in Moves /\ echo = None /\ minted' # minted
          /\ rows'[minted'] # None /\ rows'[minted'].kind = "add" /\ rows'[minted'].by = Viewer
          /\ echo' = rows'[minted']
          /\ UNCHANGED <<room, disk, saved, handle, job, slips>>

Fetch(j) == Answer(j) \/ TakePage(j) \/ TakeHistory(j)
SyncStep ==
    \/ Serve \/ Capture \/ Reload \/ TakeEcho
    \/ \E j \in Jobs : Wake(j) \/ Open(j) \/ Resync(j) \/ LoadOlder(j) \/ Fetch(j) \/ Fail(j)

\* Promises that except a slip say nothing beyond it.
SyncNext == Cardinality(slips) < MaxSlips /\ SyncStep

\* Requests are answered and answers folded; the safety interval keeps asking.
SyncFairness == /\ \A j \in Jobs : WF_syncVars(Fetch(j))
                /\ WF_syncVars(\E j \in Jobs : Wake(j))

SyncSpec == SyncInit /\ [][SyncNext]_syncVars
SyncFairSpec == SyncSpec /\ SyncFairness

-----------------------------------------------------------------------------
(***************************************************************************)
(* Properties.                                                              *)
(***************************************************************************)

\* aggregate_emoticons: who has a reaction to a message, for this viewer.
aggregate_emoticons(id) ==
    LET events(u) == {r \in Readable : r.kind \in Events /\ r.of = id /\ r.by = u}
    IN {u \in Users : \E r \in events(u) : r.kind = "emoticon_add"
                                         /\ \A o \in events(u) : o.serial <= r.serial}

Visible(id) == get_message(id) /\ rows[id].kind \in Renderable /\ rows[id].by \notin Blocked

\* The client shows what the server has of this message: its current text, or nothing.
\* A message behind the oldest one held may wait for load_older.
Agrees(id) ==
    IF Visible(id) THEN \/ room.messages[id] # None /\ room.messages[id].text = rows[id].text
                        \/ room.messages[id] = None /\ room.more
    ELSE room.messages[id] = None

CaughtUp ==
    /\ room # Fresh /\ echo = None /\ \A j \in Jobs : Is(j, "idle")
    /\ \A r \in Readable : r.serial <= room.cursor

\* A client at the head of the stream shows the current state: nothing is missed,
\* resurrected or out of date, however writes fell between its requests and answers
\* ("always converges on the current state", routes/sync.rs).  Not once a slip has
\* happened: tasks that overlapped, an own send folded over rows still to come, a
\* replay cut short, a cache that could not hold the room or a resync.  And not of a purge
\* by somebody the viewer has blocked, whose marker is filtered out with all they write.
CaughtUpIsCurrent == slips = {} /\ CaughtUp => \A id \in Ids : Agrees(id)

\* And the reactions it shows are the ones the server aggregates (aggregate_emoticons),
\* with the same exceptions.
ReactionsCurrent ==
    slips = {} /\ CaughtUp => \A id \in Ids : Visible(id) /\ room.messages[id] # None =>
                    room.reactions[id] = aggregate_emoticons(id)

\* Messages and reactions together.
HeadIsCurrent == CaughtUpIsCurrent /\ ReactionsCurrent

\* However the room is written, the client comes back to showing its current state; once
\* the room falls silent that state is the last one (drain_sync, next_sync_cursor).
Converges == []<>(\A id \in Ids : Agrees(id))
=============================================================================
