------------------------------ MODULE EventLog ------------------------------
(***************************************************************************)
(* The JSONL event log (jsonl.rs): one file per UTC day, a sequence number   *)
(* per record, a marker file recording the durable watermark, and recovery   *)
(* of the counter from whatever the last process left behind.               *)
(*                                                                         *)
(* An append takes its timestamp BEFORE it takes the writer's lock, so       *)
(* appenders carry the day they were stamped with into the critical section. *)
(* Everything under the lock is one action.  What interrupts it: a killed    *)
(* process (what was flushed survives), a power loss (what was fsynced       *)
(* survives, and any prefix of the rest), a disk that refuses a flush.  The   *)
(* history variable struck names the mishaps so far; each property says which *)
(* of them it withstands.                                                    *)
(***************************************************************************)
EXTENDS Naturals, FiniteSets, SequencesExt

CONSTANTS
    Appenders,  \* threads appending concurrently
    MaxDay,     \* bound: days that pass
    MaxRecords, \* bound: sequence numbers handed out, reused ones included
    SyncEvery,  \* SYNC_EVERY_LINES, 64 in the code
    MaxReplay,  \* MAX_REPLAY, 1000 in the code
    MaxMishaps  \* bound: kinds of mishap in one behaviour

ASSUME EventLogAssumption ==
    /\ MaxDay \in Nat \ {0} /\ MaxRecords \in Nat \ {0}
    /\ SyncEvery \in Nat \ {0} /\ MaxReplay \in Nat /\ MaxMishaps \in Nat

Days == 1..MaxDay
FIRST_SEQ == 1

VARIABLES
    day,      \* today, by the clock
    files,    \* events-<day>.jsonl: the lines written to the file
    present,  \* the days whose file exists
    synced,   \* how many lines of each file are durable
    marker,   \* events.seq; 0 when missing or unreadable
    proc,     \* the process: "down", "opening" (log_recovered is still to be written), "up"
    next_seq, \* Inner.next_seq
    cur,      \* Inner.day, the day of the open file
    buf,      \* lines in Inner.file's buffer that a failed flush left there
    unsynced, \* Inner.unsynced
    stamp,    \* the day each appender was stamped with, 0 before
    issued,   \* history: the sequence numbers handed out, in order
    lost,     \* history: records dropped with pruned files
    logged,   \* history: records this process appended and returned Ok for
    struck    \* history: the mishaps so far that some promise of the log excepts

storage == <<files, present, synced, marker>>
inner == <<next_seq, cur, buf, unsynced>>
vars == <<day, files, present, synced, marker, proc, next_seq, cur, buf, unsynced,
          stamp, issued, lost, logged, struck>>

\* A line parses, was cut short by a power loss, or is a record appended behind
\* a line cut short, which makes the two one line that does not parse.
Line == [seq : Nat, text : {"whole", "torn", "glued"}]
Whole(s) == [seq |-> s, text |-> "whole"]

-----------------------------------------------------------------------------
(***************************************************************************)
(* Writing and reading the files.                                           *)
(***************************************************************************)

\* O_APPEND behind a line without its newline continues that line.
Extend(file, lines) ==
    IF file # <<>> /\ lines # <<>> /\ Last(file).text = "torn"
    THEN Front(file) \o <<[Head(lines) EXCEPT !.text = "glued"]>> \o Tail(lines)
    ELSE file \o lines

\* The lines of a file that parse, and those of a replay that are after a number: each
\* line kept or dropped, and the rest put together.
Parsed(file) == FlattenSeq([i \in DOMAIN file |-> IF file[i].text = "whole" THEN <<file[i]>> ELSE <<>>])
After(lines, n) == FlattenSeq([i \in DOMAIN lines |-> IF lines[i].seq > n THEN <<lines[i]>> ELSE <<>>])

\* Faulty variant: only the newest file is read.
AllLines_NewestOnly == Parsed(files[CHOOSE d \in Days : \A e \in present : e <= d])
\* The files in name order, as replay reads them; a file that is gone has no line.
AllLines == FlattenSeq([d \in Days |-> Parsed(files[d])])
Seqs(lines) == [i \in DOMAIN lines |-> lines[i].seq]

\* None and Some, as the set of what was returned.
TooOld == {}
Served(lines) == {Seqs(lines)}
\* Faulty variant: the bound check without the oldest-record check.
replay_since_Partial(after) ==
    LET out == After(AllLines, after) IN
    IF Len(out) > MaxReplay THEN TooOld ELSE Served(out)
\* The records after a cursor, or TooOld: more than max of them, or a cursor
\* from before everything retained.
replay_since(after) ==
    LET all == AllLines
        out == After(all, after)
    IN  IF Len(out) > MaxReplay \/ (all # <<>> /\ after + 1 < Head(all).seq)
        THEN TooOld ELSE Served(out)

MaxOf(S) == CHOOSE x \in S : \A y \in S : y <= x
newest == MaxOf(present)
\* 1 past the largest number in the newest file: the one file recovery scans.
from_files == IF present = {} THEN 0
              ELSE MaxOf({0} \cup {l.seq + 1 : l \in Range(Parsed(files[newest]))})
\* Faulty variant: the marker is trusted whenever there is one.
recover_next_seq_Marker == IF marker > 0 THEN marker ELSE MaxOf({from_files, FIRST_SEQ})
recover_next_seq == MaxOf({marker, from_files, FIRST_SEQ})

-----------------------------------------------------------------------------
Init ==
    /\ day = 1
    /\ files = [d \in Days |-> <<>>] /\ present = {} /\ synced = [d \in Days |-> 0]
    /\ marker = 0
    /\ proc = "down"
    /\ next_seq = 0 /\ cur = 1 /\ buf = <<>> /\ unsynced = 0
    /\ stamp = [a \in Appenders |-> 0]
    /\ issued = <<>> /\ lost = 0 /\ logged = {} /\ struck = {}

Midnight ==
    /\ day < MaxDay
    /\ day' = day + 1
    /\ UNCHANGED <<storage, inner, proc, stamp, issued, lost, logged, struck>>

\* open: the counter is recovered, today's file created; the log_recovered
\* record, due when the files were ahead of the marker, is a later append.
OpenLog ==
    /\ proc = "down"
    /\ next_seq' = recover_next_seq
    /\ cur' = day /\ present' = present \cup {day}
    /\ buf' = <<>> /\ unsynced' = 0 /\ logged' = {}
    /\ proc' = IF from_files > marker THEN "opening" ELSE "up"
    /\ UNCHANGED <<day, files, synced, marker, stamp, issued, lost, struck>>

\* A mishap is noted: a kill inside open, a power loss, a failing flush, an append that
\* rotates the log back over midnight (or a log_recovered that rotates it on), a file
\* pruned, and the last file with a record pruned.
Strike(mishap, name) == struck' = IF mishap THEN struck \cup {name} ELSE struck
Bounded == Cardinality(struck') <= MaxMishaps

\* OffsetDateTime::now_utc(), ahead of the lock.
Stamp(a) ==
    /\ proc = "up" /\ stamp[a] = 0
    /\ stamp' = [stamp EXCEPT ![a] = day]
    /\ UNCHANGED <<day, storage, inner, proc, issued, lost, logged, struck>>

Room(n) == Len(issued) + n <= MaxRecords

\* Faulty variant: the numbering starts over in every file.
rotation_FromFirst(d) == IF d = cur THEN <<>> ELSE <<Whole(FIRST_SEQ)>>
\* The record rotate() puts at the head of a new day's file.
rotation(d) == IF d = cur THEN <<>> ELSE <<Whole(next_seq)>>

BatchFull(n) == n >= SyncEvery

\* append(), stamped with day d, whose flush succeeds: rotate when d is not the
\* open file's day (syncing the old file), write, flush, and sync when the batch
\* is full or its timer has run out.
Write(d, batchDue) ==
    LET rot    == rotation(d)
        seq    == next_seq + Len(rot)
        old    == IF rot = <<>> THEN files ELSE [files EXCEPT ![cur] = Extend(@, buf)]
        lines  == (IF rot = <<>> THEN buf ELSE rot) \o <<Whole(seq)>>
        count  == (IF rot = <<>> THEN unsynced ELSE 0) + 1
        sync   == BatchFull(count) \/ batchDue
        new    == [old EXCEPT ![d] = Extend(@, lines)]
    IN  /\ Room(Len(rot) + 1)
        /\ files' = new
        /\ present' = present \cup {d}
        /\ synced' = [e \in Days |-> IF (e = cur /\ rot # <<>>) \/ (e = d /\ sync)
                                     THEN Len(IF e = d THEN new[e] ELSE old[e]) ELSE synced[e]]
        /\ marker' = IF sync THEN seq + 1 ELSE IF rot # <<>> THEN next_seq ELSE marker
        /\ next_seq' = seq + 1
        /\ cur' = d
        /\ buf' = <<>>
        /\ unsynced' = IF sync THEN 0 ELSE count
        /\ issued' = issued \o Seqs(rot) \o <<seq>>
        /\ logged' = logged \cup {seq}

\* append_event and append_audit.
LogRecord(a) ==
    /\ proc = "up" /\ stamp[a] # 0
    /\ \E batchDue \in BOOLEAN : Write(stamp[a], batchDue)
    /\ stamp' = [stamp EXCEPT ![a] = 0]
    /\ Strike(stamp[a] < cur, "midnight")
    /\ UNCHANGED <<day, proc, lost>>

\* append_system of log_recovered, the end of open.
Recovered ==
    /\ proc = "opening"
    /\ \E batchDue \in BOOLEAN : Write(day, batchDue)
    /\ proc' = "up"
    /\ Strike(day # cur, "midnight")
    /\ UNCHANGED <<day, stamp, lost>>

\* The flush of an append fails (a full disk): the caller gets an error, the
\* counter has not moved, and the line is still in the BufWriter.
AppendFails(a) ==
    /\ proc = "up" /\ stamp[a] = cur
    /\ buf = <<>> /\ Len(AllLines) < MaxRecords
    /\ buf' = Append(buf, Whole(next_seq))
    /\ stamp' = [stamp EXCEPT ![a] = 0]
    /\ Strike(TRUE, "disk") /\ Bounded
    /\ UNCHANGED <<day, storage, proc, next_seq, cur, unsynced, issued, lost, logged>>


\* flush(): the data, then the marker (at shutdown).
SyncLog ==
    /\ proc = "up"
    /\ files' = [files EXCEPT ![cur] = Extend(@, buf)]
    /\ synced' = [synced EXCEPT ![cur] = Len(files'[cur])]
    /\ marker' = next_seq
    /\ buf' = <<>> /\ unsynced' = 0
    /\ UNCHANGED <<day, present, proc, next_seq, cur, stamp, issued, lost, logged, struck>>

-----------------------------------------------------------------------------
\* Only as long as the next start has numbers left within the bound.
Down == Room(2) /\ proc' = "down" /\ stamp' = [a \in Appenders |-> 0]

\* The process dies: the kernel still has every flushed line.
Kill ==
    /\ proc # "down"
    /\ Strike(proc = "opening", "kill_opening") /\ Bounded
    /\ Down
    /\ UNCHANGED <<day, storage, inner, issued, lost, logged>>

\* The process dies inside rotate, after the old file is synced and the new one
\* created, before its first line is flushed.
KillRotating(a) ==
    /\ proc = "up" /\ stamp[a] \notin {0, cur}
    /\ synced' = [synced EXCEPT ![cur] = Len(files[cur])]
    /\ marker' = next_seq
    /\ present' = present \cup {stamp[a]}
    /\ Down
    /\ UNCHANGED <<day, files, inner, issued, lost, logged, struck>>

\* What may be left of a file: the durable lines, any number of those behind
\* them, and perhaps the start of one more.
Survivors(file, n) ==
    {SubSeq(file, 1, k) : k \in n..Len(file)} \cup
    {Append(SubSeq(file, 1, k), [file[k + 1] EXCEPT !.text = "torn"]) : k \in n..(Len(file) - 1)}

\* The machine dies.  events.seq is never fsynced, so it may come back empty.
PowerLoss ==
    /\ proc = "up"
    /\ files' \in {f \in [Days -> UNION {Survivors(files[d], synced[d]) : d \in Days}] :
                     \A d \in Days : f[d] \in Survivors(files[d], synced[d])}
    /\ synced' = [d \in Days |-> Len(files'[d])]
    /\ marker' \in {0, marker}
    /\ Strike(TRUE, "power") /\ Bounded
    /\ Down
    /\ UNCHANGED <<day, present, inner, issued, lost, logged>>

\* An operator removes the oldest day's file.
Prune(d) ==
    /\ d \in present /\ d # cur /\ \A e \in present : d <= e
    /\ Strike(TRUE, IF \A e \in present \ {d} : Parsed(files[e]) = <<>> THEN "prune_all" ELSE "prune")
    /\ Bounded
    /\ present' = present \ {d}
    /\ lost' = lost + Len(Parsed(files[d]))
    /\ files' = [files EXCEPT ![d] = <<>>]
    /\ synced' = [synced EXCEPT ![d] = 0]
    /\ logged' = logged \ {l.seq : l \in Range(files[d])}
    /\ UNCHANGED <<day, marker, inner, proc, stamp, issued>>

Next ==
    \/ Midnight \/ OpenLog \/ Recovered \/ SyncLog \/ Kill \/ PowerLoss
    \/ \E a \in Appenders : Stamp(a) \/ LogRecord(a) \/ AppendFails(a) \/ KillRotating(a)
    \/ \E d \in Days : Prune(d)

Spec == Init /\ [][Next]_vars

-----------------------------------------------------------------------------
(***************************************************************************)
(* Properties.                                                              *)
(***************************************************************************)

\* Every variable in its domain; no more lines than a batch wait for their fsync.
TypeOK ==
    /\ day \in Days /\ cur \in Days /\ present \subseteq Days
    /\ files \in [Days -> Seq(Line)]
    /\ synced \in [Days -> Nat] /\ \A d \in Days : synced[d] <= Len(files[d])
    /\ marker \in Nat /\ next_seq \in Nat /\ unsynced \in 0..(SyncEvery - 1) /\ lost \in Nat
    /\ proc \in {"down", "opening", "up"}
    /\ buf \in Seq(Line) /\ issued \in Seq(Nat) /\ logged \subseteq Nat
    /\ stamp \in [Appenders -> 0..MaxDay]
    /\ struck \subseteq {"kill_opening", "power", "disk", "midnight", "prune", "prune_all"}

\* No mishap so far but these.  A kill while a process is up, and a restart, are no
\* mishap to any promise.
Only(mishaps) == struck \subseteq mishaps

\* A number is never handed out twice, over any number of restarts
\* (recover_next_seq, "reusing a `seq` would corrupt SSE resume").  Excepted: a power
\* loss, a kill inside open, and a log that rotated back over midnight.
SeqNeverReused ==
    Only({"prune", "prune_all", "disk"}) =>
        \A i, j \in DOMAIN issued : i < j => issued[i] < issued[j]

\* However a process or the machine dies, the marker is never ahead of the files
\* (sync, "a crash can leave the marker behind the files but never ahead of them").
\* Excepted: files removed by hand, and a rotation away from a file never synced.
MarkerNeverAhead ==
    Only({"kill_opening", "power", "disk"}) /\ marker > FIRST_SEQ =>
        \E d \in present : \E i \in 1..synced[d] : files[d][i].seq >= marker - 1

\* A number names one record for good, and what vouches for it is on the disk.
NumbersSafe == TypeOK /\ SeqNeverReused /\ MarkerNeverAhead

\* A replay that is served is the whole gap: every number after the cursor, in order,
\* and nothing the cursor needed has been pruned (replay_since, "refuse rather than
\* under-deliver").  Of the mishaps it stands only a pruned file.
ReplayHasNoGap ==
    Only({"prune"}) /\ proc = "up" => \A after \in 0..(next_seq - 1) :
        \A out \in replay_since(after) : out = [i \in 1..(next_seq - 1 - after) |-> after + i]

\* What this process logged, its readers can replay (jsonl.rs, "the log is therefore a
\* superset of what was delivered").  Excepted: a power loss, whose torn last line
\* swallows the record appended behind it.
DeliveredIsLogged ==
    Only({"prune", "prune_all", "kill_opening", "midnight", "disk"}) /\ proc = "up" =>
        logged \subseteq Range(Seqs(AllLines))

\* Read through its files, the log is the append-only, gapless sequence SeqLog
\* specifies: a rotation, a killed process and a restart lose and repeat nothing.
\* SeqLog's promise stands until a mishap other than a pruned file.
Reader == INSTANCE SeqLog WITH base <- lost, entries <- Seqs(AllLines), intact <- Only({"prune"})
ImplementsSeqLog == Reader!Spec
=============================================================================
