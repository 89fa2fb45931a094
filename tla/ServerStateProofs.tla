------------------------- MODULE ServerStateProofs -------------------------
(***************************************************************************)
(* What holds of the state the server's requests share: of Messages for any  *)
(* members, clock, number of rows, serials and requests in flight, and of Hub *)
(* for any connections, rooms and caps; and of the client that follows the    *)
(* table, RoomSync, for any pages, cache and tasks.                           *)
(***************************************************************************)
EXTENDS Hub, RoomSync, FiniteSetTheorems, WellFoundedInduction, TLAPS

-----------------------------------------------------------------------------
(***************************************************************************)
(* Messages.                                                                *)
(***************************************************************************)
AppendTask == [op : {"append"}, kind : {"add"} \cup Events, by : Users, of : 0..MaxIds, sealed : BOOLEAN]
EditTask == [op : {"edit"}, id : Ids, sealed : BOOLEAN, read : 0..MaxSerial]
RowTask == [op : {"remove", "publish"}, id : Ids]

\* Every variable in its domain; the counter is ahead of everything issued.
TableTyped ==
    /\ rows \in [Ids -> Rows \cup {None}] /\ minted \in 0..MaxIds
    /\ next_serial \in 1..(MaxSerial + 1) /\ top_serial \in 0..MaxSerial /\ top_serial < next_serial
    /\ task \in [Tasks -> AppendTask \cup EditTask \cup RowTask \cup {Idle}]

\* Ids are handed out in order; every row's serial was issued, to that row alone.
SerialsSound ==
    /\ \A id \in Ids : id > minted => rows[id] = None
    /\ \A id \in Ids : Exists(id) => rows[id].serial <= top_serial
    /\ \A i, j \in Ids : Exists(i) /\ Exists(j) /\ rows[i].serial = rows[j].serial => i = j

\* A thread's root, if it is still there, is in no thread itself; it was handed out, so
\* that no later row takes its place.
Rooted(x, n, table) == x \in 0..n /\ (x # 0 => table[x] = None \/ table[x].of = 0)
\* Every stored reply has such a root, and every reply on its way; the row a request is
\* about is a message or gone.
ThreadsSound ==
    /\ \A id \in Ids : Exists(id) /\ rows[id].kind \notin Events => Rooted(rows[id].of, minted, rows)
    /\ \A t \in Tasks : task[t].op = "append" /\ task[t].kind = "add" => Rooted(task[t].of, minted, rows)
    /\ \A t \in Tasks : task[t].op \in {"edit", "remove", "publish"} =>
         task[t].id <= minted /\ (Exists(task[t].id) => rows[task[t].id].kind \notin Events)

\* A tombstone is scrubbed.
Scrubbed == \A id \in Ids : Exists(id) /\ rows[id].kind = "delete" => rows[id].text = 0

\* An edit in clear read a row in clear, unless the row has been written since.
EditsSound ==
    \A t \in Tasks : task[t].op = "edit" =>
        /\ task[t].read <= top_serial
        /\ ~task[t].sealed /\ Exists(task[t].id) /\ rows[task[t].id].sealed =>
             task[t].read < rows[task[t].id].serial
        /\ Exists(task[t].id) => task[t].read <= rows[task[t].id].serial

MessagesInv == TableTyped /\ SerialsSound /\ ThreadsSound /\ Scrubbed /\ EditsSound

\* What a step may do to a row, as the three properties of the table state it.
Climbs == \A id \in Ids : rows'[id] # rows[id] /\ rows'[id] # None => rows'[id].serial > top_serial
StaysDead ==
    \A id \in Ids : Exists(id) /\ rows[id].kind = "delete" /\ rows'[id] # None =>
        rows'[id].kind = "delete" /\ rows'[id].text = 0
StaysSealed ==
    \A id \in Ids : Exists(id) /\ rows[id].sealed /\ rows'[id] # None /\ ~rows'[id].sealed =>
        \E t \in Tasks : /\ task[t].op = "edit" /\ task[t].id = id /\ task'[t] = Idle
                         /\ task[t].read < rows[id].serial
Kept == Climbs /\ StaysDead /\ StaysSealed

-----------------------------------------------------------------------------
LEMMA RowFields ==
  ASSUME NEW r \in Rows
  PROVE  /\ r # None /\ r.kind \in Renderable \cup Events \cup {"delete", "delete_all"}
         /\ r.serial \in 1..MaxSerial /\ r.of \in 0..MaxIds /\ r.sealed \in BOOLEAN
BY DEF Rows, None, Renderable, Events

LEMMA TaskFields ==
  ASSUME TableTyped, NEW t \in Tasks
  PROVE  /\ task[t].op \in {"append", "edit", "remove", "publish", "idle"}
         /\ task[t].op = "idle" => task[t] = Idle
         /\ task[t].op = "append" => task[t] \in AppendTask
         /\ task[t].op = "edit" => task[t] \in EditTask
         /\ task[t].op \in {"remove", "publish"} => task[t] \in RowTask
<1>1. task[t] \in AppendTask \cup EditTask \cup RowTask \cup {Idle}
  BY DEF TableTyped
<1>2. \A k \in AppendTask : k.op = "append"
  BY DEF AppendTask
<1>3. \A k \in EditTask : k.op = "edit"
  BY DEF EditTask
<1>4. \A k \in RowTask : k.op \in {"remove", "publish"}
  BY DEF RowTask
<1>5. Idle.op = "idle"
  BY DEF Idle
<1> QED
  BY <1>1, <1>2, <1>3, <1>4, <1>5

LEMMA MessagesInitInv == MessagesInit => MessagesInv
<1> SUFFICES ASSUME MessagesInit PROVE MessagesInv
  OBVIOUS
<1>1. \A t \in Tasks : task[t] = Idle /\ task[t].op = "idle"
  BY DEF MessagesInit, Idle
<1>2. \A id \in Ids : ~Exists(id) /\ rows[id] = None
  BY DEF MessagesInit, Exists
<1>3. TableTyped
  BY MessagesAssumption DEF MessagesInit, TableTyped
<1>4. SerialsSound /\ Scrubbed
  BY <1>2 DEF SerialsSound, Scrubbed
<1>5. ThreadsSound /\ EditsSound
  BY <1>1, <1>2 DEF ThreadsSound, EditsSound
<1> QED
  BY <1>3, <1>4, <1>5 DEF MessagesInv

\* A write issues a serial above every one issued before.
LEMMA SerialIssued ==
  ASSUME TableTyped, NEW now \in Clock, NEW new, Write(now, new)
  PROVE  /\ Serial(now) \in 1..MaxSerial /\ Serial(now) > top_serial
         /\ top_serial' = Serial(now) /\ next_serial' = Serial(now) + 1 /\ rows' = new
BY MessagesAssumption DEF TableTyped, Write, Serial

LEMMA Counted ==
  ASSUME TableTyped, NEW s \in 1..MaxSerial, s > top_serial, top_serial' = s, next_serial' = s + 1
  PROVE  next_serial' \in 1..(MaxSerial + 1) /\ top_serial' \in 0..MaxSerial /\ top_serial' < next_serial'
BY MessagesAssumption DEF TableTyped

\* Requests that end leave no trace among the requests.
LEMMA TasksEnd ==
  ASSUME TableTyped, NEW t \in Tasks, End(t) \/ UNCHANGED task
  PROVE  /\ task' \in [Tasks -> AppendTask \cup EditTask \cup RowTask \cup {Idle}]
         /\ \A u \in Tasks : task'[u] = task[u] \/ (task'[u] = Idle /\ task'[u].op = "idle")
<1>1. task \in [Tasks -> AppendTask \cup EditTask \cup RowTask \cup {Idle}]
  BY DEF TableTyped
<1>2. Idle.op = "idle"
  BY DEF Idle
<1> QED
  BY <1>1, <1>2 DEF End

\* A row that is new: the next id, the next serial.
LEMMA Inserted ==
  ASSUME MessagesInv, NEW s \in 1..MaxSerial, s > top_serial, top_serial' = s, next_serial' = s + 1,
         minted < MaxIds, minted' = minted + 1, NEW r \in Rows, r.serial = s,
         rows' = [rows EXCEPT ![minted + 1] = r],
         r.kind \in {"add"} \cup Events, r.kind = "add" => Rooted(r.of, minted, rows),
         task' \in [Tasks -> AppendTask \cup EditTask \cup RowTask \cup {Idle}],
         \A u \in Tasks : task'[u] = task[u] \/ (task'[u] = Idle /\ task'[u].op = "idle")
  PROVE  MessagesInv' /\ Kept
<1> USE DEF MessagesInv
<1> DEFINE n == minted + 1
<1>0. minted \in Nat /\ n \in Ids /\ n > minted /\ rows[n] = None /\ r # None /\ top_serial \in Nat
      /\ \A x \in 0..minted : x # n /\ (x # 0 => x \in Ids)
  BY MessagesAssumption, RowFields DEF TableTyped, SerialsSound, Ids
<1>1. rows'[n] = r /\ \A id \in Ids \ {n} : rows'[id] = rows[id]
  BY <1>0 DEF TableTyped
<1>2. TableTyped'
  <2>1. rows' \in [Ids -> Rows \cup {None}] /\ minted' \in 0..MaxIds
    BY <1>0, MessagesAssumption DEF TableTyped
  <2> QED
    BY <2>1, Counted DEF TableTyped
<1>3. SerialsSound'
  <2>1. \A id \in Ids : id > minted' => rows'[id] = None
    BY <1>0, <1>1 DEF SerialsSound, Ids
  <2>2. \A id \in Ids : rows'[id] # None => rows'[id].serial <= s /\ (id # n => rows'[id].serial < s)
    <3> SUFFICES ASSUME NEW id \in Ids, rows'[id] # None
                 PROVE  rows'[id].serial <= s /\ (id # n => rows'[id].serial < s)
      OBVIOUS
    <3>1. CASE id = n
      BY <1>1, <3>1
    <3>2. CASE id # n
      <4>1. rows'[id] = rows[id] /\ rows[id] \in Rows
        BY <1>1, <3>2 DEF TableTyped
      <4>2. rows[id].serial <= top_serial /\ rows[id].serial \in 1..MaxSerial
        BY <4>1, RowFields DEF SerialsSound, Exists
      <4> QED
        BY <1>0, <4>1, <4>2
    <3> QED
      BY <3>1, <3>2
  <2>3. \A i, j \in Ids : rows'[i] # None /\ rows'[j] # None /\ rows'[i].serial = rows'[j].serial => i = j
    <3> SUFFICES ASSUME NEW i \in Ids, NEW j \in Ids, rows'[i] # None, rows'[j] # None,
                        rows'[i].serial = rows'[j].serial, i # j
                 PROVE  FALSE
      OBVIOUS
    <3>1. CASE i # n /\ j # n
      BY <1>1, <3>1 DEF SerialsSound, Exists
    <3>2. \A m \in Nat : ~(m < m)
      OBVIOUS
    <3>3. CASE i = n \/ j = n
      BY <1>1, <2>2, <3>2, <3>3
    <3> QED
      BY <3>1, <3>3
  <2> QED
    BY <2>1, <2>2, <2>3 DEF SerialsSound, Exists
<1>4. \A x : Rooted(x, minted, rows) => Rooted(x, minted', rows')
  BY <1>0, <1>1 DEF Rooted
<1>5. ThreadsSound'
  <2>1. ASSUME NEW id \in Ids, rows'[id] # None, rows'[id].kind \notin Events PROVE Rooted(rows'[id].of, minted', rows')
    <3>1. CASE id = n
      BY <1>1, <1>4, <2>1, <3>1
    <3>2. CASE id # n
      BY <1>1, <1>4, <2>1, <3>2 DEF ThreadsSound, Exists
    <3> QED
      BY <3>1, <3>2
  <2>2. ASSUME NEW t \in Tasks, task'[t].op = "append", task'[t].kind = "add" PROVE Rooted(task'[t].of, minted', rows')
    BY <1>4, <2>2 DEF ThreadsSound
  <2>3. ASSUME NEW t \in Tasks, task'[t].op \in {"edit", "remove", "publish"}
        PROVE  task'[t].id <= minted' /\ (rows'[task'[t].id] # None => rows'[task'[t].id].kind \notin Events)
    <3>1. task'[t] = task[t]
      BY <2>3
    <3>2. task[t].id \in Ids
      BY <2>3, <3>1, TaskFields DEF EditTask, RowTask
    <3>3. task[t].id <= minted /\ (rows[task[t].id] # None => rows[task[t].id].kind \notin Events)
      BY <2>3, <3>1 DEF ThreadsSound, Exists
    <3> QED
      BY <1>0, <1>1, <3>1, <3>2, <3>3 DEF Ids
  <2> QED
    BY <2>1, <2>2, <2>3 DEF ThreadsSound, Exists
<1>6. Scrubbed'
  <2>1. r.kind # "delete"
    BY DEF Events
  <2> QED
    BY <1>1, <2>1 DEF Scrubbed, Exists
<1>7. EditsSound'
  <2> SUFFICES ASSUME NEW t \in Tasks, task'[t].op = "edit"
               PROVE  /\ task'[t].read <= s
                      /\ ~task'[t].sealed /\ rows'[task'[t].id] # None /\ rows'[task'[t].id].sealed =>
                           task'[t].read < rows'[task'[t].id].serial
                      /\ rows'[task'[t].id] # None => task'[t].read <= rows'[task'[t].id].serial
    BY DEF EditsSound, Exists
  <2>1. task'[t] = task[t] /\ task[t].op = "edit"
    OBVIOUS
  <2>2. task[t].id \in Ids /\ task[t].id <= minted /\ task[t].read \in Nat
    BY <2>1, TaskFields, MessagesAssumption DEF EditTask, ThreadsSound
  <2>3. rows'[task[t].id] = rows[task[t].id]
    BY <1>0, <1>1, <2>2 DEF Ids
  <2>4. task[t].read <= s
    BY <1>0, <2>1, <2>2 DEF EditsSound
  <2> QED
    BY <2>1, <2>3, <2>4 DEF EditsSound, Exists
<1>8. Kept
  BY <1>0, <1>1 DEF Kept, Climbs, StaysDead, StaysSealed, Exists, Scrubbed
<1> QED
  BY <1>2, <1>3, <1>5, <1>6, <1>7, <1>8

\* A row that is written again, under the next serial, by the commit of a request.
LEMMA Rewritten ==
  ASSUME MessagesInv, NEW s \in 1..MaxSerial, s > top_serial, top_serial' = s, next_serial' = s + 1,
         minted' = minted, NEW x \in Ids, Exists(x), NEW r \in Rows, r.serial = s,
         rows' = [rows EXCEPT ![x] = r], r.of = rows[x].of,
         r.kind \in Events <=> rows[x].kind \in Events,
         rows[x].kind = "delete" => r.kind = "delete", r.kind = "delete" => r.text = 0,
         NEW t \in Tasks, End(t),
         rows[x].sealed /\ ~r.sealed => task[t].op = "edit" /\ task[t].id = x /\ task[t].read < rows[x].serial
  PROVE  MessagesInv' /\ Kept
<1> USE DEF MessagesInv
<1>0. r # None /\ top_serial \in Nat /\ rows[x] \in Rows
  BY RowFields DEF TableTyped, Exists
<1>1. rows'[x] = r /\ \A id \in Ids \ {x} : rows'[id] = rows[id]
  BY DEF TableTyped
<1>t. /\ task' \in [Tasks -> AppendTask \cup EditTask \cup RowTask \cup {Idle}]
      /\ \A u \in Tasks : task'[u] = task[u] \/ (task'[u] = Idle /\ task'[u].op = "idle")
      /\ task'[t] = Idle
  BY TasksEnd DEF End, TableTyped
<1>2. TableTyped'
  <2>1. rows' \in [Ids -> Rows \cup {None}] /\ minted' \in 0..MaxIds
    BY DEF TableTyped
  <2> QED
    BY <1>t, <2>1, Counted DEF TableTyped
<1>e. \A id \in Ids : rows'[id] # None <=> rows[id] # None
  BY <1>0, <1>1 DEF Exists
<1>3. SerialsSound'
  <2>1. \A id \in Ids : id > minted' => rows'[id] = None
    BY <1>e DEF SerialsSound
  <2>2. \A id \in Ids : rows'[id] # None => rows'[id].serial <= s /\ (id # x => rows'[id].serial < s)
    <3> SUFFICES ASSUME NEW id \in Ids, rows'[id] # None
                 PROVE  rows'[id].serial <= s /\ (id # x => rows'[id].serial < s)
      OBVIOUS
    <3>1. CASE id = x
      BY <1>1, <3>1
    <3>2. CASE id # x
      <4>1. rows'[id] = rows[id] /\ rows[id] \in Rows
        BY <1>1, <3>2 DEF TableTyped
      <4>2. rows[id].serial <= top_serial /\ rows[id].serial \in 1..MaxSerial
        BY <4>1, RowFields DEF SerialsSound, Exists
      <4> QED
        BY <1>0, <4>1, <4>2
    <3> QED
      BY <3>1, <3>2
  <2>3. \A i, j \in Ids : rows'[i] # None /\ rows'[j] # None /\ rows'[i].serial = rows'[j].serial => i = j
    <3> SUFFICES ASSUME NEW i \in Ids, NEW j \in Ids, rows'[i] # None, rows'[j] # None,
                        rows'[i].serial = rows'[j].serial, i # j
                 PROVE  FALSE
      OBVIOUS
    <3>1. CASE i # x /\ j # x
      BY <1>1, <3>1 DEF SerialsSound, Exists
    <3>2. \A m \in Nat : ~(m < m)
      OBVIOUS
    <3>3. CASE i = x \/ j = x
      BY <1>1, <2>2, <3>2, <3>3
    <3> QED
      BY <3>1, <3>3
  <2> QED
    BY <2>1, <2>2, <2>3 DEF SerialsSound, Exists
<1>4. \A y : Rooted(y, minted, rows) => Rooted(y, minted', rows')
  <2> SUFFICES ASSUME NEW y, Rooted(y, minted, rows) PROVE Rooted(y, minted', rows')
    OBVIOUS
  <2>1. y \in 0..minted' /\ (y # 0 => y \in Ids)
    BY MessagesAssumption DEF Rooted, TableTyped, Ids
  <2>2. y # 0 => rows'[y] = None \/ rows'[y].of = 0
    BY <1>0, <1>1, <2>1 DEF Rooted, Exists
  <2> QED
    BY <2>1, <2>2 DEF Rooted
<1>5. ThreadsSound'
  <2>1. ASSUME NEW id \in Ids, rows'[id] # None, rows'[id].kind \notin Events PROVE Rooted(rows'[id].of, minted', rows')
    <3>1. CASE id = x
      BY <1>1, <1>4, <2>1, <3>1 DEF ThreadsSound
    <3>2. CASE id # x
      BY <1>1, <1>4, <2>1, <3>2 DEF ThreadsSound, Exists
    <3> QED
      BY <3>1, <3>2
  <2>2. ASSUME NEW u \in Tasks, task'[u].op = "append", task'[u].kind = "add" PROVE Rooted(task'[u].of, minted', rows')
    BY <1>t, <1>4, <2>2 DEF ThreadsSound
  <2>3. ASSUME NEW u \in Tasks, task'[u].op \in {"edit", "remove", "publish"}
        PROVE  task'[u].id <= minted' /\ (rows'[task'[u].id] # None => rows'[task'[u].id].kind \notin Events)
    <3>1. task'[u] = task[u]
      BY <1>t, <2>3
    <3>2. task[u].id \in Ids
      BY <2>3, <3>1, TaskFields DEF EditTask, RowTask
    <3>3. task[u].id <= minted /\ (rows[task[u].id] # None => rows[task[u].id].kind \notin Events)
      BY <2>3, <3>1 DEF ThreadsSound, Exists
    <3> QED
      BY <1>1, <1>e, <3>1, <3>2, <3>3
  <2> QED
    BY <2>1, <2>2, <2>3 DEF ThreadsSound, Exists
<1>6. Scrubbed'
  BY <1>1 DEF Scrubbed, Exists
<1>7. EditsSound'
  <2> SUFFICES ASSUME NEW u \in Tasks, task'[u].op = "edit"
               PROVE  /\ task'[u].read <= s
                      /\ ~task'[u].sealed /\ rows'[task'[u].id] # None /\ rows'[task'[u].id].sealed =>
                           task'[u].read < rows'[task'[u].id].serial
                      /\ rows'[task'[u].id] # None => task'[u].read <= rows'[task'[u].id].serial
    BY DEF EditsSound, Exists
  <2>1. task'[u] = task[u] /\ task[u].op = "edit"
    BY <1>t
  <2>2. task[u].id \in Ids /\ task[u].read \in Nat
    BY <2>1, TaskFields, MessagesAssumption DEF EditTask
  <2>3. task[u].read < s
    BY <1>0, <2>1, <2>2 DEF EditsSound
  <2>4. CASE task[u].id = x
    BY <1>1, <2>1, <2>2, <2>3, <2>4
  <2>5. CASE task[u].id # x
    BY <1>1, <2>1, <2>2, <2>3, <2>5 DEF EditsSound, Exists
  <2> QED
    BY <2>4, <2>5
<1>8. Kept
  <2>1. Climbs /\ StaysDead
    BY <1>0, <1>1 DEF Climbs, StaysDead, Exists, Scrubbed
  <2>2. StaysSealed
    BY <1>1, <1>t DEF StaysSealed, Exists
  <2> QED
    BY <2>1, <2>2 DEF Kept
<1> QED
  BY <1>2, <1>3, <1>5, <1>6, <1>7, <1>8

\* A serial spent on nothing, or nothing spent: the rows stay, a request ends or begins.
Fits(k) ==
    /\ k \in AppendTask \cup EditTask \cup RowTask \cup {Idle}
    /\ k.op = "append" /\ k.kind = "add" => Rooted(k.of, minted, rows)
    /\ k.op \in {"edit", "remove", "publish"} =>
         k.id <= minted /\ (Exists(k.id) => rows[k.id].kind \notin Events)
    /\ k.op = "edit" =>
         /\ k.read <= top_serial
         /\ ~k.sealed /\ Exists(k.id) /\ rows[k.id].sealed => k.read < rows[k.id].serial
         /\ Exists(k.id) => k.read <= rows[k.id].serial

LEMMA RowsStay ==
  ASSUME MessagesInv, UNCHANGED <<rows, minted>>,
         \/ UNCHANGED <<next_serial, top_serial>>
         \/ \E s \in 1..MaxSerial : s > top_serial /\ top_serial' = s /\ next_serial' = s + 1,
         NEW t \in Tasks, NEW k, Fits(k), task' = [task EXCEPT ![t] = k]
  PROVE  MessagesInv' /\ Kept
<1> USE DEF MessagesInv
<1>0. /\ next_serial' \in 1..(MaxSerial + 1) /\ top_serial' \in 0..MaxSerial
      /\ top_serial' < next_serial' /\ top_serial <= top_serial'
  <2>1. CASE UNCHANGED <<next_serial, top_serial>>
    BY <2>1 DEF TableTyped
  <2>2. CASE \E s \in 1..MaxSerial : s > top_serial /\ top_serial' = s /\ next_serial' = s + 1
    BY <2>2, MessagesAssumption DEF TableTyped
  <2> QED
    BY <2>1, <2>2
<1>1. task'[t] = k /\ \A u \in Tasks \ {t} : task'[u] = task[u]
  BY DEF TableTyped
<1>2. TableTyped'
  <2>1. task' \in [Tasks -> AppendTask \cup EditTask \cup RowTask \cup {Idle}]
    BY DEF TableTyped, Fits
  <2> QED
    BY <1>0, <2>1 DEF TableTyped
<1>3. SerialsSound'
  <2>1. \A id \in Ids : Exists(id) => rows[id].serial <= top_serial'
    <3> SUFFICES ASSUME NEW id \in Ids, Exists(id) PROVE rows[id].serial <= top_serial'
      OBVIOUS
    <3>1. rows[id].serial \in 1..MaxSerial /\ rows[id].serial <= top_serial
      BY RowFields DEF TableTyped, Exists, SerialsSound
    <3> QED
      BY <1>0, <3>1 DEF TableTyped
  <2> QED
    BY <2>1 DEF SerialsSound, Exists
<1>4. ThreadsSound'
  BY <1>1 DEF ThreadsSound, Fits, Rooted, Exists
<1>5. Scrubbed'
  BY DEF Scrubbed, Exists
<1>6. EditsSound'
  <2> SUFFICES ASSUME NEW u \in Tasks, task'[u].op = "edit"
               PROVE  /\ task'[u].read <= top_serial'
                      /\ ~task'[u].sealed /\ Exists(task'[u].id) /\ rows[task'[u].id].sealed =>
                           task'[u].read < rows[task'[u].id].serial
                      /\ Exists(task'[u].id) => task'[u].read <= rows[task'[u].id].serial
    BY DEF EditsSound, Exists
  <2>1. task'[u].read \in Nat
    BY <1>2, MessagesAssumption DEF TableTyped, AppendTask, EditTask, RowTask, Idle
  <2>2. task'[u].read <= top_serial
    BY <1>1 DEF EditsSound, Fits
  <2>3. task'[u].read <= top_serial'
    BY <1>0, <2>1, <2>2 DEF TableTyped
  <2> QED
    BY <1>1, <2>3 DEF EditsSound, Fits
<1>7. Kept
  BY DEF Kept, Climbs, StaysDead, StaysSealed, Exists, Scrubbed
<1> QED
  BY <1>2, <1>3, <1>4, <1>5, <1>6, <1>7

LEMMA IdleFits == Fits(Idle)
<1>1. Idle.op = "idle"
  BY DEF Idle
<1> QED
  BY <1>1 DEF Fits

-----------------------------------------------------------------------------
LEMMA SendStep ==
  ASSUME MessagesInv, NEW u \in Users, Send(u)
  PROVE  MessagesInv' /\ Kept
<1>1. PICK sealed \in Sealings, now \in Clock :
        Write(now, [rows EXCEPT ![minted + 1] = Row(minted + 1, "add", Serial(now), now, u, sealed, 0)])
  BY DEF Send
<1> DEFINE r == Row(minted + 1, "add", Serial(now), now, u, sealed, 0)
<1>0. TableTyped /\ minted \in Nat /\ minted + 1 \in Ids
  BY MessagesAssumption DEF MessagesInv, TableTyped, Send, Ids
<1>2. /\ Serial(now) \in 1..MaxSerial /\ Serial(now) > top_serial
      /\ top_serial' = Serial(now) /\ next_serial' = Serial(now) + 1 /\ rows' = [rows EXCEPT ![minted + 1] = r]
  BY <1>0, <1>1, SerialIssued
<1>3. r \in Rows /\ r.serial = Serial(now) /\ r.kind = "add" /\ r.of = 0
  <2>1. sealed \in BOOLEAN /\ 0 \in 0..MaxIds /\ 0 \in 0..MaxSerial /\ Serial(now) \in 0..MaxSerial
    BY <1>2, MessagesAssumption
  <2> QED
    BY <1>0, <1>2, <2>1 DEF Row, Rows, Renderable
<1>4. Rooted(0, minted, rows)
  BY <1>0 DEF Rooted
<1>5. \A v \in Tasks : task'[v] = task[v]
  BY DEF Send
<1>6. task' \in [Tasks -> AppendTask \cup EditTask \cup RowTask \cup {Idle}]
  BY <1>0 DEF Send, TableTyped
<1> HIDE DEF r
<1> QED
  BY <1>2, <1>3, <1>4, <1>5, <1>6, Inserted DEF Send

LEMMA CommitAppendStep ==
  ASSUME MessagesInv, NEW t \in Tasks, CommitAppend(t)
  PROVE  MessagesInv' /\ Kept
<1> DEFINE k == task[t]
<1>1. PICK now \in Clock :
        Write(now, [rows EXCEPT ![minted + 1] =
                      Row(minted + 1, k.kind, Serial(now), now, k.by, k.sealed, k.of)])
  BY DEF CommitAppend
<1> DEFINE r == Row(minted + 1, k.kind, Serial(now), now, k.by, k.sealed, k.of)
<1>0. TableTyped /\ minted \in Nat /\ minted + 1 \in Ids
  BY MessagesAssumption DEF MessagesInv, TableTyped, CommitAppend, Ids
<1>2. /\ Serial(now) \in 1..MaxSerial /\ Serial(now) > top_serial
      /\ top_serial' = Serial(now) /\ next_serial' = Serial(now) + 1 /\ rows' = [rows EXCEPT ![minted + 1] = r]
  BY <1>0, <1>1, SerialIssued
<1>3. /\ k.op = "append" /\ k.kind \in {"add"} \cup Events /\ k.by \in Users /\ k.of \in 0..MaxIds
      /\ k.sealed \in BOOLEAN
  BY <1>0, TaskFields DEF CommitAppend, AppendTask
<1>4. r \in Rows /\ r.serial = Serial(now) /\ r.kind = k.kind /\ r.of = k.of
  <2>1. 0 \in 0..MaxSerial /\ Serial(now) \in 0..MaxSerial
    BY <1>2, MessagesAssumption
  <2>2. k.kind \in Renderable \cup Events \cup {"delete", "delete_all"}
    BY <1>3 DEF Renderable
  <2> HIDE DEF k
  <2> QED
    BY <1>0, <1>2, <1>3, <2>1, <2>2 DEF Row, Rows
<1>5. k.kind = "add" => Rooted(k.of, minted, rows)
  BY <1>3 DEF MessagesInv, ThreadsSound
<1>6. /\ task' \in [Tasks -> AppendTask \cup EditTask \cup RowTask \cup {Idle}]
      /\ \A v \in Tasks : task'[v] = task[v] \/ (task'[v] = Idle /\ task'[v].op = "idle")
  BY <1>0, TasksEnd DEF CommitAppend
<1>7. minted < MaxIds /\ minted' = minted + 1
  BY DEF CommitAppend
<1> HIDE DEF r, k
<1> QED
  BY <1>2, <1>3, <1>4, <1>5, <1>6, <1>7, Inserted

\* What an edit, a remove and a publish make of a row.
LEMMA DeletedRow ==
  ASSUME NEW r \in Rows, NEW s \in 1..MaxSerial
  PROVE  LET e == [r EXCEPT !.kind = "delete", !.serial = s, !.text = 0]
         IN  e \in Rows /\ e.serial = s /\ e.of = r.of /\ e.kind = "delete" /\ e.text = 0 /\ e.sealed = r.sealed
<1>1. 0 \in 0..MaxSerial
  BY MessagesAssumption
<1> QED
  BY <1>1 DEF Rows

LEMMA AnchoredRow ==
  ASSUME NEW r \in Rows, NEW s \in 1..MaxSerial
  PROVE  LET e == [r EXCEPT !.anchor = s, !.serial = s]
         IN  e \in Rows /\ e.serial = s /\ e.of = r.of /\ e.kind = r.kind /\ e.text = r.text /\ e.sealed = r.sealed
<1>1. s \in 0..MaxSerial
  BY MessagesAssumption
<1> QED
  BY <1>1 DEF Rows

LEMMA CommitEditStep ==
  ASSUME MessagesInv, NEW t \in Tasks, CommitEdit(t)
  PROVE  MessagesInv' /\ Kept
<1> DEFINE x == task[t].id
           sealed == task[t].sealed
<1>0. TableTyped /\ task[t].op = "edit" /\ x \in Ids /\ sealed \in BOOLEAN /\ End(t) /\ minted' = minted
  BY TaskFields DEF MessagesInv, CommitEdit, EditTask
<1>1. CASE NoWrite
  BY <1>0, <1>1, RowsStay, IdleFits DEF NoWrite, End
<1>2. CASE ~NoWrite
  <2>1. PICK now \in Clock : Write(now, Update(x, Serial(now), sealed))
    BY <1>2 DEF CommitEdit
  <2> DEFINE s == Serial(now)
  <2>2. /\ s \in 1..MaxSerial /\ s > top_serial /\ top_serial' = s /\ next_serial' = s + 1
        /\ rows' = Update(x, s, sealed)
    BY <1>0, <2>1, SerialIssued
  <2> HIDE DEF s
  <2>3. CASE ~get_message(x)
    <3>1. rows' = rows
      BY <1>0, <2>2, <2>3 DEF Update, TableTyped
    <3> QED
      BY <1>0, <2>2, <3>1, RowsStay, IdleFits DEF End
  <2>4. CASE get_message(x)
    <3> DEFINE r == [rows[x] EXCEPT !.kind = "edit", !.serial = s, !.text = s, !.sealed = sealed]
    <3>1. rows[x] \in Rows /\ Exists(x) /\ rows[x].kind # "delete"
      BY <1>0, <2>4 DEF get_message, Exists, TableTyped
    <3>3. rows' = [rows EXCEPT ![x] = r]
      BY <2>2, <2>4 DEF Update
    <3>2. r \in Rows /\ r.serial = s /\ r.of = rows[x].of /\ r.kind = "edit" /\ r.sealed = sealed
      <4>1. s \in 1..MaxSerial /\ sealed \in BOOLEAN /\ rows[x] \in Rows
        BY <1>0, <2>2, <3>1
      <4>2. s \in 0..MaxSerial
        BY <2>2, MessagesAssumption
      <4> HIDE DEF x, sealed
      <4> QED
        BY <4>1, <4>2 DEF Rows, Renderable
    <3>4. rows[x].kind \notin Events
      BY <1>0, <3>1 DEF MessagesInv, ThreadsSound
    <3>5. rows[x].sealed /\ ~sealed => task[t].read < rows[x].serial
      BY <1>0, <3>1 DEF MessagesInv, EditsSound
    <3>6. "edit" \notin Events
      BY DEF Events
    <3> HIDE DEF r
    <3> QED
      BY <1>0, <2>2, <3>1, <3>2, <3>3, <3>4, <3>5, <3>6, Rewritten, ZenonT(60)
  <2> QED
    BY <2>3, <2>4
<1> QED
  BY <1>1, <1>2

LEMMA CommitRemoveStep ==
  ASSUME MessagesInv, NEW t \in Tasks, CommitRemove(t)
  PROVE  MessagesInv' /\ Kept
<1> DEFINE x == task[t].id
<1>0. TableTyped /\ task[t].op = "remove" /\ x \in Ids /\ End(t) /\ minted' = minted
  BY TaskFields DEF MessagesInv, CommitRemove, RowTask
<1>1. PICK now \in Clock : Write(now, SoftDelete(x, Serial(now)))
  BY DEF CommitRemove
<1> DEFINE s == Serial(now)
<1>2. /\ s \in 1..MaxSerial /\ s > top_serial /\ top_serial' = s /\ next_serial' = s + 1
      /\ rows' = SoftDelete(x, s)
  BY <1>0, <1>1, SerialIssued
<1> HIDE DEF s
<1>3. CASE ~get_message(x)
  <2>1. rows' = rows
    BY <1>0, <1>2, <1>3 DEF SoftDelete, TableTyped
  <2> QED
    BY <1>0, <1>2, <2>1, RowsStay, IdleFits DEF End
<1>4. CASE get_message(x)
  <2> DEFINE r == [rows[x] EXCEPT !.kind = "delete", !.serial = s, !.text = 0]
  <2>1. rows[x] \in Rows /\ Exists(x) /\ rows[x].kind # "delete"
    BY <1>0, <1>4 DEF get_message, Exists, TableTyped
  <2>2. r \in Rows /\ r.serial = s /\ r.of = rows[x].of /\ r.kind = "delete" /\ r.text = 0 /\ r.sealed = rows[x].sealed
    BY <1>2, <2>1, DeletedRow
  <2>3. rows' = [rows EXCEPT ![x] = r]
    BY <1>2, <1>4 DEF SoftDelete
  <2>4. rows[x].kind \notin Events /\ "delete" \notin Events
    BY <1>0, <2>1 DEF MessagesInv, ThreadsSound, Events
  <2> HIDE DEF r
  <2> QED
    BY <1>0, <1>2, <2>1, <2>2, <2>3, <2>4, Rewritten, ZenonT(60)
<1> QED
  BY <1>3, <1>4

LEMMA CommitPublishStep ==
  ASSUME MessagesInv, NEW t \in Tasks, CommitPublish(t)
  PROVE  MessagesInv' /\ Kept
<1> DEFINE x == task[t].id
<1>0. TableTyped /\ task[t].op = "publish" /\ x \in Ids /\ End(t) /\ minted' = minted
  BY TaskFields DEF MessagesInv, CommitPublish, RowTask
<1>1. CASE ~Exists(x)
  BY <1>0, <1>1, RowsStay, IdleFits DEF CommitPublish, NoWrite, End
<1>2. CASE Exists(x)
  <2>1. PICK now \in Clock : Write(now, Anchor(x, Serial(now)))
    BY <1>2 DEF CommitPublish
  <2> DEFINE s == Serial(now)
  <2>2. /\ s \in 1..MaxSerial /\ s > top_serial /\ top_serial' = s /\ next_serial' = s + 1
        /\ rows' = Anchor(x, s)
    BY <1>0, <2>1, SerialIssued
  <2> HIDE DEF s
  <2> DEFINE r == [rows[x] EXCEPT !.anchor = s, !.serial = s]
  <2>3. rows[x] \in Rows
    BY <1>0, <1>2 DEF Exists, TableTyped
  <2>4. /\ r \in Rows /\ r.serial = s /\ r.of = rows[x].of /\ r.kind = rows[x].kind
        /\ r.text = rows[x].text /\ r.sealed = rows[x].sealed
    BY <2>2, <2>3, AnchoredRow
  <2>5. rows' = [rows EXCEPT ![x] = r]
    BY <2>2 DEF Anchor
  <2>6. rows[x].kind = "delete" => rows[x].text = 0
    BY <1>0, <1>2 DEF MessagesInv, Scrubbed
  <2> HIDE DEF r
  <2> QED
    BY <1>0, <1>2, <2>2, <2>3, <2>4, <2>5, <2>6, Rewritten
<1> QED
  BY <1>1, <1>2

LEMMA PurgeStep ==
  ASSUME MessagesInv, NEW u \in Users, Purge(u)
  PROVE  MessagesInv' /\ Kept
<1> USE DEF MessagesInv
<1> DEFINE n == minted + 1
<1>1. PICK now \in Clock :
        Write(now, [id \in Ids |-> IF id = n THEN Row(id, "delete_all", Serial(now), now, u, FALSE, 0) ELSE None])
  BY DEF Purge
<1> DEFINE s == Serial(now)
           r == Row(n, "delete_all", s, now, u, FALSE, 0)
<1>0. minted \in Nat /\ n \in Ids /\ minted' = n /\ minted' \in 0..MaxIds /\ task' = task
      /\ \A x \in 0..minted : x # n /\ x \in 0..minted' /\ (x # 0 => x \in Ids)
  BY MessagesAssumption DEF TableTyped, Purge, Ids
<1>2. /\ s \in 1..MaxSerial /\ s > top_serial /\ top_serial' = s /\ next_serial' = s + 1
      /\ rows' = [id \in Ids |-> IF id = n THEN Row(id, "delete_all", s, now, u, FALSE, 0) ELSE None]
  BY <1>1, SerialIssued
<1>3. r \in Rows /\ r.serial = s /\ r.kind = "delete_all" /\ r.of = 0 /\ r.sealed = FALSE
  <2>1. FALSE \in BOOLEAN /\ 0 \in 0..MaxIds /\ 0 \in 0..MaxSerial
    BY MessagesAssumption
  <2> QED
    BY <1>0, <1>2, <2>1 DEF Row, Rows
<1>4. rows'[n] = r /\ \A id \in Ids \ {n} : rows'[id] = None
  BY <1>0, <1>2
<1>n. r # None
  BY <1>3, RowFields
<1> HIDE DEF r, s
<1>5. TableTyped'
  <2>1. rows' \in [Ids -> Rows \cup {None}]
    BY <1>0, <1>2, <1>3 DEF r
  <2> QED
    BY <1>0, <1>2, <2>1, Counted DEF TableTyped
<1>6. SerialsSound'
  <2>1. \A id \in Ids : rows'[id] # None => id = n
    BY <1>4
  <2>2. r.serial <= top_serial' /\ ~(n > minted')
    BY <1>0, <1>2, <1>3
  <2> HIDE DEF n
  <2>3. \A id \in Ids : rows'[id] # None => rows'[id].serial <= top_serial'
    BY <1>4, <2>1, <2>2
  <2>4. \A id \in Ids : id > minted' => rows'[id] = None
    BY <2>1, <2>2
  <2> QED
    BY <2>1, <2>3, <2>4 DEF SerialsSound, Exists
<1>7. \A x : Rooted(x, minted, rows) => Rooted(x, minted', rows')
  BY <1>0, <1>4 DEF Rooted
<1>8. ThreadsSound'
  <2>0. Rooted(0, minted', rows')
    BY <1>0 DEF Rooted
  <2>1. ASSUME NEW id \in Ids, rows'[id] # None PROVE Rooted(rows'[id].of, minted', rows')
    BY <1>3, <1>4, <2>0, <2>1
  <2>2. ASSUME NEW t \in Tasks, task'[t].op = "append", task'[t].kind = "add" PROVE Rooted(task'[t].of, minted', rows')
    BY <1>0, <1>7, <2>2 DEF ThreadsSound
  <2>3. ASSUME NEW t \in Tasks, task'[t].op \in {"edit", "remove", "publish"}
        PROVE  task'[t].id <= minted' /\ rows'[task'[t].id] = None
    <3>1. task[t].id \in Ids /\ task[t].id <= minted
      BY <1>0, <2>3, TaskFields DEF EditTask, RowTask, ThreadsSound
    <3> QED
      BY <1>0, <1>4, <3>1 DEF Ids
  <2> QED
    BY <2>1, <2>2, <2>3 DEF ThreadsSound, Exists
<1>9. Scrubbed'
  BY <1>3, <1>4 DEF Scrubbed, Exists
<1>10. EditsSound'
  <2> SUFFICES ASSUME NEW t \in Tasks, task'[t].op = "edit"
               PROVE  task'[t].read <= s /\ rows'[task'[t].id] = None
    BY <1>2 DEF EditsSound, Exists
  <2>1. task[t].id \in Ids /\ task[t].id <= minted /\ task[t].read \in Nat /\ task[t].read <= top_serial
    BY <1>0, TaskFields, MessagesAssumption DEF EditTask, ThreadsSound, EditsSound
  <2>2. top_serial \in Nat /\ s \in Nat
    BY <1>2, MessagesAssumption DEF TableTyped
  <2>3. task[t].read <= s
    BY <1>2, <2>1, <2>2
  <2>4. task[t].id \in Ids \ {n}
    BY <1>0, <2>1 DEF Ids
  <2> QED
    BY <1>0, <1>4, <2>3, <2>4
<1>11. Kept
  <2>1. rows[n] = None
    BY <1>0 DEF SerialsSound
  <2> QED
    BY <1>2, <1>3, <1>4, <1>n, <2>1 DEF Kept, Climbs, StaysDead, StaysSealed, Exists
<1> QED
  BY <1>5, <1>6, <1>8, <1>9, <1>10, <1>11

\* Requests that begin: what they have read fits what they will write.
LEMMA BeginSteps ==
  ASSUME MessagesInv, NEW t \in Tasks,
         BeginReply(t) \/ BeginEmoticon(t) \/ BeginEdit(t) \/ BeginRemove(t) \/ BeginPublish(t)
  PROVE  MessagesInv' /\ Kept
<1> USE DEF MessagesInv
<1>a. ASSUME NEW k, Fits(k), Begin(t, k) PROVE MessagesInv' /\ Kept
  BY <1>a, RowsStay DEF Begin
<1>n. ASSUME NEW id \in Ids, Names(id)
      PROVE  /\ rows[id] \in Rows /\ rows[id].kind \notin Events /\ Exists(id) /\ id <= minted
             /\ Rooted(rows[id].of, minted, rows) /\ rows[id].serial \in 0..MaxSerial /\ rows[id].serial <= top_serial
             /\ rows[id].of \in 0..MaxIds /\ id \in 0..minted /\ id \in 0..MaxIds
  <2>1. rows[id] \in Rows /\ Exists(id) /\ rows[id].kind \notin Events
    BY <1>n DEF Names, get_message, Exists, TableTyped, Renderable, Events
  <2>2. id <= minted /\ id \in 0..minted /\ id \in 0..MaxIds
    BY <2>1, MessagesAssumption DEF SerialsSound, Exists, TableTyped, Ids
  <2>3. rows[id].serial \in 0..MaxSerial /\ rows[id].of \in 0..MaxIds
    BY <2>1, RowFields, MessagesAssumption
  <2> QED
    BY <2>1, <2>2, <2>3 DEF ThreadsSound, SerialsSound
<1>1. CASE BeginReply(t)
  <2>1. PICK id \in Ids, u \in Users, sealed \in Sealings :
          Names(id) /\ Begin(t, [op |-> "append", kind |-> "add", by |-> u, of |-> thread_root(id), sealed |-> sealed])
    BY <1>1 DEF BeginReply
  <2> DEFINE k == [op |-> "append", kind |-> "add", by |-> u, of |-> thread_root(id), sealed |-> sealed]
  <2>2. Rooted(thread_root(id), minted, rows) /\ thread_root(id) \in 0..MaxIds
    BY <1>n, <2>1 DEF thread_root, Rooted
  <2>3. k \in AppendTask /\ k.op = "append" /\ k.of = thread_root(id)
    BY <2>2, MessagesAssumption DEF AppendTask
  <2> HIDE DEF k
  <2>4. Fits(k)
    BY <2>2, <2>3 DEF Fits
  <2> QED
    BY <1>a, <2>1, <2>4 DEF k
<1>2. CASE BeginEmoticon(t)
  <2>1. PICK id \in Ids, u \in Users, kind \in Events :
          Names(id) /\ Begin(t, [op |-> "append", kind |-> kind, by |-> u, of |-> id, sealed |-> FALSE])
    BY <1>2 DEF BeginEmoticon
  <2> DEFINE k == [op |-> "append", kind |-> kind, by |-> u, of |-> id, sealed |-> FALSE]
  <2>2. k \in AppendTask /\ k.op = "append" /\ k.kind # "add"
    BY <1>n, <2>1 DEF AppendTask, Events
  <2> HIDE DEF k
  <2>3. Fits(k)
    BY <2>2 DEF Fits
  <2> QED
    BY <1>a, <2>1, <2>3 DEF k
<1>3. CASE BeginEdit(t)
  <2>1. PICK id \in Ids, sealed \in Sealings :
          /\ Names(id) /\ EditAllowed(id, sealed)
          /\ Begin(t, [op |-> "edit", id |-> id, sealed |-> sealed, read |-> rows[id].serial])
    BY <1>3 DEF BeginEdit
  <2> DEFINE k == [op |-> "edit", id |-> id, sealed |-> sealed, read |-> rows[id].serial]
  <2>2. k \in EditTask /\ k.op = "edit" /\ k.id = id /\ k.sealed = sealed /\ k.read = rows[id].serial
    BY <1>n, <2>1, MessagesAssumption DEF EditTask
  <2> HIDE DEF k
  <2>3. rows[id].sealed => sealed
    BY <2>1 DEF EditAllowed
  <2>4. Fits(k)
    <3>1. rows[id].serial <= rows[id].serial
      BY <1>n, <2>1
    <3> QED
      BY <1>n, <2>1, <2>2, <2>3, <3>1 DEF Fits
  <2> QED
    BY <1>a, <2>1, <2>4 DEF k
<1>4. ASSUME NEW op \in {"remove", "publish"}, NEW id \in Ids, Names(id), Begin(t, [op |-> op, id |-> id])
      PROVE  MessagesInv' /\ Kept
  <2> DEFINE k == [op |-> op, id |-> id]
  <2>1. k \in RowTask /\ k.op \in {"remove", "publish"} /\ k.id = id
    BY DEF RowTask
  <2> HIDE DEF k
  <2>2. Fits(k)
    BY <1>n, <1>4, <2>1 DEF Fits
  <2> QED
    BY <1>4, <1>a, <2>2 DEF k
<1>5. CASE BeginRemove(t)
  BY <1>4, <1>5 DEF BeginRemove
<1>6. CASE BeginPublish(t)
  BY <1>4, <1>6 DEF BeginPublish
<1> QED
  BY <1>1, <1>2, <1>3, <1>5, <1>6

LEMMA MessagesStep == MessagesInv /\ [ServerStep]_server => MessagesInv' /\ (ServerStep => Kept)
<1> SUFFICES ASSUME MessagesInv, [ServerStep]_server PROVE MessagesInv' /\ (ServerStep => Kept)
  OBVIOUS
<1>1. CASE ServerStep
  <2>1. MessagesInv' /\ Kept
    BY <1>1, SendStep, PurgeStep, CommitAppendStep, CommitEditStep, CommitRemoveStep, CommitPublishStep, BeginSteps
    DEF ServerStep
  <2> QED
    BY <2>1
<1>2. CASE UNCHANGED server
  <2>1. MessagesInv'
    BY <1>2 DEF server, MessagesInv, TableTyped, SerialsSound, ThreadsSound, Rooted, Scrubbed, EditsSound, Exists
  <2>2. Kept
    BY <1>2 DEF server, MessagesInv, Kept, Climbs, StaysDead, StaysSealed, Exists, Scrubbed
  <2> QED
    BY <2>1, <2>2
<1> QED
  BY <1>1, <1>2

\* A row that is new or has changed carries a serial above every serial ever issued
\* (next_serial, every write of db/messages.rs), however the clock moves and whatever was
\* purged: a cursor a client holds can never be in its way.
THEOREM SerialsAlwaysClimb == MessagesSpec => SerialsClimb
<1>1. MessagesInv /\ [ServerStep]_server =>
        [\A id \in Ids : rows'[id] # rows[id] /\ rows'[id] # None => rows'[id].serial > top_serial]_server
  BY MessagesStep DEF Kept, Climbs
<1>2. MessagesInv /\ [ServerStep]_server => MessagesInv'
  BY MessagesStep
<1> QED
  BY <1>1, <1>2, MessagesInitInv, PTL DEF MessagesSpec, SerialsClimb

\* What a row has become it stays: a tombstone scrubbed, a sealed message sealed unless it
\* was rewritten between an edit's read and its commit, a thread one level deep
\* (update_message, soft_delete_message, publish_tx_hash, thread_root), for any number of
\* requests between their read and their write.
THEOREM RowsStayWhatTheyAre == MessagesSpec => RowsNeverGoBack
<1>1. MessagesInv /\ [ServerStep]_server =>
        [\A id \in Ids : Exists(id) /\ rows[id].kind = "delete" /\ rows'[id] # None =>
            rows'[id].kind = "delete" /\ rows'[id].text = 0]_server
  BY MessagesStep DEF Kept, StaysDead
<1>2. MessagesInv /\ [ServerStep]_server =>
        [\A id \in Ids : Exists(id) /\ rows[id].sealed /\ rows'[id] # None /\ ~rows'[id].sealed =>
            \E t \in Tasks : /\ task[t].op = "edit" /\ task[t].id = id /\ task'[t] = Idle
                             /\ task[t].read < rows[id].serial]_server
  BY MessagesStep DEF Kept, StaysSealed
<1>3. MessagesInv => MessagesTypeOK /\ ThreadsAreFlat
  <2>1. MessagesInv => MessagesTypeOK
    BY DEF MessagesInv, TableTyped, SerialsSound, MessagesTypeOK
  <2>2. MessagesInv => ThreadsAreFlat
    BY DEF MessagesInv, ThreadsSound, Rooted, ThreadsAreFlat, Exists, Renderable, Events
  <2> QED
    BY <2>1, <2>2
<1>4. MessagesInv /\ [ServerStep]_server => MessagesInv'
  BY MessagesStep
<1>5. MessagesSpec => TombstonesStay
  BY <1>1, <1>4, MessagesInitInv, PTL DEF MessagesSpec, TombstonesStay
<1>6. MessagesSpec => SealedStaysSealed
  BY <1>2, <1>4, MessagesInitInv, PTL DEF MessagesSpec, SealedStaysSealed
<1>7. MessagesSpec => [](MessagesTypeOK /\ ThreadsAreFlat)
  BY <1>3, <1>4, MessagesInitInv, PTL DEF MessagesSpec
<1> QED
  BY <1>5, <1>6, <1>7 DEF RowsNeverGoBack

-----------------------------------------------------------------------------
(***************************************************************************)
(* Hub.                                                                     *)
(***************************************************************************)
Entering == {"admitted", "indexed", "pushed"}

\* Where a connection's task is says which maps list it.
Placed ==
    /\ \A c \in Conns : c \in conns <=> pc[c] = "live"
    /\ \A c \in Conns : c \in by_user <=> pc[c] \in {"pushed", "live", "leaving"}
    /\ \A r \in Rooms, c \in Conns : c \in by_room[r] <=> r \in view[c] /\ pc[c] \in {"indexed", "pushed", "live"}
    /\ \A c \in Conns : pc[c] = "emptied" => by_user = {}

\* Nobody registers beside another who does, nor beside a disconnect or a beacon.
TakesTurns ==
    /\ \A c, d \in Conns : pc[c] \in Entering /\ pc[d] \in Entering => c = d
    /\ \A c, d \in Conns : pc[c] \in Entering => pc[d] \notin {"leaving", "emptied"}
    /\ \A c \in Conns : pc[c] \in Entering => put.step # "write"

\* Who was admitted has a place until it is counted.
PlacesKept ==
    /\ Cardinality(by_user) <= MaxPerWallet /\ Cardinality(conns) <= MaxConnections
    /\ \A c \in Conns : pc[c] \in {"admitted", "indexed"} => Cardinality(by_user) < MaxPerWallet
    /\ \A c \in Conns : pc[c] \in Entering => Cardinality(conns) < MaxConnections

NobodyRefreshes == \A f \in Refreshers : refresh[f].step = "idle"
\* A view loaded while nobody refreshes is the database's; a refresh under way has the
\* database's rooms and has still to reach whoever holds another view.
ViewsFollow ==
    /\ NobodyRefreshes => \A c \in Conns \ Narrowed : pc[c] \in Entering \cup {"loaded", "live"} => view[c] = truth
    /\ \A f \in Refreshers : refresh[f].step # "idle" =>
         /\ \A c \in Conns : pc[c] \notin Entering \cup {"loaded"}
         /\ refresh[f].step \in {"ids", "swap"} => refresh[f].snap = truth
         /\ refresh[f].step = "swap" => \A c \in conns \ (Narrowed \cup refresh[f].todo) : view[c] = truth

\* A beacon, and one about to be written, is of a wallet without a connection; it says
\* that the wallet is there.
BeaconsAlone ==
    /\ BeaconStandsAlone /\ put.status # "offline"
    /\ \A c \in Conns : pc[c] \in {"indexed", "pushed"} => beacon = "none"
    /\ put.step = "write" /\ put.ids = {} => conns = {}

HubInv == TypeOK /\ Placed /\ TakesTurns /\ PlacesKept /\ ViewsFollow /\ BeaconsAlone

-----------------------------------------------------------------------------
\* Sets of connections are finite and count as such.
LEMMA Counting ==
  ASSUME NEW S \in SUBSET Conns
  PROVE  /\ IsFiniteSet(S) /\ Cardinality(S) \in Nat
         /\ \A c \in Conns : Cardinality(S \cup {c}) <= Cardinality(S) + 1
         /\ \A T \in SUBSET S : Cardinality(T) <= Cardinality(S)
<1>1. IsFiniteSet(S)
  BY HubAssumption, FS_Subset
<1>2. Cardinality(S) \in Nat
  BY <1>1, FS_CardinalityType
<1>3. ASSUME NEW c \in Conns PROVE Cardinality(S \cup {c}) <= Cardinality(S) + 1
  <2>1. Cardinality(S \cup {c}) = IF c \in S THEN Cardinality(S) ELSE Cardinality(S) + 1
    BY <1>1, FS_AddElement
  <2> QED
    BY <1>2, <2>1
<1>4. ASSUME NEW T \in SUBSET S PROVE Cardinality(T) <= Cardinality(S)
  BY <1>1, <1>4, FS_Subset
<1> QED
  BY <1>1, <1>2, <1>3, <1>4

LEMMA HubStarts == Init => HubInv
<1> SUFFICES ASSUME Init PROVE HubInv
  OBVIOUS
<1>1. TypeOK
  BY DEF Init, TypeOK, Steps, Status, Announcers
<1>2. Placed /\ TakesTurns /\ ViewsFollow /\ BeaconsAlone
  BY DEF Init, Placed, TakesTurns, ViewsFollow, BeaconsAlone, BeaconStandsAlone, Entering
<1>3. PlacesKept
  <2>1. Cardinality(by_user) = 0 /\ Cardinality(conns) = 0
    BY FS_EmptySet DEF Init
  <2> QED
    BY <2>1, HubAssumption DEF Init, PlacesKept, Entering
<1> QED
  BY <1>1, <1>2, <1>3 DEF HubInv

-----------------------------------------------------------------------------
(***************************************************************************)
(* The steps, when nothing overlaps.                                        *)
(***************************************************************************)
NothingOverlaps == Races = {} /\ \A f, g \in Refreshers : f = g

LEMMA AddsUp == \A held, lively, lit : AddUp(held, lively, lit) \in Status
BY DEF AddUp, Status

\* What only touches presence: no connection moves, no index changes, no beacon is lit.
LEMMA PresenceStep ==
  ASSUME HubInv, UNCHANGED <<truth, pc, view, asked, conns, by_user, by_room, refresh>>,
         active' \subseteq Conns, beacon' \in {"none", "online", "away", "stale"}, announced' \in Status,
         derived' \in [Announcers -> Status \cup {"none"}],
         put' \in [step : {"idle", "write", "announce"}, status : Status, ids : SUBSET Conns],
         beacon' # "none" => beacon # "none",
         put'.step = "write" => put' = put, put'.status # "offline"
  PROVE  HubInv'
<1> USE DEF HubInv
<1>1. TypeOK'
  BY DEF TypeOK
<1>2. Placed'
  BY DEF Placed
<1>3. TakesTurns'
  BY DEF TakesTurns
<1>4. PlacesKept'
  BY DEF PlacesKept
<1>5. ViewsFollow'
  BY DEF ViewsFollow, NobodyRefreshes
<1>6. BeaconsAlone'
  BY DEF BeaconsAlone, BeaconStandsAlone
<1> QED
  BY <1>1, <1>2, <1>3, <1>4, <1>5, <1>6

LEMMA AnnounceStays ==
  ASSUME HubInv, NEW a \in Announcers, Announce(a)
  PROVE  HubInv'
<1>1. UNCHANGED <<truth, pc, view, asked, conns, by_user, by_room, refresh>>
  BY DEF Announce
<1>2. /\ active' \subseteq Conns /\ beacon' \in {"none", "online", "away", "stale"} /\ announced' \in Status
      /\ put' \in [step : {"idle", "write", "announce"}, status : Status, ids : SUBSET Conns]
  BY DEF Announce, HubInv, TypeOK, Status
<1>3. derived' \in [Announcers -> Status \cup {"none"}]
  BY AddsUp DEF Announce, HubInv, TypeOK, Announcers, Derive, derive_presence
<1>4. (beacon' # "none" => beacon # "none") /\ (put'.step = "write" => put' = put) /\ put'.status # "offline"
  BY DEF Announce, HubInv, TypeOK, BeaconsAlone
<1> QED
  BY <1>1, <1>2, <1>3, <1>4, PresenceStep

LEMMA KeepAliveStays ==
  ASSUME HubInv, NEW c \in Conns, KeepAlive(c)
  PROVE  HubInv'
<1>1. UNCHANGED <<truth, pc, view, asked, conns, by_user, by_room, refresh>>
  BY DEF KeepAlive
<1>2. /\ active' \subseteq Conns /\ beacon' \in {"none", "online", "away", "stale"} /\ announced' \in Status
      /\ put' \in [step : {"idle", "write", "announce"}, status : Status, ids : SUBSET Conns]
  BY DEF KeepAlive, HubInv, TypeOK, Status
<1>3. derived' \in [Announcers -> Status \cup {"none"}]
  BY AddsUp DEF KeepAlive, HubInv, TypeOK, Announcers, Derive, derive_presence
<1>4. (beacon' # "none" => beacon # "none") /\ (put'.step = "write" => put' = put) /\ put'.status # "offline"
  BY DEF KeepAlive, HubInv, TypeOK, BeaconsAlone
<1> QED
  BY <1>1, <1>2, <1>3, <1>4, PresenceStep

LEMMA FallIdleStays ==
  ASSUME HubInv, NEW c \in Conns, FallIdle(c)
  PROVE  HubInv'
<1>1. UNCHANGED <<truth, pc, view, asked, conns, by_user, by_room, refresh>>
  BY DEF FallIdle
<1>2. /\ active' \subseteq Conns /\ beacon' \in {"none", "online", "away", "stale"} /\ announced' \in Status
      /\ put' \in [step : {"idle", "write", "announce"}, status : Status, ids : SUBSET Conns]
  BY DEF FallIdle, HubInv, TypeOK, Status
<1>3. derived' \in [Announcers -> Status \cup {"none"}]
  BY AddsUp DEF FallIdle, HubInv, TypeOK, Announcers, Derive, derive_presence
<1>4. (beacon' # "none" => beacon # "none") /\ (put'.step = "write" => put' = put) /\ put'.status # "offline"
  BY DEF FallIdle, HubInv, TypeOK, BeaconsAlone
<1> QED
  BY <1>1, <1>2, <1>3, <1>4, PresenceStep

LEMMA DeclareStays ==
  ASSUME HubInv, NEW c \in Conns, Declare(c)
  PROVE  HubInv'
<1>1. UNCHANGED <<truth, pc, view, asked, conns, by_user, by_room, refresh>>
  BY DEF Declare
<1>2. /\ active' \subseteq Conns /\ beacon' \in {"none", "online", "away", "stale"} /\ announced' \in Status
      /\ put' \in [step : {"idle", "write", "announce"}, status : Status, ids : SUBSET Conns]
  BY DEF Declare, HubInv, TypeOK, Status
<1>3. derived' \in [Announcers -> Status \cup {"none"}]
  BY AddsUp DEF Declare, HubInv, TypeOK, Announcers, Derive, derive_presence
<1>4. (beacon' # "none" => beacon # "none") /\ (put'.step = "write" => put' = put) /\ put'.status # "offline"
  BY DEF Declare, HubInv, TypeOK, BeaconsAlone
<1> QED
  BY <1>1, <1>2, <1>3, <1>4, PresenceStep

LEMMA PutAnnouncesStays ==
  ASSUME HubInv, PutAnnounces
  PROVE  HubInv'
<1>1. UNCHANGED <<truth, pc, view, asked, conns, by_user, by_room, refresh>>
  BY DEF PutAnnounces
<1>2. /\ active' \subseteq Conns /\ beacon' \in {"none", "online", "away", "stale"} /\ announced' \in Status
      /\ put' \in [step : {"idle", "write", "announce"}, status : Status, ids : SUBSET Conns]
  BY DEF PutAnnounces, HubInv, TypeOK, Status
<1>3. derived' \in [Announcers -> Status \cup {"none"}]
  BY AddsUp DEF PutAnnounces, HubInv, TypeOK, Announcers, Derive, derive_presence
<1>4. (beacon' # "none" => beacon # "none") /\ (put'.step = "write" => put' = put) /\ put'.status # "offline"
  BY DEF PutAnnounces, HubInv, TypeOK, BeaconsAlone
<1> QED
  BY <1>1, <1>2, <1>3, <1>4, PresenceStep

LEMMA BeaconAgesStays ==
  ASSUME HubInv, BeaconAges
  PROVE  HubInv'
<1>1. UNCHANGED <<truth, pc, view, asked, conns, by_user, by_room, refresh>>
  BY DEF BeaconAges
<1>2. /\ active' \subseteq Conns /\ beacon' \in {"none", "online", "away", "stale"} /\ announced' \in Status
      /\ put' \in [step : {"idle", "write", "announce"}, status : Status, ids : SUBSET Conns]
  BY DEF BeaconAges, HubInv, TypeOK, Status
<1>3. derived' \in [Announcers -> Status \cup {"none"}]
  BY AddsUp DEF BeaconAges, HubInv, TypeOK, Announcers, Derive, derive_presence
<1>4. (beacon' # "none" => beacon # "none") /\ (put'.step = "write" => put' = put) /\ put'.status # "offline"
  BY DEF BeaconAges, HubInv, TypeOK, BeaconsAlone
<1> QED
  BY <1>1, <1>2, <1>3, <1>4, PresenceStep

LEMMA SweepStays ==
  ASSUME HubInv, Sweep
  PROVE  HubInv'
<1>1. UNCHANGED <<truth, pc, view, asked, conns, by_user, by_room, refresh>>
  BY DEF Sweep
<1>2. /\ active' \subseteq Conns /\ beacon' \in {"none", "online", "away", "stale"} /\ announced' \in Status
      /\ put' \in [step : {"idle", "write", "announce"}, status : Status, ids : SUBSET Conns]
  BY DEF Sweep, HubInv, TypeOK, Status
<1>3. derived' \in [Announcers -> Status \cup {"none"}]
  BY AddsUp DEF Sweep, HubInv, TypeOK, Announcers, Derive, derive_presence
<1>4. (beacon' # "none" => beacon # "none") /\ (put'.step = "write" => put' = put) /\ put'.status # "offline"
  BY DEF Sweep, HubInv, TypeOK, BeaconsAlone
<1> QED
  BY <1>1, <1>2, <1>3, <1>4, PresenceStep

LEMMA LoadStep ==
  ASSUME HubInv, NothingOverlaps, NEW c \in Conns, Load(c)
  PROVE  HubInv'
<1> USE DEF HubInv
<1>1. TypeOK'
  BY DEF Load, TypeOK, Steps, Status, Announcers, NothingOverlaps, Alone
<1>2. Placed'
  BY DEF Load, TypeOK, Placed, NothingOverlaps, Alone
<1>3. TakesTurns'
  BY DEF Load, TypeOK, TakesTurns, Entering, NothingOverlaps, Alone
<1>4. PlacesKept'
  <2>1. UNCHANGED <<conns, by_user>>
    BY DEF Load
  <2> QED
    BY <2>1 DEF Load, TypeOK, PlacesKept, Entering
<1>5. ViewsFollow'
  BY DEF Load, TypeOK, Placed, ViewsFollow, NobodyRefreshes, Entering, NothingOverlaps, Alone
<1>6. BeaconsAlone'
  BY DEF Load, TypeOK, BeaconsAlone, BeaconStandsAlone, Entering, NothingOverlaps, Alone
<1> QED
  BY <1>1, <1>2, <1>3, <1>4, <1>5, <1>6

LEMMA AdmitStep ==
  ASSUME HubInv, NothingOverlaps, NEW c \in Conns, Admit(c)
  PROVE  HubInv'
<1> USE DEF HubInv
<1>1. TypeOK'
  BY DEF Admit, TypeOK, Steps, Status, Announcers, NothingOverlaps, Alone, Forget, Registering, Leaving, Admits
<1>2. Placed'
  BY DEF Admit, TypeOK, Placed, NothingOverlaps, Alone, Forget, Registering, Leaving, Admits
<1>3. TakesTurns'
  BY DEF Admit, TypeOK, TakesTurns, Entering, NothingOverlaps, Alone, Forget, Registering, Leaving, Admits
<1>4. PlacesKept'
  <2>1. UNCHANGED <<conns, by_user>> /\ (pc'[c] = "admitted" => Admits)
    BY DEF Admit, TypeOK
  <2>2. \A d \in Conns : d # c => pc'[d] = pc[d]
    BY DEF Admit, TypeOK
  <2>3. pc'[c] \in {"admitted", "gone"}
    BY DEF Admit, TypeOK
  <2> QED
    BY <2>1, <2>2, <2>3 DEF PlacesKept, Entering, Admits
<1>5. ViewsFollow'
  BY DEF Admit, TypeOK, Placed, ViewsFollow, NobodyRefreshes, Entering, NothingOverlaps, Alone, Forget, Registering, Leaving, Admits
<1>6. BeaconsAlone'
  BY DEF Admit, TypeOK, BeaconsAlone, BeaconStandsAlone, Entering, NothingOverlaps, Alone, Forget, Registering, Leaving, Admits
<1> QED
  BY <1>1, <1>2, <1>3, <1>4, <1>5, <1>6

LEMMA IndexRoomsStep ==
  ASSUME HubInv, NothingOverlaps, NEW c \in Conns, IndexRooms(c)
  PROVE  HubInv'
<1> USE DEF HubInv
<1>1. TypeOK'
  BY DEF IndexRooms, TypeOK, Steps, Status, Announcers
<1>2. Placed'
  BY DEF IndexRooms, TypeOK, Placed
<1>3. TakesTurns'
  BY DEF IndexRooms, TypeOK, TakesTurns, Entering
<1>4. PlacesKept'
  <2>1. UNCHANGED <<conns, by_user>>
    BY DEF IndexRooms
  <2> QED
    BY <2>1 DEF IndexRooms, TypeOK, PlacesKept, Entering
<1>5. ViewsFollow'
  BY DEF IndexRooms, TypeOK, Placed, ViewsFollow, NobodyRefreshes, Entering
<1>6. BeaconsAlone'
  BY DEF IndexRooms, TypeOK, BeaconsAlone, BeaconStandsAlone, Entering
<1> QED
  BY <1>1, <1>2, <1>3, <1>4, <1>5, <1>6

LEMMA PushUserStep ==
  ASSUME HubInv, NothingOverlaps, NEW c \in Conns, PushUser(c)
  PROVE  HubInv'
<1> USE DEF HubInv
<1>1. TypeOK'
  BY DEF PushUser, TypeOK, Steps, Status, Announcers
<1>2. Placed'
  BY DEF PushUser, TypeOK, Placed, TakesTurns, Entering
<1>3. TakesTurns'
  BY DEF PushUser, TypeOK, TakesTurns, Entering
<1>4. PlacesKept'
  <2>1. by_user \subseteq Conns /\ by_user' = by_user \cup {c} /\ conns' = conns /\ pc[c] = "indexed"
    BY DEF PushUser, TypeOK
  <2>2. Cardinality(by_user') <= MaxPerWallet
    <3>1. Cardinality(by_user) < MaxPerWallet /\ MaxPerWallet \in Nat
      BY <2>1, HubAssumption DEF PlacesKept
    <3>2. Cardinality(by_user) \in Nat /\ Cardinality(by_user') \in Nat /\ Cardinality(by_user') <= Cardinality(by_user) + 1
      BY <2>1, Counting DEF TypeOK
    <3> QED
      BY <3>1, <3>2
  <2>3. \A d \in Conns : pc'[d] \notin {"admitted", "indexed"}
    BY <2>1 DEF PushUser, TypeOK, TakesTurns, Entering
  <2>4. \A d \in Conns : pc'[d] \in Entering => pc[d] \in Entering
    BY DEF PushUser, TypeOK, Entering
  <2> QED
    BY <2>1, <2>2, <2>3, <2>4 DEF PlacesKept
<1>5. ViewsFollow'
  BY DEF PushUser, TypeOK, Placed, ViewsFollow, NobodyRefreshes, Entering
<1>6. BeaconsAlone'
  BY DEF PushUser, TypeOK, BeaconsAlone, BeaconStandsAlone, Entering
<1> QED
  BY <1>1, <1>2, <1>3, <1>4, <1>5, <1>6

LEMMA InsertStep ==
  ASSUME HubInv, NothingOverlaps, NEW c \in Conns, Insert(c)
  PROVE  HubInv'
<1> USE DEF HubInv
<1>1. TypeOK'
  BY AddsUp DEF Insert, TypeOK, Steps, Announcers
<1>2. Placed'
  BY DEF Insert, TypeOK, Placed
<1>3. TakesTurns'
  BY DEF Insert, TypeOK, TakesTurns, Entering
<1>4. PlacesKept'
  <2>1. conns \subseteq Conns /\ conns' = conns \cup {c} /\ by_user' = by_user /\ pc[c] = "pushed"
    BY DEF Insert, TypeOK
  <2>2. Cardinality(conns') <= MaxConnections
    <3>1. Cardinality(conns) < MaxConnections /\ MaxConnections \in Nat
      BY <2>1, HubAssumption DEF PlacesKept, Entering
    <3>2. Cardinality(conns) \in Nat /\ Cardinality(conns') \in Nat /\ Cardinality(conns') <= Cardinality(conns) + 1
      BY <2>1, Counting DEF TypeOK
    <3> QED
      BY <3>1, <3>2
  <2>3. \A d \in Conns : pc'[d] \notin Entering
    BY <2>1 DEF Insert, TypeOK, TakesTurns, Entering
  <2> QED
    BY <2>1, <2>2, <2>3 DEF PlacesKept, Entering
<1>5. ViewsFollow'
  BY DEF Insert, TypeOK, Placed, ViewsFollow, NobodyRefreshes, Entering
<1>6. BeaconsAlone'
  BY DEF Insert, TypeOK, BeaconsAlone, BeaconStandsAlone, TakesTurns, Entering
<1> QED
  BY <1>1, <1>2, <1>3, <1>4, <1>5, <1>6

LEMMA RemoveStep ==
  ASSUME HubInv, NothingOverlaps, NEW c \in Conns, Remove(c)
  PROVE  HubInv'
<1> USE DEF HubInv
<1>1. TypeOK'
  BY DEF Remove, TypeOK, Steps, Status, Announcers, NothingOverlaps, Alone, Forget, Registering
<1>2. Placed'
  BY DEF Remove, TypeOK, Placed, NothingOverlaps, Alone, Forget, Registering
<1>3. TakesTurns'
  BY DEF Remove, TypeOK, TakesTurns, Entering, NothingOverlaps, Alone, Forget, Registering
<1>4. PlacesKept'
  <2>1. conns' \subseteq conns /\ by_user' \subseteq by_user /\ conns \subseteq Conns /\ by_user \subseteq Conns
    BY DEF Remove, TypeOK
  <2>2. \A d \in Conns : pc'[d] \notin Entering
    BY DEF Remove, TypeOK, TakesTurns, Entering, Registering, NothingOverlaps, Alone
  <2>3. /\ Cardinality(conns') <= Cardinality(conns) /\ Cardinality(by_user') <= Cardinality(by_user)
        /\ Cardinality(conns) \in Nat /\ Cardinality(by_user) \in Nat
        /\ Cardinality(conns') \in Nat /\ Cardinality(by_user') \in Nat
    <3>1. conns' \in SUBSET Conns /\ by_user' \in SUBSET Conns
      BY <2>1
    <3> QED
      BY <2>1, <3>1, Counting
  <2> QED
    BY <2>2, <2>3, HubAssumption DEF PlacesKept, Entering
<1>5. ViewsFollow'
  BY DEF Remove, TypeOK, Placed, ViewsFollow, NobodyRefreshes, Entering, NothingOverlaps, Alone, Forget, Registering
<1>6. BeaconsAlone'
  BY DEF Remove, TypeOK, BeaconsAlone, BeaconStandsAlone, Entering, NothingOverlaps, Alone, Forget, Registering
<1> QED
  BY <1>1, <1>2, <1>3, <1>4, <1>5, <1>6

LEMMA RetainStep ==
  ASSUME HubInv, NothingOverlaps, NEW c \in Conns, Retain(c)
  PROVE  HubInv'
<1> USE DEF HubInv
<1>1. TypeOK'
  BY AddsUp DEF Retain, Derive, derive_presence, TypeOK, Steps, Announcers
<1>2. Placed'
  BY DEF Retain, TypeOK, Placed
<1>3. TakesTurns'
  BY DEF Retain, TypeOK, TakesTurns, Entering
<1>4. PlacesKept'
  <2>1. conns' \subseteq conns /\ by_user' \subseteq by_user /\ conns \subseteq Conns /\ by_user \subseteq Conns
    BY DEF Retain, TypeOK
  <2>2. \A d \in Conns : pc'[d] \notin Entering
    BY DEF Retain, TypeOK, TakesTurns, Entering
  <2>3. /\ Cardinality(conns') <= Cardinality(conns) /\ Cardinality(by_user') <= Cardinality(by_user)
        /\ Cardinality(conns) \in Nat /\ Cardinality(by_user) \in Nat
        /\ Cardinality(conns') \in Nat /\ Cardinality(by_user') \in Nat
    <3>1. conns' \in SUBSET Conns /\ by_user' \in SUBSET Conns
      BY <2>1
    <3> QED
      BY <2>1, <3>1, Counting
  <2> QED
    BY <2>2, <2>3, HubAssumption DEF PlacesKept, Entering
<1>5. ViewsFollow'
  BY DEF Retain, TypeOK, Placed, ViewsFollow, NobodyRefreshes, Entering
<1>6. BeaconsAlone'
  BY DEF Retain, TypeOK, BeaconsAlone, BeaconStandsAlone, Entering
<1> QED
  BY <1>1, <1>2, <1>3, <1>4, <1>5, <1>6

LEMMA DropEntryStep ==
  ASSUME HubInv, NothingOverlaps, NEW c \in Conns, DropEntry(c)
  PROVE  HubInv'
<1> USE DEF HubInv
<1>1. TypeOK'
  BY AddsUp DEF DropEntry, TypeOK, Steps, Announcers
<1>2. Placed'
  BY DEF DropEntry, TypeOK, Placed
<1>3. TakesTurns'
  BY DEF DropEntry, TypeOK, TakesTurns, Entering
<1>4. PlacesKept'
  <2>1. conns' \subseteq conns /\ by_user' \subseteq by_user /\ conns \subseteq Conns /\ by_user \subseteq Conns
    BY DEF DropEntry, TypeOK
  <2>2. \A d \in Conns : pc'[d] \notin Entering
    BY DEF DropEntry, TypeOK, TakesTurns, Entering
  <2>3. /\ Cardinality(conns') <= Cardinality(conns) /\ Cardinality(by_user') <= Cardinality(by_user)
        /\ Cardinality(conns) \in Nat /\ Cardinality(by_user) \in Nat
        /\ Cardinality(conns') \in Nat /\ Cardinality(by_user') \in Nat
    <3>1. conns' \in SUBSET Conns /\ by_user' \in SUBSET Conns
      BY <2>1
    <3> QED
      BY <2>1, <3>1, Counting
  <2> QED
    BY <2>2, <2>3, HubAssumption DEF PlacesKept, Entering
<1>5. ViewsFollow'
  BY DEF DropEntry, TypeOK, Placed, ViewsFollow, NobodyRefreshes, Entering
<1>6. BeaconsAlone'
  BY DEF DropEntry, TypeOK, BeaconsAlone, BeaconStandsAlone, Entering
<1> QED
  BY <1>1, <1>2, <1>3, <1>4, <1>5, <1>6

LEMMA ChangeStep ==
  ASSUME HubInv, NothingOverlaps, NEW f \in Refreshers, Change(f)
  PROVE  HubInv'
<1> USE DEF HubInv
<1>1. TypeOK'
  BY DEF Change, TypeOK, Steps, Status, Announcers, NothingOverlaps, Alone
<1>2. Placed'
  BY DEF Change, TypeOK, Placed, NothingOverlaps, Alone
<1>3. TakesTurns'
  BY DEF Change, TakesTurns
<1>4. PlacesKept'
  BY DEF Change, PlacesKept
<1>5. ViewsFollow'
  BY DEF Change, TypeOK, Placed, ViewsFollow, NobodyRefreshes, Entering, NothingOverlaps, Alone
<1>6. BeaconsAlone'
  BY DEF Change, TypeOK, BeaconsAlone, BeaconStandsAlone, Entering, NothingOverlaps, Alone
<1> QED
  BY <1>1, <1>2, <1>3, <1>4, <1>5, <1>6

LEMMA LoadViewStep ==
  ASSUME HubInv, NothingOverlaps, NEW f \in Refreshers, LoadView(f)
  PROVE  HubInv'
<1> USE DEF HubInv
<1>1. TypeOK'
  BY DEF LoadView, TypeOK, Steps, Status, Announcers, NothingOverlaps
<1>2. Placed'
  BY DEF LoadView, TypeOK, Placed, NothingOverlaps
<1>3. TakesTurns'
  BY DEF LoadView, TakesTurns
<1>4. PlacesKept'
  BY DEF LoadView, PlacesKept
<1>5. ViewsFollow'
  BY DEF LoadView, TypeOK, Placed, ViewsFollow, NobodyRefreshes, Entering, NothingOverlaps
<1>6. BeaconsAlone'
  BY DEF LoadView, TypeOK, BeaconsAlone, BeaconStandsAlone, Entering, NothingOverlaps
<1> QED
  BY <1>1, <1>2, <1>3, <1>4, <1>5, <1>6

LEMMA ReadIdsStep ==
  ASSUME HubInv, NothingOverlaps, NEW f \in Refreshers, ReadIds(f)
  PROVE  HubInv'
<1> USE DEF HubInv
<1>1. TypeOK'
  <2>1. refresh' \in [Refreshers -> [step : {"idle", "load", "ids", "swap"}, snap : SUBSET Rooms, todo : SUBSET Conns]]
    <3>1. refresh[f] \in [step : {"idle", "load", "ids", "swap"}, snap : SUBSET Rooms, todo : SUBSET Conns]
      BY DEF TypeOK
    <3> DEFINE step == IF by_user = {} THEN "idle" ELSE "swap"
    <3>2. step \in {"idle", "load", "ids", "swap"} /\ by_user \in SUBSET Conns
      BY DEF TypeOK
    <3>3. refresh' = [refresh EXCEPT ![f] = [refresh[f] EXCEPT !.step = step, !.todo = by_user]]
      BY <3>1 DEF ReadIds, TypeOK
    <3> HIDE DEF step
    <3>4. [refresh[f] EXCEPT !.step = step, !.todo = by_user] \in
            [step : {"idle", "load", "ids", "swap"}, snap : SUBSET Rooms, todo : SUBSET Conns]
      BY <3>1, <3>2
    <3> QED
      BY <3>3, <3>4 DEF TypeOK
  <2> QED
    BY <2>1 DEF ReadIds, TypeOK
<1>2. Placed'
  BY DEF ReadIds, TypeOK, Placed, NothingOverlaps
<1>3. TakesTurns'
  BY DEF ReadIds, TakesTurns
<1>4. PlacesKept'
  BY DEF ReadIds, PlacesKept
<1>5. ViewsFollow'
  BY DEF ReadIds, TypeOK, Placed, ViewsFollow, NobodyRefreshes, Entering, NothingOverlaps
<1>6. BeaconsAlone'
  BY DEF ReadIds, TypeOK, BeaconsAlone, BeaconStandsAlone, Entering, NothingOverlaps
<1> QED
  BY <1>1, <1>2, <1>3, <1>4, <1>5, <1>6

LEMMA SwapStep ==
  ASSUME HubInv, NothingOverlaps, NEW f \in Refreshers, Swap(f)
  PROVE  HubInv'
<1> USE DEF HubInv
<1>1. TypeOK'
  <2>1. PICK c \in refresh[f].todo :
          /\ IF c \in conns
             THEN /\ view' = [view EXCEPT ![c] = refresh[f].snap]
                  /\ by_room' = [r \in Rooms |-> IF r \in refresh[f].snap THEN by_room[r] \cup {c}
                                                 ELSE by_room[r] \ {c}]
             ELSE UNCHANGED <<view, by_room>>
          /\ refresh' = [refresh EXCEPT ![f].todo = @ \ {c},
                                        ![f].step = IF refresh[f].todo = {c} THEN "idle" ELSE "swap"]
    BY DEF Swap
  <2>2. refresh[f] \in [step : {"idle", "load", "ids", "swap"}, snap : SUBSET Rooms, todo : SUBSET Conns]
    BY DEF TypeOK
  <2>3. refresh' \in [Refreshers -> [step : {"idle", "load", "ids", "swap"}, snap : SUBSET Rooms, todo : SUBSET Conns]]
    <3> DEFINE step == IF refresh[f].todo = {c} THEN "idle" ELSE "swap"
    <3> DEFINE left == refresh[f].todo \ {c}
    <3>2. step \in {"idle", "load", "ids", "swap"} /\ left \in SUBSET Conns
      BY <2>2
    <3>3. refresh' = [refresh EXCEPT ![f] = [refresh[f] EXCEPT !.todo = left, !.step = step]]
      BY <2>1, <2>2 DEF TypeOK
    <3> HIDE DEF step, left
    <3>4. [refresh[f] EXCEPT !.todo = left, !.step = step] \in
            [step : {"idle", "load", "ids", "swap"}, snap : SUBSET Rooms, todo : SUBSET Conns]
      BY <2>2, <3>2
    <3> QED
      BY <3>3, <3>4 DEF TypeOK
  <2>4. c \in Conns /\ refresh[f].snap \in SUBSET Rooms
    BY <2>2
  <2>5. view' \in [Conns -> SUBSET Rooms]
    BY <2>1, <2>4 DEF TypeOK
  <2>6. by_room' \in [Rooms -> SUBSET Conns]
    BY <2>1, <2>4 DEF TypeOK
  <2> QED
    BY <2>3, <2>5, <2>6 DEF Swap, TypeOK
<1>2. Placed'
  BY DEF Swap, TypeOK, Placed, NothingOverlaps
<1>3. TakesTurns'
  BY DEF Swap, TakesTurns
<1>4. PlacesKept'
  BY DEF Swap, PlacesKept
<1>5. ViewsFollow'
  BY DEF Swap, TypeOK, Placed, ViewsFollow, NobodyRefreshes, Entering, NothingOverlaps
<1>6. BeaconsAlone'
  BY DEF Swap, TypeOK, BeaconsAlone, BeaconStandsAlone, Entering, NothingOverlaps
<1> QED
  BY <1>1, <1>2, <1>3, <1>4, <1>5, <1>6

LEMMA PutPresenceStep ==
  ASSUME HubInv, NothingOverlaps, PutPresence
  PROVE  HubInv'
<1> USE DEF HubInv
<1>1. TypeOK'
  BY DEF PutPresence, TypeOK, Steps, Status, Announcers, NothingOverlaps, Alone, Registering
<1>2. Placed'
  BY DEF PutPresence, TypeOK, Placed, NothingOverlaps, Alone, Registering
<1>3. TakesTurns'
  BY DEF PutPresence, TypeOK, TakesTurns, Entering, NothingOverlaps, Alone, Registering
<1>4. PlacesKept'
  BY DEF PutPresence, PlacesKept
<1>5. ViewsFollow'
  BY DEF PutPresence, TypeOK, Placed, ViewsFollow, NobodyRefreshes, Entering, NothingOverlaps, Alone, Registering
<1>6. BeaconsAlone'
  <2>1. UNCHANGED <<pc, conns, by_user, beacon>> /\ put'.ids = by_user /\ put'.status # "offline"
    BY DEF PutPresence
  <2>2. conns \subseteq by_user
    BY DEF Placed, TypeOK
  <2> QED
    BY <2>1, <2>2 DEF BeaconsAlone, BeaconStandsAlone
<1> QED
  BY <1>1, <1>2, <1>3, <1>4, <1>5, <1>6

LEMMA WriteBeaconStep ==
  ASSUME HubInv, NothingOverlaps, WriteBeacon
  PROVE  HubInv'
<1> USE DEF HubInv
<1>1. TypeOK'
  <2>1. beacon' \in {"none", "online", "away", "stale"}
    <3>1. put.status \in {"online", "away"}
      BY DEF TypeOK, Status, BeaconsAlone
    <3> QED
      BY <3>1 DEF WriteBeacon
  <2>2. active' \subseteq Conns
    BY DEF WriteBeacon, TypeOK
  <2>3. put' \in [step : {"idle", "write", "announce"}, status : Status, ids : SUBSET Conns]
    BY DEF WriteBeacon, TypeOK
  <2> QED
    BY <2>1, <2>2, <2>3 DEF WriteBeacon, TypeOK
<1>2. Placed'
  BY DEF WriteBeacon, TypeOK, Placed
<1>3. TakesTurns'
  BY DEF WriteBeacon, TypeOK, TakesTurns, Entering
<1>4. PlacesKept'
  BY DEF WriteBeacon, PlacesKept
<1>5. ViewsFollow'
  BY DEF WriteBeacon, TypeOK, Placed, ViewsFollow, NobodyRefreshes, Entering
<1>6. BeaconsAlone'
  <2>1. UNCHANGED <<pc, conns>> /\ put.step = "write" /\ put'.step = "announce" /\ put'.status = put.status
    BY DEF WriteBeacon, TypeOK
  <2>2. beacon' # "none" => put.ids = {}
    BY DEF WriteBeacon
  <2>3. \A c \in Conns : pc[c] \notin Entering
    BY <2>1 DEF TakesTurns
  <2> QED
    BY <2>1, <2>2, <2>3 DEF BeaconsAlone, BeaconStandsAlone, Entering
<1> QED
  BY <1>1, <1>2, <1>3, <1>4, <1>5, <1>6

LEMMA HubStep ==
  ASSUME NothingOverlaps, HubInv, Next PROVE HubInv'
<1>1. ASSUME NEW c \in Conns, Load(c) \/ Admit(c) \/ ConnStep(c) \/ Remove(c) \/ KeepAlive(c) \/ FallIdle(c) \/ Declare(c)
      PROVE  HubInv'
  BY <1>1, LoadStep, AdmitStep, IndexRoomsStep, PushUserStep, InsertStep, RetainStep, DropEntryStep, RemoveStep,
     KeepAliveStays, FallIdleStays, DeclareStays DEF ConnStep
<1>2. ASSUME NEW f \in Refreshers, Change(f) \/ RefreshStep(f) PROVE HubInv'
  BY <1>2, ChangeStep, LoadViewStep, ReadIdsStep, SwapStep DEF RefreshStep
<1>3. ASSUME PutPresence \/ PutStep \/ BeaconAges \/ Sweep PROVE HubInv'
  BY <1>3, PutPresenceStep, WriteBeaconStep, PutAnnouncesStays, BeaconAgesStays, SweepStays DEF PutStep
<1>4. ASSUME NEW a \in Announcers, Announce(a) PROVE HubInv'
  BY <1>4, AnnounceStays
<1> QED
  BY <1>1, <1>2, <1>3, <1>4 DEF Next

LEMMA HubRests ==
  ASSUME HubInv, UNCHANGED vars PROVE HubInv'
<1>1. UNCHANGED <<truth, pc, view, asked, conns, by_user, by_room, active, beacon, announced, refresh, put, derived>>
  BY DEF vars
<1> QED
  BY <1>1, PresenceStep DEF HubInv, TypeOK, BeaconsAlone

\* As long as connecting, disconnecting, refreshing and beacons take turns, the registry
\* describes the open connections of a wallet, however many there are and whatever the caps:
\* the caps hold, every index lists them, their views are the database's once a refresh is
\* through, and no beacon stands beside them (Hub::register, unregister, set_user_view,
\* beacon).
THEOREM RegistryStaysExact ==
  ASSUME NothingOverlaps PROVE Spec => []RegistryExact
<1>1. HubInv => RegistryExact
  <2> SUFFICES ASSUME HubInv PROVE RegistryExact
    OBVIOUS
  <2> USE DEF HubInv
  <2>1. CapsHold
    <3>1. conns \subseteq by_user /\ by_user \subseteq Conns
      BY DEF Placed, TypeOK
    <3>2. /\ Cardinality(conns) <= Cardinality(by_user)
          /\ Cardinality(conns) \in Nat /\ Cardinality(by_user) \in Nat
      BY <3>1, Counting
    <3> QED
      BY <3>2, HubAssumption DEF CapsHold, PlacesKept
  <2>2. IndexesExact
    <3> SUFFICES ASSUME Settled PROVE /\ by_user = conns
                                      /\ \A r \in Rooms : by_room[r] = {c \in conns : r \in view[c]}
      BY DEF IndexesExact
    <3>1. \A c \in Conns : pc[c] \in {"new", "live", "gone"}
      BY DEF Settled
    <3>2. by_user = conns
      <4>1. \A c \in Conns : c \in by_user <=> c \in conns
        BY <3>1 DEF Placed
      <4>2. by_user \subseteq Conns /\ conns \subseteq Conns
        BY DEF TypeOK
      <4> QED
        BY <4>1, <4>2
    <3>3. ASSUME NEW r \in Rooms PROVE by_room[r] = {c \in conns : r \in view[c]}
      <4>1. \A c \in Conns : c \in by_room[r] <=> c \in conns /\ r \in view[c]
        BY <3>1 DEF Placed
      <4>2. by_room[r] \subseteq Conns /\ conns \subseteq Conns
        BY DEF TypeOK
      <4> QED
        BY <4>1, <4>2
    <3> QED
      BY <3>2, <3>3
  <2>3. ViewsFresh
    BY DEF ViewsFresh, Settled, ViewsFollow, NobodyRefreshes, Placed, TypeOK
  <2> QED
    BY <2>1, <2>2, <2>3 DEF RegistryExact, BeaconsAlone
<1> QED
  BY HubStarts, HubStep, HubRests, <1>1, PTL DEF Spec
-----------------------------------------------------------------------------
(***************************************************************************)
(* RoomSync.                                                                *)
(***************************************************************************)

\* What a message row can be, what the viewer may read, and what of it is shown.
Words == Renderable \cup {"delete"}
Seen(id) == Exists(id) /\ rows[id].by \notin Blocked
Shown(id) == IF Seen(id) /\ rows[id].kind \in Renderable THEN rows[id] ELSE None

\* A purge, or a word on a message, that a client at position n has still to be told.
Cleared(n) == \E id \in Ids : Seen(id) /\ rows[id].kind = "delete_all" /\ rows[id].serial > n
Owed(id, n) == Cleared(n) \/ (Seen(id) /\ rows[id].kind \in Words /\ rows[id].serial > n)

\* The reaction events of u on a message; the last one says whether the reaction stands.
EventsOf(id, u) == {e \in Ids : Seen(e) /\ rows[e].kind \in Events /\ rows[e].of = id /\ rows[e].by = u}
Reacts(id, u) ==
    \E e \in EventsOf(id, u) : /\ rows[e].kind = "emoticon_add"
                               /\ \A o \in EventsOf(id, u) : rows[o].serial <= rows[e].serial

\* A state of the room that shows what the server has, but for what a client at position n
\* has still to be told.
MessagesUpTo(st, n) == \A id \in Ids : Owed(id, n) \/ st.messages[id] = Shown(id)
ReactionsUpTo(st, n) ==
    Cleared(n) \/ \A id \in Ids, u \in Users : Shown(id) # None =>
        \/ \E e \in EventsOf(id, u) : rows[e].serial > n
        \/ u \in st.reactions[id] <=> Reacts(id, u)
UpTo(st, n) == MessagesUpTo(st, n) /\ ReactionsUpTo(st, n)

\* A marker is the oldest row there is; no request is about one, or about a reaction event;
\* an event is about a row that was there.
TableSound ==
    /\ \A m, id \in Ids : Exists(m) /\ rows[m].kind = "delete_all" /\ Exists(id) => rows[m].serial <= rows[id].serial
    /\ \A t \in Tasks : task[t].op \in {"edit", "remove", "publish"} /\ Exists(task[t].id) =>
         rows[task[t].id].kind \in Words
    /\ \A id \in Ids : Exists(id) => rows[id].id = id
    /\ \A id \in Ids : Exists(id) /\ rows[id].kind \in Events => rows[id].of \in 1..minted
    /\ \A t \in Tasks : task[t].op = "append" /\ task[t].kind \in Events => task[t].of \in 1..minted

\* A row the client was given is the table's still, or the table has a later word on it.
Current(r, d) ==
    \/ rows[r.id] = r
    \/ Cleared(d)
    \/ /\ r.kind \in Words /\ Seen(r.id) /\ rows[r.id].kind \in Words /\ rows[r.id].serial > d
       /\ r.kind = "delete" => rows[r.id].kind = "delete"

\* What a page that was read above n has of the table, up to d.
PageSound(page, n, d) ==
    /\ n \in Nat /\ d \in Nat /\ n <= d /\ d <= top_serial
    /\ \A r \in page : /\ r \in Rows /\ r.by \notin Blocked /\ n < r.serial /\ r.serial <= d /\ Current(r, d)
                       /\ r.kind \in Events => r.of \in 1..minted
    /\ \A r, q \in page : r.serial = q.serial => r = q
    /\ \A id \in Ids : Seen(id) /\ n < rows[id].serial /\ rows[id].serial <= d => rows[id] \in page

\* The states of a room: a message under its id, reactions to nothing that is not there yet.
RoomStates == [messages : [Ids -> Rows \cup {None}], reactions : [Ids -> SUBSET Users],
               cursor : Nat, more : BOOLEAN]
Room(st) ==
    /\ st \in RoomStates
    /\ \A id \in Ids : st.messages[id] # None => st.messages[id].id = id
    /\ \A id \in Ids : id > minted => st.reactions[id] = {}

ClientTyped ==
    /\ Room(room) /\ room.cursor \in 0..top_serial
    /\ saved \in 0..top_serial /\ handle \in 0..room.cursor /\ DOMAIN job = Jobs

\* How far a page on its way reaches; behind the last one there is nothing but what is newer
\* than anything the client knows.
Reach(page, n) == IF page = {} THEN n ELSE Max({e.serial : e \in page})
PageWaits(a, n) ==
    /\ PageSound(a.page, n, Reach(a.page, n)) /\ a.more \in BOOLEAN
    /\ a.page = {} => ~a.more
    /\ ~a.more => \A id \in Ids : Seen(id) =>
                    rows[id].serial <= Reach(a.page, n) \/ rows[id].serial > Larger(room.cursor, saved)

\* A page of history on its way.
PastWaits(page) ==
    \A r \in page : r \in Rows /\ r.by \notin Blocked /\ r.kind \in Renderable /\ Current(r, room.cursor)

\* One task at a time, and where it stands is how far the room is told.
JobsSound ==
    /\ \A j, k \in Jobs : ~Is(j, "idle") /\ ~Is(k, "idle") => j = k
    /\ \A j \in Jobs : Is(j, "sync") \/ Is(j, "page") => job[j].since \in 0..room.cursor /\ UpTo(room, job[j].since)
    /\ (\A j \in Jobs : ~Is(j, "sync") /\ ~Is(j, "page")) => UpTo(room, room.cursor)
    /\ \A j \in Jobs : Is(j, "page") => PageWaits(job[j].answer, job[j].since)
    /\ \A j \in Jobs : Is(j, "past") => PastWaits(job[j].answer)
    /\ \A j \in Jobs : Is(j, "history") \/ Is(j, "past") =>
         IF job[j].drain THEN job[j].since \in 0..room.cursor /\ ~disk.kept ELSE room # Fresh

\* The own send on its way back.
EchoSound ==
    echo # None =>
        /\ echo \in Rows /\ echo.by \notin Blocked /\ echo.kind = "add" /\ echo.serial <= top_serial
        /\ Current(echo, echo.serial)
        /\ \A id \in Ids : Exists(id) /\ rows[id].serial = echo.serial => rows[id] = echo

\* The cache is the room, or what an earlier visit left, told as far as the saved cursor.
Restored == from_cached(disk, saved)
DiskSound ==
    /\ disk.kept \in BOOLEAN
    /\ disk.kept => disk.rows \subseteq Rows /\ disk.more \in BOOLEAN /\ Room([Restored EXCEPT !.cursor = 0])
    /\ ~disk.kept => saved = 0 /\ room = Fresh
    /\ room # Fresh => saved = room.cursor /\ Restored.messages = room.messages /\ Restored.reactions = room.reactions
    /\ room = Fresh /\ disk.kept => UpTo(Restored, saved)

ClientSound == ClientTyped /\ JobsSound /\ EchoSound /\ DiskSound
SyncInv == MessagesInv /\ TableSound /\ (slips = {} => ClientSound)

\* Of a purge by somebody the viewer has blocked the viewer is never told.
BlocksAreHarmless == "purge" \in Ops => Admins \cap Blocked = {}
-----------------------------------------------------------------------------
\* What a write does: nothing, a row that is new, a row written again, or a purge.
Inserts ==
    \E r \in Rows : /\ minted < MaxIds /\ minted' = minted + 1 /\ r.id = minted + 1 /\ r.serial > top_serial
                    /\ r.kind \in {"add"} \cup Events /\ (r.kind \in Events => r.of \in 1..minted)
                    /\ rows' = [rows EXCEPT ![minted + 1] = r] /\ top_serial' = r.serial
Rewrites ==
    \E x \in Ids, r \in Rows :
        /\ Exists(x) /\ rows[x].kind \in Words /\ r.id = x /\ r.by = rows[x].by /\ r.kind \in Words
        /\ rows[x].kind = "delete" => r.kind = "delete"
        /\ r.serial > top_serial /\ minted' = minted /\ rows' = [rows EXCEPT ![x] = r] /\ top_serial' = r.serial
Clears ==
    \E r \in Rows : /\ r.kind = "delete_all" /\ r.by \in Admins /\ "purge" \in Ops
                    /\ minted < MaxIds /\ minted' = minted + 1 /\ r.id = minted + 1 /\ r.serial > top_serial
                    /\ rows' = [id \in Ids |-> IF id = minted + 1 THEN r ELSE None] /\ top_serial' = r.serial
Writes == Inserts \/ Rewrites \/ Clears \/ (UNCHANGED <<rows, minted>> /\ top_serial <= top_serial')

\* What becomes of a request: it stays, ends, or has begun about a message that is there.
RequestFits(k) ==
    \/ k = Idle
    \/ k.op = "append" /\ (k.kind \in Events => k.of \in 1..minted)
    \/ k.op \in {"edit", "remove", "publish"} /\ Names(k.id) /\ k.id \in Ids
Requests == \A t \in Tasks : task'[t] = task[t] \/ RequestFits(task'[t])

\* The requests of a step that ends one, or begins none.
LEMMA RequestEnds ==
  ASSUME TableTyped, NEW t \in Tasks, End(t) \/ UNCHANGED task
  PROVE  Requests
BY TasksEnd DEF Requests, RequestFits

\* A message of the channel is one new row.
LEMMA SendWrites ==
  ASSUME MessagesInv, TableSound, NEW u \in Users, Send(u)
  PROVE  Writes /\ Requests
<1>1. PICK sealed \in Sealings, now \in Clock :
        Write(now, [rows EXCEPT ![minted + 1] = Row(minted + 1, "add", Serial(now), now, u, sealed, 0)])
  BY DEF Send
<1> DEFINE r == Row(minted + 1, "add", Serial(now), now, u, sealed, 0)
<1>0. TableTyped /\ minted \in Nat /\ minted + 1 \in Ids /\ minted < MaxIds /\ minted' = minted + 1 /\ task' = task
  BY MessagesAssumption DEF MessagesInv, TableTyped, Send, Ids
<1>2. /\ Serial(now) \in 1..MaxSerial /\ Serial(now) > top_serial
      /\ top_serial' = Serial(now) /\ next_serial' = Serial(now) + 1 /\ rows' = [rows EXCEPT ![minted + 1] = r]
  BY <1>0, <1>1, SerialIssued
<1>3. r \in Rows /\ r.serial = Serial(now) /\ r.kind = "add" /\ r.id = minted + 1
  <2>1. sealed \in BOOLEAN /\ 0 \in 0..MaxIds /\ 0 \in 0..MaxSerial /\ Serial(now) \in 0..MaxSerial
    BY <1>2, MessagesAssumption
  <2> QED
    BY <1>0, <1>2, <2>1 DEF Row, Rows, Renderable
<1>4. r.kind \in {"add"} \cup Events /\ r.kind \notin Events
  BY <1>3 DEF Events
<1> HIDE DEF r
<1>5. Inserts
  BY <1>0, <1>2, <1>3, <1>4 DEF Inserts
<1> QED
  BY <1>0, <1>5 DEF Writes, Requests

\* A reply or a reaction event is one new row.
LEMMA CommitAppendWrites ==
  ASSUME MessagesInv, TableSound, NEW t \in Tasks, CommitAppend(t)
  PROVE  Writes /\ Requests
<1> DEFINE k == task[t]
<1>1. PICK now \in Clock :
        Write(now, [rows EXCEPT ![minted + 1] =
                      Row(minted + 1, k.kind, Serial(now), now, k.by, k.sealed, k.of)])
  BY DEF CommitAppend
<1> DEFINE r == Row(minted + 1, k.kind, Serial(now), now, k.by, k.sealed, k.of)
<1>0. TableTyped /\ minted \in Nat /\ minted + 1 \in Ids /\ minted < MaxIds /\ minted' = minted + 1 /\ End(t)
  BY MessagesAssumption DEF MessagesInv, TableTyped, CommitAppend, Ids
<1>2. /\ Serial(now) \in 1..MaxSerial /\ Serial(now) > top_serial
      /\ top_serial' = Serial(now) /\ next_serial' = Serial(now) + 1 /\ rows' = [rows EXCEPT ![minted + 1] = r]
  BY <1>0, <1>1, SerialIssued
<1>3. /\ k.op = "append" /\ k.kind \in {"add"} \cup Events /\ k.by \in Users /\ k.of \in 0..MaxIds
      /\ k.sealed \in BOOLEAN
  BY <1>0, TaskFields DEF CommitAppend, AppendTask
<1>4. r \in Rows /\ r.serial = Serial(now) /\ r.kind = k.kind /\ r.of = k.of /\ r.id = minted + 1
  <2>1. 0 \in 0..MaxSerial /\ Serial(now) \in 0..MaxSerial
    BY <1>2, MessagesAssumption
  <2>2. k.kind \in Renderable \cup Events \cup {"delete", "delete_all"}
    BY <1>3 DEF Renderable
  <2> HIDE DEF k
  <2> QED
    BY <1>0, <1>2, <1>3, <2>1, <2>2 DEF Row, Rows
<1>5. k.kind \in Events => k.of \in 1..minted
  BY <1>3 DEF TableSound
<1> HIDE DEF r, k
<1>6. Inserts
  BY <1>0, <1>2, <1>3, <1>4, <1>5 DEF Inserts
<1> QED
  BY <1>0, <1>6, RequestEnds DEF Writes

\* What a removal and an anchor leave of a row.
LEMMA RowKeeps ==
  ASSUME NEW r \in Rows, NEW s \in 1..MaxSerial
  PROVE  \A e \in {[r EXCEPT !.kind = "delete", !.serial = s, !.text = 0], [r EXCEPT !.anchor = s, !.serial = s]} :
            e \in Rows /\ e.id = r.id /\ e.by = r.by /\ e.serial = s
<1>1. s \in 0..MaxSerial /\ 0 \in 0..MaxSerial
  BY MessagesAssumption
<1>2. "delete" \in Renderable \cup Events \cup {"delete", "delete_all"}
  OBVIOUS
<1>3. ASSUME NEW e, e = [r EXCEPT !.kind = "delete", !.serial = s, !.text = 0]
      PROVE  e \in Rows /\ e.id = r.id /\ e.by = r.by /\ e.serial = s
  BY <1>1, <1>2, <1>3 DEF Rows
<1>4. ASSUME NEW e, e = [r EXCEPT !.anchor = s, !.serial = s]
      PROVE  e \in Rows /\ e.id = r.id /\ e.by = r.by /\ e.serial = s
  BY <1>1, <1>4 DEF Rows
<1> QED
  BY <1>3, <1>4

\* A row that is rewritten under a new serial keeps its id, its author and, deleted, its kind.
LEMMA RewriteIs ==
  ASSUME MessagesInv, TableSound, NEW x \in Ids, Exists(x), rows[x].kind \in Words, NEW r \in Rows,
         r.id = rows[x].id, r.by = rows[x].by, r.kind \in Words, rows[x].kind = "delete" => r.kind = "delete",
         r.serial > top_serial, minted' = minted, rows' = [rows EXCEPT ![x] = r], top_serial' = r.serial
  PROVE  Writes
BY DEF Writes, Rewrites, TableSound

\* A request that is about a row is about a message.
LEMMA RequestNames ==
  ASSUME MessagesInv, TableSound, NEW t \in Tasks, task[t].op \in {"edit", "remove", "publish"}
  PROVE  task[t].id \in Ids /\ (Exists(task[t].id) => rows[task[t].id] \in Rows /\ rows[task[t].id].kind \in Words)
<1>1. task[t].id \in Ids
  BY TaskFields DEF MessagesInv, EditTask, RowTask
<1>2. Exists(task[t].id) => rows[task[t].id] \in Rows
  BY <1>1 DEF MessagesInv, TableTyped, Exists
<1>3. Exists(task[t].id) => rows[task[t].id].kind \in Words
  BY DEF TableSound
<1> QED
  BY <1>1, <1>2, <1>3

\* An edit rewrites a live row or writes nothing.
LEMMA CommitEditWrites ==
  ASSUME MessagesInv, TableSound, NEW t \in Tasks, CommitEdit(t)
  PROVE  Writes /\ Requests
<1> DEFINE x == task[t].id
           sealed == task[t].sealed
<1>0. TableTyped /\ task[t].op = "edit" /\ x \in Ids /\ sealed \in BOOLEAN /\ End(t) /\ minted' = minted
      /\ top_serial \in Nat
  BY TaskFields, MessagesAssumption DEF MessagesInv, CommitEdit, EditTask, TableTyped
<1>r. Requests
  BY <1>0, RequestEnds
<1>1. CASE NoWrite
  BY <1>0, <1>1, <1>r DEF NoWrite, Writes
<1>2. CASE ~NoWrite
  <2>1. PICK now \in Clock : Write(now, Update(x, Serial(now), sealed))
    BY <1>2 DEF CommitEdit
  <2> DEFINE s == Serial(now)
  <2>2. s \in 1..MaxSerial /\ s > top_serial /\ top_serial' = s /\ rows' = Update(x, s, sealed)
    BY <1>0, <2>1, SerialIssued
  <2> HIDE DEF s
  <2>3. CASE ~get_message(x)
    <3>1. rows' = rows
      BY <1>0, <2>2, <2>3 DEF Update, TableTyped
    <3> QED
      BY <1>0, <1>r, <2>2, <3>1 DEF Writes
  <2>4. CASE get_message(x)
    <3> DEFINE r == [rows[x] EXCEPT !.kind = "edit", !.serial = s, !.text = s, !.sealed = sealed]
    <3>1. rows[x] \in Rows /\ Exists(x) /\ rows[x].kind # "delete" /\ rows[x].kind \in Words
      BY <1>0, <2>4, RequestNames DEF get_message
    <3>2. rows' = [rows EXCEPT ![x] = r]
      BY <2>2, <2>4 DEF Update
    <3>3. r \in Rows /\ r.id = rows[x].id /\ r.by = rows[x].by /\ r.serial = s
      <4>1. PICK y \in Rows : y = rows[x]
        BY <3>1
      <4>2. PICK b \in BOOLEAN : b = sealed
        BY <1>0
      <4>3. PICK k \in 1..MaxSerial : k = s
        BY <2>2
      <4>4. PICK e : e = [y EXCEPT !.kind = "edit", !.serial = k, !.text = k, !.sealed = b]
        OBVIOUS
      <4>5. e \in Rows /\ e.id = y.id /\ e.by = y.by /\ e.serial = k
        <5>1. k \in 0..MaxSerial /\ "edit" \in Renderable \cup Events \cup {"delete", "delete_all"}
          BY MessagesAssumption DEF Renderable
        <5> QED
          BY <4>4, <5>1 DEF Rows
      <4>6. r = e
        BY <4>1, <4>2, <4>3, <4>4
      <4> QED
        BY <4>1, <4>3, <4>5, <4>6
    <3>4. r.kind = "edit"
      BY <3>1 DEF Rows
    <3>5. r.kind \in Words
      BY <3>4 DEF Words, Renderable
    <3> HIDE DEF r
    <3>6. Writes
      BY <1>0, <2>2, <3>1, <3>2, <3>3, <3>5, RewriteIs
    <3> QED
      BY <1>r, <3>6
  <2> QED
    BY <2>3, <2>4
<1> QED
  BY <1>1, <1>2

\* A removal rewrites a live row or only spends a serial.
LEMMA CommitRemoveWrites ==
  ASSUME MessagesInv, TableSound, NEW t \in Tasks, CommitRemove(t)
  PROVE  Writes /\ Requests
<1> DEFINE x == task[t].id
<1>0. TableTyped /\ task[t].op = "remove" /\ x \in Ids /\ End(t) /\ minted' = minted /\ top_serial \in Nat
  BY TaskFields, MessagesAssumption DEF MessagesInv, CommitRemove, RowTask, TableTyped
<1>r. Requests
  BY <1>0, RequestEnds
<1>1. PICK now \in Clock : Write(now, SoftDelete(x, Serial(now)))
  BY DEF CommitRemove
<1> DEFINE s == Serial(now)
<1>2. s \in 1..MaxSerial /\ s > top_serial /\ top_serial' = s /\ rows' = SoftDelete(x, s)
  BY <1>0, <1>1, SerialIssued
<1> HIDE DEF s
<1>3. CASE ~get_message(x)
  <2>1. rows' = rows
    BY <1>0, <1>2, <1>3 DEF SoftDelete, TableTyped
  <2> QED
    BY <1>0, <1>r, <1>2, <2>1 DEF Writes
<1>4. CASE get_message(x)
  <2> DEFINE r == [rows[x] EXCEPT !.kind = "delete", !.serial = s, !.text = 0]
  <2>1. rows[x] \in Rows /\ Exists(x) /\ rows[x].kind \in Words
    BY <1>0, <1>4, RequestNames DEF get_message
  <2>2. rows' = [rows EXCEPT ![x] = r]
    BY <1>2, <1>4 DEF SoftDelete
  <2>3. r \in Rows /\ r.id = rows[x].id /\ r.by = rows[x].by /\ r.serial = s
    BY <1>0, <1>2, <2>1, RowKeeps
  <2>4. r.kind = "delete" /\ r.kind \in Words
    BY <2>1 DEF Rows, Words
  <2> HIDE DEF r
  <2>5. Writes
    BY <1>0, <1>2, <2>1, <2>2, <2>3, <2>4, RewriteIs
  <2> QED
    BY <1>r, <2>5
<1> QED
  BY <1>3, <1>4

\* An anchor rewrites the row, whatever it is by now.
LEMMA CommitPublishWrites ==
  ASSUME MessagesInv, TableSound, NEW t \in Tasks, CommitPublish(t)
  PROVE  Writes /\ Requests
<1> DEFINE x == task[t].id
<1>0. TableTyped /\ task[t].op = "publish" /\ x \in Ids /\ End(t) /\ minted' = minted /\ top_serial \in Nat
  BY TaskFields, MessagesAssumption DEF MessagesInv, CommitPublish, RowTask, TableTyped
<1>r. Requests
  BY <1>0, RequestEnds
<1>1. CASE ~Exists(x)
  BY <1>0, <1>1, <1>r DEF CommitPublish, NoWrite, Writes
<1>2. CASE Exists(x)
  <2>1. PICK now \in Clock : Write(now, Anchor(x, Serial(now)))
    BY <1>2 DEF CommitPublish
  <2> DEFINE s == Serial(now)
  <2>2. s \in 1..MaxSerial /\ s > top_serial /\ top_serial' = s /\ rows' = Anchor(x, s)
    BY <1>0, <2>1, SerialIssued
  <2> HIDE DEF s
  <2> DEFINE r == [rows[x] EXCEPT !.anchor = s, !.serial = s]
  <2>3. rows[x] \in Rows /\ rows[x].kind \in Words
    BY <1>0, <1>2, RequestNames
  <2>4. r \in Rows /\ r.id = rows[x].id /\ r.by = rows[x].by /\ r.serial = s
    BY <1>0, <2>2, <2>3, RowKeeps
  <2>5. r.kind = rows[x].kind
    BY <2>3 DEF Rows
  <2>6. rows' = [rows EXCEPT ![x] = r]
    BY <2>2 DEF Anchor
  <2> HIDE DEF r
  <2>7. Writes
    BY <1>0, <1>2, <2>2, <2>3, <2>4, <2>5, <2>6, RewriteIs
  <2> QED
    BY <1>r, <2>7
<1> QED
  BY <1>1, <1>2

\* A purge leaves its marker and nothing else.
LEMMA PurgeWrites ==
  ASSUME MessagesInv, TableSound, NEW u \in Users, Purge(u)
  PROVE  Writes /\ Requests
<1> DEFINE n == minted + 1
<1>1. PICK now \in Clock :
        Write(now, [id \in Ids |-> IF id = n THEN Row(id, "delete_all", Serial(now), now, u, FALSE, 0) ELSE None])
  BY DEF Purge
<1> DEFINE s == Serial(now)
           r == Row(n, "delete_all", s, now, u, FALSE, 0)
<1>0. /\ TableTyped /\ minted \in Nat /\ n \in Ids /\ minted < MaxIds /\ minted' = n /\ task' = task
      /\ u \in Admins /\ "purge" \in Ops
  BY MessagesAssumption DEF MessagesInv, TableTyped, Purge, Ids
<1>2. /\ s \in 1..MaxSerial /\ s > top_serial /\ top_serial' = s
      /\ rows' = [id \in Ids |-> IF id = n THEN Row(id, "delete_all", s, now, u, FALSE, 0) ELSE None]
  BY <1>0, <1>1, SerialIssued
<1>3. r \in Rows /\ r.serial = s /\ r.kind = "delete_all" /\ r.id = n /\ r.by = u
  <2>1. FALSE \in BOOLEAN /\ 0 \in 0..MaxIds /\ 0 \in 0..MaxSerial
    BY MessagesAssumption
  <2> QED
    BY <1>0, <1>2, <2>1 DEF Row, Rows
<1>4. rows' = [id \in Ids |-> IF id = n THEN r ELSE None]
  BY <1>2
<1> HIDE DEF r
<1>5. Clears
  BY <1>0, <1>2, <1>3, <1>4 DEF Clears
<1> QED
  BY <1>0, <1>5 DEF Writes, Requests

\* A request that reads writes nothing; what it names is a row it may write.
LEMMA BeginWrites ==
  ASSUME MessagesInv, TableSound, NEW t \in Tasks,
         BeginReply(t) \/ BeginEmoticon(t) \/ BeginEdit(t) \/ BeginRemove(t) \/ BeginPublish(t)
  PROVE  Writes /\ Requests
<1>0. /\ task \in [Tasks -> AppendTask \cup EditTask \cup RowTask \cup {Idle}]
      /\ minted \in Nat /\ top_serial \in Nat
  BY MessagesAssumption DEF MessagesInv, TableTyped
<1>a. ASSUME NEW k, RequestFits(k), Begin(t, k) PROVE Writes /\ Requests
  <2>1. \A v \in Tasks : task'[v] = task[v] \/ task'[v] = k
    BY <1>0, <1>a DEF Begin
  <2>2. Requests
    BY <1>a, <2>1 DEF Requests
  <2> QED
    BY <1>0, <1>a, <2>2 DEF Begin, Writes
<1>1. CASE BeginReply(t)
  <2>1. PICK id \in Ids, u \in Users, sealed \in Sealings :
          Names(id) /\ Begin(t, [op |-> "append", kind |-> "add", by |-> u, of |-> thread_root(id), sealed |-> sealed])
    BY <1>1 DEF BeginReply
  <2> DEFINE k == [op |-> "append", kind |-> "add", by |-> u, of |-> thread_root(id), sealed |-> sealed]
  <2>2. k.op = "append" /\ k.kind \notin Events
    BY DEF Events
  <2> HIDE DEF k
  <2>3. RequestFits(k)
    BY <2>2 DEF RequestFits
  <2> QED
    BY <1>a, <2>1, <2>3 DEF k
<1>2. CASE BeginEmoticon(t)
  <2>1. PICK id \in Ids, u \in Users, kind \in Events :
          Names(id) /\ Begin(t, [op |-> "append", kind |-> kind, by |-> u, of |-> id, sealed |-> FALSE])
    BY <1>2 DEF BeginEmoticon
  <2> DEFINE k == [op |-> "append", kind |-> kind, by |-> u, of |-> id, sealed |-> FALSE]
  <2>2. id \in 1..minted
    <3>1. Exists(id)
      BY <2>1 DEF Names, get_message
    <3> QED
      BY <1>0, <3>1, MessagesAssumption DEF MessagesInv, SerialsSound, Exists, Ids
  <2>3. k.op = "append" /\ k.of = id
    OBVIOUS
  <2> HIDE DEF k
  <2>4. RequestFits(k)
    BY <2>2, <2>3 DEF RequestFits
  <2> QED
    BY <1>a, <2>1, <2>4 DEF k
<1>3. CASE BeginEdit(t)
  <2>1. PICK id \in Ids, sealed \in Sealings :
          Names(id) /\ Begin(t, [op |-> "edit", id |-> id, sealed |-> sealed, read |-> rows[id].serial])
    BY <1>3 DEF BeginEdit
  <2> DEFINE k == [op |-> "edit", id |-> id, sealed |-> sealed, read |-> rows[id].serial]
  <2>2. k.op = "edit" /\ k.id = id
    OBVIOUS
  <2> HIDE DEF k
  <2>3. RequestFits(k)
    BY <2>1, <2>2 DEF RequestFits
  <2> QED
    BY <1>a, <2>1, <2>3 DEF k
<1>4. ASSUME NEW op \in {"remove", "publish"}, NEW id \in Ids, Names(id), Begin(t, [op |-> op, id |-> id])
      PROVE  Writes /\ Requests
  <2> DEFINE k == [op |-> op, id |-> id]
  <2>1. k.op \in {"remove", "publish"} /\ k.id = id
    OBVIOUS
  <2> HIDE DEF k
  <2>2. RequestFits(k)
    BY <1>4, <2>1 DEF RequestFits
  <2> QED
    BY <1>4, <1>a, <2>2 DEF k
<1>5. CASE BeginRemove(t)
  BY <1>4, <1>5 DEF BeginRemove
<1>6. CASE BeginPublish(t)
  BY <1>4, <1>6 DEF BeginPublish
<1> QED
  BY <1>1, <1>2, <1>3, <1>5, <1>6

\* Every step of the server is one of these writes.
LEMMA ServerWrites ==
  ASSUME MessagesInv, TableSound, ServerStep
  PROVE  Writes /\ Requests
BY SendWrites, PurgeWrites, CommitAppendWrites, CommitEditWrites, CommitRemoveWrites, CommitPublishWrites, BeginWrites
DEF ServerStep

-----------------------------------------------------------------------------
\* What a write leaves of a row: it is as it was, or new, or written again, or gone with
\* a marker to tell of it; whatever is not as it was is newer than all there was.
Cleansed == \E m \in Ids : /\ rows'[m] # None /\ rows'[m].by \notin Blocked /\ rows'[m].kind = "delete_all"
                           /\ rows'[m].serial > top_serial
Same(id) == rows'[id] = rows[id]
New(id) ==
    /\ rows[id] = None /\ id > minted /\ rows'[id] \in Rows /\ rows'[id].serial > top_serial
    /\ rows'[id].kind \in Renderable \cup Events \cup {"delete_all"}
Rewrote(id) ==
    /\ rows[id] \in Rows /\ rows'[id] \in Rows /\ rows[id].kind \in Words /\ rows'[id].kind \in Words
    /\ rows'[id].by = rows[id].by /\ rows'[id].serial > top_serial
    /\ rows[id].kind = "delete" => rows'[id].kind = "delete"
Gone(id) == rows'[id] = None /\ Cleansed
Moved == /\ minted \in Nat /\ minted' \in Nat /\ minted <= minted'
         /\ top_serial \in Nat /\ top_serial' \in Nat /\ top_serial <= top_serial'
         /\ \A id \in Ids : Same(id) \/ New(id) \/ Rewrote(id) \/ Gone(id)

\* The kinds of rows exclude each other.
LEMMA Kinds ==
  /\ \A k \in Words : k \notin Events /\ k # "delete_all"
  /\ \A k \in Renderable : k \in Words /\ k # "delete" /\ k \notin Events /\ k # "delete_all"
  /\ \A k \in Events : k # "delete_all" /\ k # "delete" /\ k \notin Renderable
  /\ "add" \in Renderable /\ "delete" \in Words /\ "delete_all" \notin Words /\ "delete_all" \notin Events
BY DEF Words, Renderable, Events

\* Each row stays, comes, is rewritten or is gone, the last only with a marker the viewer can read.
LEMMA WritesMove ==
  ASSUME MessagesInv, MessagesInv', TableSound, Writes, BlocksAreHarmless
  PROVE  Moved
<1>0. /\ rows \in [Ids -> Rows \cup {None}] /\ rows' \in [Ids -> Rows \cup {None}]
      /\ minted \in Nat /\ minted' \in Nat /\ top_serial \in Nat /\ top_serial' \in Nat
      /\ \A id \in Ids : id > minted => rows[id] = None
  BY MessagesAssumption DEF MessagesInv, TableTyped, SerialsSound
<1>1. CASE Inserts
  <2>1. PICK r \in Rows : /\ minted < MaxIds /\ minted' = minted + 1 /\ r.serial > top_serial
                          /\ r.kind \in {"add"} \cup Events
                          /\ rows' = [rows EXCEPT ![minted + 1] = r] /\ top_serial' = r.serial
    BY <1>1 DEF Inserts
  <2>2. minted + 1 \in Ids /\ rows[minted + 1] = None /\ rows'[minted + 1] = r /\ minted + 1 > minted
    BY <1>0, <2>1, MessagesAssumption DEF Ids
  <2>3. New(minted + 1)
    BY <2>1, <2>2, Kinds DEF New
  <2>4. \A id \in Ids : id # minted + 1 => Same(id)
    BY <1>0, <2>1 DEF Same
  <2>5. minted <= minted' /\ top_serial <= top_serial'
    BY <1>0, <2>1
  <2> QED
    BY <1>0, <2>3, <2>4, <2>5 DEF Moved
<1>2. CASE Rewrites
  <2>1. PICK x \in Ids, r \in Rows :
          /\ Exists(x) /\ rows[x].kind \in Words /\ r.id = x /\ r.by = rows[x].by /\ r.kind \in Words
          /\ rows[x].kind = "delete" => r.kind = "delete"
          /\ r.serial > top_serial /\ minted' = minted /\ rows' = [rows EXCEPT ![x] = r] /\ top_serial' = r.serial
    BY <1>2 DEF Rewrites
  <2>2. Rewrote(x)
    BY <1>0, <2>1 DEF Rewrote, Exists
  <2>3. \A id \in Ids : id # x => Same(id)
    BY <1>0, <2>1 DEF Same
  <2>4. minted <= minted' /\ top_serial <= top_serial'
    BY <1>0, <2>1
  <2> QED
    BY <1>0, <2>2, <2>3, <2>4 DEF Moved
<1>3. CASE Clears
  <2>1. PICK r \in Rows : /\ r.kind = "delete_all" /\ r.by \in Admins /\ "purge" \in Ops
                          /\ minted < MaxIds /\ minted' = minted + 1 /\ r.serial > top_serial
                          /\ rows' = [id \in Ids |-> IF id = minted + 1 THEN r ELSE None]
                          /\ top_serial' = r.serial
    BY <1>3 DEF Clears
  <2>2. minted + 1 \in Ids /\ rows[minted + 1] = None /\ rows'[minted + 1] = r /\ minted + 1 > minted /\ r # None
    BY <1>0, <2>1, MessagesAssumption, RowFields DEF Ids
  <2>3. New(minted + 1)
    BY <2>1, <2>2 DEF New
  <2>4. r.by \notin Blocked
    BY <2>1 DEF BlocksAreHarmless
  <2>5. Cleansed
    BY <2>1, <2>2, <2>4 DEF Cleansed
  <2>6. \A id \in Ids : id # minted + 1 => Gone(id)
    BY <2>1, <2>5 DEF Gone
  <2>7. minted <= minted' /\ top_serial <= top_serial'
    BY <1>0, <2>1
  <2> QED
    BY <1>0, <2>3, <2>6, <2>7 DEF Moved
<1>4. CASE UNCHANGED <<rows, minted>> /\ top_serial <= top_serial'
  <2>1. minted <= minted' /\ \A id \in Ids : Same(id)
    BY <1>0, <1>4 DEF Same
  <2> QED
    BY <1>0, <1>4, <2>1 DEF Moved
<1> QED
  BY <1>1, <1>2, <1>3, <1>4 DEF Writes

\* The table stays what it is.
LEMMA MarkersStay ==
  ASSUME MessagesInv, MessagesInv', TableSound, Writes
  PROVE  \A m, id \in Ids : Exists(m)' /\ rows'[m].kind = "delete_all" /\ Exists(id)' =>
            rows'[m].serial <= rows'[id].serial
<1>0. /\ rows \in [Ids -> Rows \cup {None}] /\ rows' \in [Ids -> Rows \cup {None}]
      /\ minted \in Nat /\ top_serial \in Nat
      /\ \A id \in Ids : Exists(id) => rows[id].serial <= top_serial
  BY MessagesAssumption DEF MessagesInv, TableTyped, SerialsSound
<1>s. \A r \in Rows : r.serial \in Nat
  BY MessagesAssumption, RowFields
<1>1. CASE Inserts \/ Rewrites
  <2>1. PICK x \in Ids, r \in Rows : /\ rows' = [rows EXCEPT ![x] = r] /\ r.serial > top_serial /\ r.kind # "delete_all"
    <3>1. CASE Inserts
      <4>1. minted < MaxIds => minted + 1 \in Ids
        BY <1>0, MessagesAssumption DEF Ids
      <4> QED
        BY <3>1, <4>1, Kinds DEF Inserts, Renderable
    <3>2. CASE Rewrites
      BY <3>2, Kinds DEF Rewrites
    <3> QED
      BY <1>1, <3>1, <3>2
  <2> SUFFICES ASSUME NEW m \in Ids, NEW id \in Ids, rows'[m] # None, rows'[m].kind = "delete_all", rows'[id] # None
               PROVE  rows'[m].serial <= rows'[id].serial
    BY DEF Exists
  <2>2. m # x /\ rows[m] = rows'[m] /\ rows[m].serial \in Nat /\ rows[m].serial <= top_serial
    BY <1>0, <1>s, <2>1 DEF Exists
  <2>3. CASE id = x
    BY <1>0, <1>s, <2>1, <2>2, <2>3
  <2>4. CASE id # x
    BY <1>0, <2>1, <2>2, <2>4 DEF TableSound, Exists
  <2> QED
    BY <2>3, <2>4
<1>2. CASE Clears
  <2>1. PICK r \in Rows : rows' = [id \in Ids |-> IF id = minted + 1 THEN r ELSE None]
    BY <1>2 DEF Clears
  <2>2. r.serial <= r.serial
    BY <1>s
  <2> QED
    BY <2>1, <2>2 DEF Exists
<1>3. CASE UNCHANGED rows
  BY <1>3 DEF TableSound, Exists
<1> QED
  BY <1>1, <1>2, <1>3 DEF Writes

\* The table stays sound under every write.
LEMMA TableStays ==
  ASSUME MessagesInv, MessagesInv', TableSound, Writes, Requests, BlocksAreHarmless
  PROVE  TableSound'
<1>0. /\ rows \in [Ids -> Rows \cup {None}] /\ rows' \in [Ids -> Rows \cup {None}]
      /\ minted \in Nat /\ minted' \in Nat /\ minted <= minted'
  BY MessagesAssumption, WritesMove DEF MessagesInv, TableTyped, Moved
<1>1. \A id \in Ids : rows'[id] # None => rows'[id].id = id
  <2>1. \A id \in Ids : rows[id] # None => rows[id].id = id
    BY DEF TableSound, Exists
  <2> QED
    BY <1>0, <2>1 DEF Writes, Inserts, Rewrites, Clears
<1>2. \A id \in Ids : rows'[id] # None /\ rows'[id].kind \in Events => rows'[id].of \in 1..minted'
  <2>1. \A id \in Ids : rows[id] # None /\ rows[id].kind \in Events => rows[id].of \in 1..minted
    BY DEF TableSound, Exists
  <2>2. \A x \in 1..minted : x \in 1..minted'
    BY <1>0
  <2>3. CASE Inserts
    BY <1>0, <2>1, <2>2, <2>3 DEF Inserts
  <2>4. CASE Rewrites
    BY <1>0, <2>1, <2>2, <2>4, Kinds DEF Rewrites
  <2>5. CASE Clears
    BY <1>0, <2>5, Kinds DEF Clears
  <2>6. CASE UNCHANGED <<rows, minted>>
    BY <2>1, <2>6
  <2> QED
    BY <2>3, <2>4, <2>5, <2>6 DEF Writes
<1>3. ASSUME NEW t \in Tasks, task'[t].op \in {"edit", "remove", "publish"}, rows'[task'[t].id] # None
      PROVE  rows'[task'[t].id].kind \in Words
  <2> DEFINE x == task'[t].id
  <2>1. x \in Ids
    <3>1. task'[t] \in AppendTask \cup EditTask \cup RowTask \cup {Idle}
      BY DEF MessagesInv, TableTyped
    <3>2. task'[t] \notin AppendTask /\ task'[t] # Idle
      BY <1>3 DEF AppendTask, Idle
    <3> QED
      BY <3>1, <3>2 DEF EditTask, RowTask
  <2>2. rows[x] # None => rows[x].kind \in Words
    <3>1. CASE task'[t] = task[t]
      BY <1>3, <3>1 DEF TableSound, Exists
    <3>2. CASE RequestFits(task'[t])
      BY <1>3, <3>2 DEF RequestFits, Names, Words, Idle
    <3> QED
      BY <3>1, <3>2 DEF Requests
  <2>3. rows[x] # None \/ x <= minted
    <3>1. CASE task'[t] = task[t]
      BY <1>3, <3>1 DEF MessagesInv, ThreadsSound
    <3>2. CASE RequestFits(task'[t])
      BY <1>3, <3>2 DEF RequestFits, Names, get_message, Exists, Idle
    <3> QED
      BY <3>1, <3>2 DEF Requests
  <2>4. Same(x) \/ New(x) \/ Rewrote(x) \/ Gone(x)
    BY <2>1, WritesMove DEF Moved
  <2>5. x \in Nat
    BY <2>1, MessagesAssumption DEF Ids
  <2> HIDE DEF x
  <2> QED
    BY <1>0, <1>3, <2>1, <2>2, <2>3, <2>4, <2>5 DEF x, Same, New, Rewrote, Gone
<1>4. ASSUME NEW t \in Tasks, task'[t].op = "append", task'[t].kind \in Events PROVE task'[t].of \in 1..minted'
  <2>1. task'[t].of \in 1..minted
    <3>1. CASE task'[t] = task[t]
      BY <1>4, <3>1 DEF TableSound
    <3>2. CASE RequestFits(task'[t])
      BY <1>4, <3>2 DEF RequestFits, Idle
    <3> QED
      BY <3>1, <3>2 DEF Requests
  <2> QED
    BY <1>0, <2>1
<1> QED
  BY <1>1, <1>2, <1>3, <1>4, MarkersStay DEF TableSound, Exists

-----------------------------------------------------------------------------
\* What a client has still to be told it has still to be told after the next write, and
\* of that write too.
Grows == MessagesInv /\ MessagesInv' /\ TableSound /\ TableSound' /\ Moved

\* The table and its counters before and after a step.
LEMMA TablesTyped ==
  ASSUME Grows
  PROVE  /\ rows \in [Ids -> Rows \cup {None}] /\ rows' \in [Ids -> Rows \cup {None}]
         /\ minted \in Nat /\ minted' \in Nat /\ minted <= minted'
         /\ top_serial \in Nat /\ top_serial' \in Nat /\ top_serial <= top_serial'
         /\ \A r \in Rows : r.serial \in Nat /\ r # None /\ r.id \in Ids
         /\ \A id \in Ids : rows'[id] # None => rows'[id].serial <= top_serial'
         /\ \A id \in Ids : rows[id] # None => rows[id].serial <= top_serial
         /\ \A id \in Ids : id \in Nat
<1>1. \A r \in Rows : r.serial \in Nat /\ r # None /\ r.id \in Ids
  BY RowFields, MessagesAssumption DEF Rows
<1>2. \A id \in Ids : id \in Nat
  BY MessagesAssumption DEF Ids
<1> QED
  BY <1>1, <1>2 DEF Grows, Moved, MessagesInv, TableTyped, SerialsSound, Exists

\* A purge that is still to be told stays so.
LEMMA ClearedStays ==
  ASSUME Grows, NEW n \in Nat, n <= top_serial
  PROVE  (Cleared(n) \/ Cleansed) => Cleared(n)'
<1>0. Moved
  BY DEF Grows
<1>1. Cleansed => Cleared(n)'
  <2> SUFFICES ASSUME Cleansed PROVE Cleared(n)'
    OBVIOUS
  <2>1. PICK m \in Ids : /\ rows'[m] # None /\ rows'[m].by \notin Blocked /\ rows'[m].kind = "delete_all"
                         /\ rows'[m].serial > top_serial
    BY DEF Cleansed
  <2>2. rows'[m].serial \in Nat /\ top_serial \in Nat
    BY <2>1, TablesTyped
  <2>3. rows'[m].serial > n
    BY <2>1, <2>2
  <2> QED
    BY <2>1, <2>3 DEF Cleared, Seen, Exists
<1>2. Cleared(n) => Cleared(n)'
  <2> SUFFICES ASSUME Cleared(n) PROVE Cleared(n)'
    OBVIOUS
  <2>1. PICK m \in Ids : Seen(m) /\ rows[m].kind = "delete_all" /\ rows[m].serial > n
    BY DEF Cleared
  <2>2. CASE Same(m)
    BY <2>1, <2>2 DEF Cleared, Seen, Exists, Same
  <2>3. CASE ~Same(m)
    BY <1>0, <1>1, <2>1, <2>3, Kinds DEF Moved, New, Rewrote, Gone, Seen, Exists
  <2> QED
    BY <2>2, <2>3
<1> QED
  BY <1>1, <1>2

\* A row that is not as it was is newer than n.
LEMMA ChangedIsNewer ==
  ASSUME Grows, NEW n \in Nat, n <= top_serial, NEW id \in Ids, rows'[id] # rows[id], rows'[id] # None
  PROVE  rows'[id].serial > n /\ rows'[id].serial > top_serial
<1>1. rows'[id].serial > top_serial
  BY DEF Grows, Moved, Same, New, Rewrote, Gone
<1> QED
  BY <1>1, TablesTyped

\* A word on a message that is still to be told stays so, or a purge takes its place.
LEMMA OwedStays ==
  ASSUME Grows, NEW n \in Nat, n <= top_serial, NEW id \in Ids, Owed(id, n)
  PROVE  Owed(id, n)'
<1>0. Moved
  BY DEF Grows
<1>1. CASE Cleared(n)
  BY <1>1, ClearedStays DEF Owed
<1>2. CASE Seen(id) /\ rows[id].kind \in Words /\ rows[id].serial > n
  <2>1. CASE Same(id)
    BY <1>2, <2>1 DEF Owed, Seen, Exists, Same
  <2>2. CASE Rewrote(id)
    <3>1. rows'[id] # None /\ (rows'[id] # rows[id] => rows'[id].serial > n)
      BY <2>2, ChangedIsNewer, TablesTyped DEF Rewrote
    <3>2. rows'[id].serial > n
      BY <1>2, <3>1
    <3> QED
      BY <1>2, <2>2, <3>1, <3>2 DEF Owed, Seen, Exists, Rewrote
  <2>3. CASE New(id)
    BY <1>2, <2>3 DEF New, Seen, Exists
  <2>4. CASE Gone(id)
    BY <2>4, ClearedStays DEF Gone, Owed
  <2> QED
    BY <1>0, <2>1, <2>2, <2>3, <2>4 DEF Moved
<1> QED
  BY <1>1, <1>2 DEF Owed

\* Messages that are told up to n stay told up to n: what changes is above n.
LEMMA MessagesStay ==
  ASSUME Grows, NEW n \in Nat, n <= top_serial, NEW st, MessagesUpTo(st, n)
  PROVE  MessagesUpTo(st, n)'
<1> SUFFICES ASSUME NEW id \in Ids, ~Owed(id, n)' PROVE st.messages[id] = Shown(id)'
  BY DEF MessagesUpTo
<1>0. Moved
  BY DEF Grows
<1>1. ~Owed(id, n) /\ ~Cleared(n)'
  BY OwedStays DEF Owed
<1>2. st.messages[id] = Shown(id)
  BY <1>1 DEF MessagesUpTo
<1>3. CASE Same(id)
  BY <1>2, <1>3 DEF Shown, Seen, Exists, Same
<1>4. CASE New(id) \/ Rewrote(id)
  <2>1. rows'[id] # None /\ (rows'[id] # rows[id] => rows'[id].serial > n)
    BY <1>4, ChangedIsNewer, TablesTyped DEF New, Rewrote
  <2>2. CASE rows'[id] # rows[id]
    <3>1. rows'[id].serial > n
      BY <2>1, <2>2
    <3>2. rows'[id].kind \notin Words \/ rows'[id].by \in Blocked
      BY <1>1, <2>1, <3>1 DEF Owed, Seen, Exists
    <3>3. Shown(id)' = None
      BY <3>2, Kinds DEF Shown, Seen
    <3>4. Shown(id) = None
      BY <1>4, <3>2 DEF New, Rewrote, Shown, Seen, Exists
    <3> QED
      BY <1>2, <3>3, <3>4
  <2>3. CASE rows'[id] = rows[id]
    BY <1>2, <2>3 DEF Shown, Seen, Exists
  <2> QED
    BY <2>2, <2>3
<1>5. CASE Gone(id)
  BY <1>1, <1>5, ClearedStays DEF Gone
<1> QED
  BY <1>0, <1>3, <1>4, <1>5 DEF Moved

\* A state of the room stays one while the table grows.
LEMMA RoomStays ==
  ASSUME Grows, NEW st, Room(st)
  PROVE  Room(st)'
BY TablesTyped DEF Room

ReactsToNothingElse(st) == \A id \in Ids : id > minted => st.reactions[id] = {}

\* Reactions that are told up to n stay told up to n.
LEMMA ReactionsStay ==
  ASSUME Grows, NEW n \in Nat, n <= top_serial, NEW st, ReactsToNothingElse(st), ReactionsUpTo(st, n)
  PROVE  ReactionsUpTo(st, n)'
<1> SUFFICES ASSUME ~Cleared(n)', NEW id \in Ids, NEW u \in Users, Shown(id)' # None,
                    ~\E e \in EventsOf(id, u)' : rows'[e].serial > n
             PROVE  u \in st.reactions[id] <=> Reacts(id, u)'
  BY DEF ReactionsUpTo
<1>0. Moved /\ TableSound
  BY DEF Grows
<1>1. ~Cleared(n) /\ ~Cleansed
  BY ClearedStays
<1>2. \A e \in Ids : Same(e) \/ New(e) \/ Rewrote(e)
  BY <1>0, <1>1 DEF Moved, Gone
<1>3. ASSUME NEW e \in Ids, e \in EventsOf(id, u)' PROVE Same(e)
  <2>1. rows'[e] # None /\ (rows'[e] = rows[e] \/ rows'[e].serial > n)
    BY <1>3, ChangedIsNewer DEF EventsOf, Seen, Exists
  <2> QED
    BY <1>3, <2>1 DEF Same
<1>4. ASSUME NEW e \in Ids, e \in EventsOf(id, u) PROVE Same(e)
  BY <1>2, <1>4, Kinds DEF EventsOf, Seen, Exists, New, Rewrote
<1>5. EventsOf(id, u)' = EventsOf(id, u)
  <2>1. \A e \in Ids : e \in EventsOf(id, u)' <=> e \in EventsOf(id, u)
    BY <1>3, <1>4 DEF EventsOf, Seen, Exists, Same
  <2>2. EventsOf(id, u) \subseteq Ids /\ EventsOf(id, u)' \subseteq Ids
    BY DEF EventsOf
  <2> QED
    BY <2>1, <2>2
<1>6. \A e \in EventsOf(id, u) : rows'[e] = rows[e]
  BY <1>4 DEF EventsOf, Same
<1>7. Reacts(id, u)' <=> Reacts(id, u)
  BY <1>5, <1>6, Zenon DEF Reacts
<1>8. CASE Shown(id) # None
  <2>1. ~\E e \in EventsOf(id, u) : rows[e].serial > n
    BY <1>5, <1>6
  <2> QED
    BY <1>1, <1>7, <1>8, <2>1 DEF ReactionsUpTo
<1>9. CASE Shown(id) = None
  <2>1. New(id)
    <3>1. ~Same(id)
      BY <1>9 DEF Same, Shown, Seen, Exists
    <3>2. ~Rewrote(id)
      <4> SUFFICES ASSUME Rewrote(id) PROVE FALSE
        OBVIOUS
      <4>1. rows[id] # None /\ rows'[id] # None
        BY TablesTyped DEF Rewrote
      <4>2. Seen(id)' /\ rows'[id].kind \in Renderable
        BY DEF Shown
      <4>3. Seen(id)
        BY <4>1, <4>2 DEF Seen, Exists, Rewrote
      <4>4. rows[id].kind = "delete"
        BY <1>9, <4>1, <4>3 DEF Shown, Rewrote, Words
      <4> QED
        BY <4>2, <4>4, Kinds DEF Rewrote
    <3> QED
      BY <1>2, <3>1, <3>2
  <2>2. st.reactions[id] = {} /\ id > minted
    BY <2>1 DEF New, ReactsToNothingElse
  <2>3. EventsOf(id, u) = {}
    BY <1>0, <2>2, TablesTyped DEF EventsOf, TableSound, Seen
  <2> QED
    BY <1>7, <2>2, <2>3 DEF Reacts
<1> QED
  BY <1>8, <1>9

\* What is told up to n stays told up to n.
LEMMA UpToStays ==
  ASSUME Grows, NEW n \in Nat, n <= top_serial, NEW st, ReactsToNothingElse(st), UpTo(st, n)
  PROVE  UpTo(st, n)'
BY MessagesStay, ReactionsStay DEF UpTo

\* A row the client was given stays the table's, or a later word on it stands.
LEMMA CurrentStays ==
  ASSUME Grows, NEW d \in Nat, d <= top_serial, NEW r \in Rows, r.by \notin Blocked, Current(r, d)
  PROVE  Current(r, d)'
<1>0. Moved /\ r.id \in Ids /\ r # None
  BY TablesTyped DEF Grows
<1>1. CASE Cleared(d)
  BY <1>1, ClearedStays DEF Current
<1>2. CASE Gone(r.id)
  BY <1>2, ClearedStays DEF Current, Gone
<1>3. CASE Same(r.id) /\ ~Cleared(d)
  BY <1>3 DEF Same, Current, Seen, Exists
<1>4. CASE New(r.id) /\ ~Cleared(d)
  BY <1>0, <1>4 DEF New, Current, Seen, Exists
<1>5. CASE Rewrote(r.id) /\ rows'[r.id] # rows[r.id] /\ ~Cleared(d)
  <2>1. rows'[r.id] # None
    BY <1>5, TablesTyped DEF Rewrote
  <2>2. rows'[r.id].serial > d
    BY <1>0, <1>5, <2>1, ChangedIsNewer
  <2> QED
    BY <1>5, <2>1, <2>2 DEF Rewrote, Current, Seen, Exists
<1>6. CASE rows'[r.id] = rows[r.id] /\ ~Cleared(d)
  BY <1>3, <1>6 DEF Same
<1> QED
  BY <1>0, <1>1, <1>2, <1>3, <1>4, <1>5, <1>6 DEF Moved

\* A page on its way does not go stale: what it lacks is above it.
LEMMA PageSoundStays ==
  ASSUME Grows, NEW page, NEW n, NEW d, PageSound(page, n, d)
  PROVE  PageSound(page, n, d)'
<1>0. n \in Nat /\ d \in Nat /\ d <= top_serial /\ d <= top_serial'
  BY TablesTyped DEF PageSound
<1>1. \A r \in page : Current(r, d)'
  BY <1>0, CurrentStays DEF PageSound
<1>2. \A x \in 1..minted : x \in 1..minted'
  BY TablesTyped
<1>3. ASSUME NEW id \in Ids, Seen(id)', n < rows'[id].serial, rows'[id].serial <= d PROVE rows'[id] \in page
  <2>1. rows'[id] # None /\ rows'[id].serial \in Nat
    BY <1>3, TablesTyped DEF Seen, Exists
  <2>2. rows'[id] = rows[id]
    BY <1>0, <1>3, <2>1, ChangedIsNewer
  <2> QED
    BY <1>3, <2>1, <2>2 DEF PageSound, Seen, Exists
<1> QED
  BY <1>0, <1>1, <1>2, <1>3 DEF PageSound

\* The client under a step of the server: nothing of it changes but the own send that may
\* come back.
EchoComes ==
    /\ minted' \in Ids /\ rows'[minted'] # None /\ rows'[minted'].kind = "add" /\ rows'[minted'].by = Viewer
    /\ echo' = rows'[minted']

\* The own send on its way does not go stale, and one that comes is a row of the table.
LEMMA EchoStays ==
  ASSUME Grows, ClientSound, echo' = echo \/ EchoComes
  PROVE  EchoSound'
<1>0. /\ top_serial \in Nat /\ top_serial' \in Nat /\ top_serial <= top_serial'
      /\ Room(room) /\ ReactsToNothingElse(room) /\ room.cursor \in Nat /\ room.cursor <= top_serial
      /\ saved \in Nat /\ saved <= top_serial
  BY TablesTyped DEF ClientSound, ClientTyped, Room, ReactsToNothingElse
<1>1. CASE echo' = echo
  <2> SUFFICES ASSUME echo # None PROVE EchoSound'
    BY <1>1 DEF EchoSound
  <2>1. /\ echo \in Rows /\ echo.by \notin Blocked /\ echo.kind = "add" /\ echo.serial <= top_serial
        /\ Current(echo, echo.serial) /\ echo.serial \in Nat
        /\ \A id \in Ids : rows[id] # None /\ rows[id].serial = echo.serial => rows[id] = echo
    BY TablesTyped DEF ClientSound, EchoSound, Exists
  <2>2. Current(echo, echo.serial)'
    BY <1>1, <2>1, CurrentStays
  <2>3. ASSUME NEW id \in Ids, rows'[id] # None, rows'[id].serial = echo.serial PROVE rows'[id] = echo
    BY <1>0, <2>1, <2>3, ChangedIsNewer
  <2>4. echo.serial <= top_serial'
    BY <1>0, <2>1
  <2> QED
    BY <1>1, <2>1, <2>2, <2>3, <2>4 DEF EchoSound, Exists
<1>2. CASE EchoComes
  <2>1. echo' \in Rows /\ echo'.by \notin Blocked /\ echo'.kind = "add" /\ echo'.serial <= top_serial'
    BY <1>2, TablesTyped, RoomSyncAssumption DEF EchoComes
  <2>2. echo'.id = minted'
    BY <1>2 DEF EchoComes, Grows, TableSound, Exists
  <2>3. Current(echo, echo.serial)'
    BY <1>2, <2>2 DEF EchoComes, Current
  <2>4. \A id \in Ids : rows'[id] # None /\ rows'[id].serial = echo'.serial => rows'[id] = echo'
    BY <1>2 DEF EchoComes, Grows, MessagesInv, SerialsSound, Exists
  <2> QED
    BY <2>1, <2>3, <2>4 DEF EchoSound, Exists
<1> QED
  BY <1>1, <1>2

\* The cache does not go stale.
LEMMA DiskStays ==
  ASSUME Grows, ClientSound, UNCHANGED <<room, disk, saved>>
  PROVE  DiskSound'
<1>0. /\ top_serial \in Nat /\ top_serial' \in Nat /\ top_serial <= top_serial'
      /\ Room(room) /\ ReactsToNothingElse(room) /\ room.cursor \in Nat /\ room.cursor <= top_serial
      /\ saved \in Nat /\ saved <= top_serial
  BY TablesTyped DEF ClientSound, ClientTyped, Room, ReactsToNothingElse
<1>1. Restored' = Restored
  BY DEF Restored
<1>2. disk.kept => Room([Restored EXCEPT !.cursor = 0])'
  BY <1>1, RoomStays DEF ClientSound, DiskSound
<1>3. room = Fresh /\ disk.kept => UpTo(Restored, saved)'
  <2> SUFFICES ASSUME room = Fresh, disk.kept PROVE UpTo(Restored, saved)'
    OBVIOUS
  <2>1. UpTo(Restored, saved)
    BY DEF ClientSound, DiskSound
  <2>2. ReactsToNothingElse(Restored)
    <3>1. Room([Restored EXCEPT !.cursor = 0])
      BY DEF ClientSound, DiskSound
    <3>2. [Restored EXCEPT !.cursor = 0].reactions = Restored.reactions
      BY DEF Restored, from_cached
    <3> QED
      BY <3>1, <3>2 DEF Room, ReactsToNothingElse
  <2> QED
    BY <1>0, <1>1, <2>1, <2>2, UpToStays
<1> QED
  BY <1>1, <1>2, <1>3 DEF ClientSound, DiskSound

\* A page on its way is as good as when it was read.
LEMMA PageWaitsStays ==
  ASSUME Grows, ClientSound, UNCHANGED <<room, saved>>, NEW a, NEW n, PageWaits(a, n)
  PROVE  PageWaits(a, n)'
<1> DEFINE d == Reach(a.page, n)
<1>0. /\ top_serial \in Nat /\ room.cursor \in Nat /\ room.cursor <= top_serial
      /\ saved \in Nat /\ saved <= top_serial
  BY TablesTyped DEF ClientSound, ClientTyped
<1>1. PageSound(a.page, n, d)'
  BY PageSoundStays DEF PageWaits
<1>2. ~a.more => \A id \in Ids : Seen(id)' =>
                   rows'[id].serial <= d \/ rows'[id].serial > Larger(room.cursor, saved)
  <2> SUFFICES ASSUME ~a.more, NEW id \in Ids, Seen(id)'
               PROVE  rows'[id].serial <= d \/ rows'[id].serial > Larger(room.cursor, saved)
    OBVIOUS
  <2>1. rows'[id] # None
    BY DEF Seen, Exists
  <2>2. CASE rows'[id] = rows[id]
    BY <2>1, <2>2 DEF PageWaits, Seen, Exists
  <2>3. CASE rows'[id] # rows[id]
    <3>1. Larger(room.cursor, saved) \in Nat /\ Larger(room.cursor, saved) <= top_serial
      BY <1>0 DEF Larger
    <3> QED
      BY <2>1, <2>3, <3>1, ChangedIsNewer
  <2> QED
    BY <2>2, <2>3
<1> QED
  BY <1>1, <1>2 DEF PageWaits

\* A page of history on its way does not go stale.
LEMMA PastWaitsStays ==
  ASSUME Grows, ClientSound, room' = room, NEW page, PastWaits(page)
  PROVE  PastWaits(page)'
<1>1. room.cursor \in Nat /\ room.cursor <= top_serial
  BY TablesTyped DEF ClientSound, ClientTyped
<1> QED
  BY <1>1, CurrentStays DEF PastWaits

\* The client is as sound after a step that leaves its room, cache and tasks alone.
LEMMA ServeKeeps ==
  ASSUME Grows, ClientSound, UNCHANGED <<room, disk, saved, job>>, handle' \in 0..room.cursor, echo' = echo \/ EchoComes
  PROVE  ClientSound'
<1>0. /\ top_serial \in Nat /\ top_serial' \in Nat /\ top_serial <= top_serial'
      /\ Room(room) /\ ReactsToNothingElse(room) /\ room.cursor \in Nat /\ room.cursor <= top_serial
      /\ saved \in Nat /\ saved <= top_serial
  BY TablesTyped DEF ClientSound, ClientTyped, Room, ReactsToNothingElse
<1>1. ClientTyped'
  <2>1. Room(room)'
    BY <1>0, RoomStays
  <2>2. room.cursor \in 0..top_serial' /\ saved \in 0..top_serial'
    BY <1>0
  <2> QED
    BY <2>1, <2>2 DEF ClientSound, ClientTyped
<1>2. JobsSound'
  <2>1. ASSUME NEW j \in Jobs, Is(j, "sync") \/ Is(j, "page") PROVE UpTo(room, job[j].since)'
    <3>1. job[j].since \in Nat /\ job[j].since <= top_serial /\ UpTo(room, job[j].since)
      BY <1>0, <2>1 DEF ClientSound, JobsSound
    <3> QED
      BY <1>0, <3>1, UpToStays
  <2>2. ASSUME \A j \in Jobs : ~Is(j, "sync") /\ ~Is(j, "page") PROVE UpTo(room, room.cursor)'
    BY <1>0, <2>2, UpToStays DEF ClientSound, JobsSound
  <2>3. ASSUME NEW j \in Jobs, Is(j, "page") PROVE PageWaits(job[j].answer, job[j].since)'
    BY <2>3, PageWaitsStays DEF ClientSound, JobsSound
  <2>4. ASSUME NEW j \in Jobs, Is(j, "past") PROVE PastWaits(job[j].answer)'
    BY <2>4, PastWaitsStays DEF ClientSound, JobsSound
  <2> QED
    BY <2>1, <2>2, <2>3, <2>4 DEF ClientSound, JobsSound, Is
<1>3. EchoSound'
  BY EchoStays
<1>4. DiskSound'
  BY DiskStays
<1> QED
  BY <1>1, <1>2, <1>3, <1>4 DEF ClientSound

-----------------------------------------------------------------------------
(***************************************************************************)
(* Folding a page.                                                          *)
(***************************************************************************)

\* Numbers: a set has a least one, a bounded one a greatest one, and what holds of 0 and is
\* handed on holds up to n.
LEMMA LeastSerial ==
  ASSUME NEW S \in SUBSET Nat, S # {}
  PROVE  \E m \in S : \A y \in S : m <= y
<1> DEFINE R == {ss \in Nat \X Nat : ss[1] < ss[2]}
<1>0. IsWellFoundedOn(R, Nat)
  BY NatLessThanWellFounded, Zenon DEF OpToRel
<1> HIDE DEF R
<1>1. PICK m \in S : \A y \in S : ~(<<y, m>> \in R)
  BY <1>0, WFMin
<1>2. ASSUME NEW y \in S PROVE m <= y
  <2>1. <<y, m>> \in Nat \X Nat /\ <<y, m>>[1] = y /\ <<y, m>>[2] = m
    OBVIOUS
  <2>2. ~(<<y, m>>[1] < <<y, m>>[2])
    BY <1>1, <2>1, Zenon DEF R
  <2> QED
    BY <2>1, <2>2
<1> QED
  BY <1>2

\* A set of serials with 0 that every step up stays in is all of them.
LEMMA SerialsClimbUp ==
  ASSUME NEW n \in Nat, NEW T \in SUBSET (0..n), 0 \in T, \A i \in 1..n : i - 1 \in T => i \in T
  PROVE  T = 0..n
<1> SUFFICES ASSUME T # 0..n PROVE FALSE
  OBVIOUS
<1>1. (0..n) \ T \in SUBSET Nat /\ (0..n) \ T # {}
  <2>1. \E x \in 0..n : x \notin T
    BY Zenon
  <2> QED
    BY <2>1
<1>2. PICK m \in (0..n) \ T : \A y \in (0..n) \ T : m <= y
  BY <1>1, LeastSerial
<1>3. m \in 1..n /\ m - 1 \in 0..n /\ ~(m <= m - 1)
  BY <1>2
<1> QED
  BY <1>2, <1>3

\* Max of the community modules is the greatest of a set of serials.
LEMMA HighestSerial ==
  ASSUME NEW n \in Nat, NEW S \in SUBSET (0..n), S # {}
  PROVE  Max(S) \in S /\ \A y \in S : y <= Max(S)
<1> DEFINE T == {n - x : x \in S}
<1>1. T \in SUBSET Nat /\ T # {}
  <2>1. \A x \in S : x \in 0..n /\ n - x \in Nat
    OBVIOUS
  <2> QED
    BY <2>1
<1>2. PICK m \in T : \A y \in T : m <= y
  BY <1>1, LeastSerial
<1>3. PICK x \in S : m = n - x
  OBVIOUS
<1>4. ASSUME NEW y \in S PROVE x >= y
  <2>1. m <= n - y
    BY <1>2
  <2> QED
    BY <1>3, <2>1
<1>5. \E z \in S : \A y \in S : z >= y
  BY <1>4
<1>6. Max(S) \in S /\ \A y \in S : Max(S) >= y
  BY <1>5 DEF Max
<1> QED
  BY <1>6

\* The fold goes from serial to serial.
FoldAt(st, page, n) ==
    IF \E e \in page : e.serial = n THEN fold_one(st, CHOOSE e \in page : e.serial = n) ELSE st
Folds(f, st, page) == f[0] = st /\ \A m \in 1..MaxSerial : f[m] = FoldAt(f[m - 1], page, m)

\* The fold of a page is the last of a row of states, one for each serial.
LEMMA FoldRuns ==
  ASSUME NEW st, NEW page
  PROVE  \E f : Folds(f, st, page) /\ fold(st, page) = f[MaxSerial]
<1>0. MaxSerial \in Nat
  BY MessagesAssumption
<1> DEFINE At(x, m) == FoldAt(x, page, m)
           Def(h) == h = [n \in 0..MaxSerial |-> IF n = 0 THEN st ELSE At(h[n - 1], n)]
           folded == CHOOSE h : Def(h)
<1>1. fold(st, page) = folded[MaxSerial]
  BY DEF fold, FoldAt
<1> DEFINE Partial(h, m) == h[0] = st /\ \A i \in 1..m : h[i] = At(h[i - 1], i)
           T == {m \in 0..MaxSerial : \E h : Partial(h, m)}
<1> HIDE DEF At
<1>2. MaxSerial \in T
  <2>1. 0 \in T
    <3>1. Partial([i \in 0..0 |-> st], 0)
      OBVIOUS
    <3> HIDE DEF Partial
    <3>2. \E h : Partial(h, 0)
      BY <3>1, Zenon
    <3> QED
      BY <1>0, <3>2
  <2>2. ASSUME NEW m \in 1..MaxSerial, m - 1 \in T PROVE m \in T
    <3>1. PICK h : Partial(h, m - 1)
      BY <2>2
    <3> DEFINE g == [i \in 0..m |-> IF i = m THEN At(h[m - 1], m) ELSE h[i]]
    <3>2. g[0] = st /\ \A i \in 1..m : g[i] = At(g[i - 1], i)
      BY <1>0, <3>1
    <3> HIDE DEF g
    <3>3. Partial(g, m)
      BY <3>2
    <3> HIDE DEF Partial
    <3>4. \E e : Partial(e, m)
      BY <3>3, Zenon
    <3> QED
      BY <1>0, <3>4
  <2>3. T \in SUBSET (0..MaxSerial)
    OBVIOUS
  <2> HIDE DEF T
  <2>4. T = 0..MaxSerial
    BY <1>0, <2>1, <2>2, <2>3, SerialsClimbUp
  <2> QED
    BY <1>0, <2>4
<1>3. PICK h : Partial(h, MaxSerial)
  BY <1>2
<1> DEFINE g == [n \in 0..MaxSerial |-> h[n]]
<1>4. Def(g)
  <2>1. ASSUME NEW n \in 0..MaxSerial PROVE g[n] = IF n = 0 THEN st ELSE At(g[n - 1], n)
    BY <1>0, <1>3
  <2> QED
    BY <2>1
<1>5. Def(folded)
  <2> HIDE DEF Def, g
  <2> QED
    BY <1>4, Zenon DEF folded
<1>6. Folds(folded, st, page)
  <2>1. \A n \in 0..MaxSerial : folded[n] = IF n = 0 THEN st ELSE At(folded[n - 1], n)
    BY <1>5
  <2> HIDE DEF folded
  <2>2. folded[0] = st /\ \A m \in 1..MaxSerial : folded[m] = At(folded[m - 1], m)
    BY <1>0, <2>1
  <2> QED
    BY <2>2 DEF Folds, At
<1> HIDE DEF folded
<1> QED
  BY <1>1, <1>6, Zenon

\* What one event makes of the room.
FoldedOne(s, st, r) ==
    /\ s \in RoomStates /\ s.cursor = Larger(st.cursor, r.serial)
    /\ r.kind \in Renderable => s.messages = [st.messages EXCEPT ![r.id] = r] /\ s.reactions = st.reactions
    /\ r.kind = "delete" => /\ s.messages = [st.messages EXCEPT ![r.id] = None]
                            /\ s.reactions = [st.reactions EXCEPT ![r.id] = {}]
    /\ r.kind = "delete_all" => s.messages = Fresh.messages /\ s.reactions = Fresh.reactions
    /\ r.kind \in Events => /\ s.messages = st.messages
                            /\ s.reactions = [st.reactions EXCEPT ![r.of] = React(@, r)]

\* And fold_one makes that of it.
LEMMA FoldOneIs ==
  ASSUME NEW st \in RoomStates, NEW r \in Rows, r.kind \in Events => r.of \in Ids
  PROVE  FoldedOne(fold_one(st, r), st, r)
<1> PICK s : s = fold_one(st, r)
  OBVIOUS
<1> SUFFICES FoldedOne(s, st, r)
  OBVIOUS
<1> USE DEF FoldedOne
<1>1. /\ r.kind \in Renderable \cup Events \cup {"delete", "delete_all"} /\ r.serial \in Nat /\ r.id \in Ids
      /\ r.by \in Users
  BY RowFields, MessagesAssumption DEF Rows
<1>2. Larger(st.cursor, r.serial) \in Nat
  BY <1>1 DEF RoomStates, Larger
<1> DEFINE c == Larger(st.cursor, r.serial)
           seen == [st EXCEPT !.cursor = c]
<1>3. seen \in RoomStates /\ seen.messages = st.messages /\ seen.reactions = st.reactions /\ seen.cursor = c
  BY <1>2 DEF RoomStates
<1>4. s = CASE r.kind \in Renderable -> [seen EXCEPT !.messages[r.id] = r]
            [] r.kind = "delete" -> [seen EXCEPT !.messages[r.id] = None, !.reactions[r.id] = {}]
            [] r.kind = "delete_all" -> [Fresh EXCEPT !.cursor = c]
            [] r.kind \in Events -> [seen EXCEPT !.reactions[r.of] = React(@, r)]
  BY <1>3 DEF fold_one, Advance
<1> HIDE DEF seen
<1>5. CASE r.kind \in Renderable
  <2>1. s = [seen EXCEPT !.messages[r.id] = r]
    BY <1>4, <1>5, Kinds
  <2> QED
    BY <1>1, <1>2, <1>3, <1>5, <2>1, Kinds DEF RoomStates
<1>6. CASE r.kind = "delete"
  <2>1. s = [seen EXCEPT !.messages[r.id] = None, !.reactions[r.id] = {}]
    BY <1>4, <1>6, Kinds
  <2> DEFINE gone == [seen EXCEPT !.messages[r.id] = None]
  <2>2. gone \in RoomStates /\ gone.messages = [st.messages EXCEPT ![r.id] = None]
        /\ gone.reactions = st.reactions /\ gone.cursor = c
    BY <1>1, <1>3 DEF RoomStates
  <2>3. s = [gone EXCEPT !.reactions[r.id] = {}]
    BY <2>1
  <2> HIDE DEF gone
  <2>4. s \in RoomStates /\ s.messages = gone.messages /\ s.cursor = c
        /\ s.reactions = [st.reactions EXCEPT ![r.id] = {}]
    BY <1>1, <2>2, <2>3 DEF RoomStates
  <2> QED
    BY <1>6, <2>2, <2>4, Kinds
<1>7. CASE r.kind = "delete_all"
  <2>1. s = [Fresh EXCEPT !.cursor = c]
    BY <1>4, <1>7, Kinds
  <2>2. Fresh \in RoomStates
    BY DEF RoomStates, Fresh
  <2>3. s \in RoomStates /\ s.messages = Fresh.messages /\ s.reactions = Fresh.reactions /\ s.cursor = c
    BY <1>2, <2>1, <2>2 DEF RoomStates
  <2> QED
    BY <1>7, <2>3, Kinds
<1>8. CASE r.kind \in Events
  <2>1. s = [seen EXCEPT !.reactions[r.of] = React(@, r)]
    BY <1>4, <1>8, Kinds
  <2>2. \A who \in SUBSET Users : React(who, r) \in SUBSET Users
    BY <1>1 DEF React
  <2> QED
    BY <1>1, <1>2, <1>3, <1>8, <2>1, <2>2, Kinds DEF RoomStates
<1> QED
  BY <1>1, <1>5, <1>6, <1>7, <1>8

\* One event folded gives a state of the room, with the cursor at the later of the two.
LEMMA FoldOneRoom ==
  ASSUME MessagesInv, NEW st, Room(st), NEW r \in Rows, r.kind \in Events => r.of \in 1..minted
  PROVE  Room(fold_one(st, r)) /\ fold_one(st, r).cursor = Larger(st.cursor, r.serial)
<1> DEFINE s == fold_one(st, r)
<1>0. minted \in Nat /\ minted <= MaxIds /\ MaxIds \in Nat
  BY MessagesAssumption DEF MessagesInv, TableTyped
<1>1. r.kind \in Events => r.of \in Ids /\ r.of <= minted
  BY <1>0 DEF Ids
<1>2. st \in RoomStates /\ r.id \in Ids /\ r # None /\ r.kind \in Renderable \cup Events \cup {"delete", "delete_all"}
  BY RowFields DEF Room, Rows
<1>3. FoldedOne(s, st, r)
  BY <1>1, <1>2, FoldOneIs
<1> USE DEF FoldedOne
<1> HIDE DEF s
<1>4. st.messages \in [Ids -> Rows \cup {None}] /\ st.reactions \in [Ids -> SUBSET Users]
  BY <1>2 DEF RoomStates
<1>5. \A id \in Ids : s.messages[id] # None => s.messages[id].id = id
  BY <1>2, <1>3, <1>4 DEF Room, Fresh
<1>6. \A id \in Ids : id > minted => s.reactions[id] = {}
  <2>1. \A id \in Ids : id > minted => st.reactions[id] = {} /\ (id # r.of \/ r.kind \notin Events)
    BY <1>0, <1>1 DEF Room, Ids
  <2> QED
    BY <1>2, <1>3, <1>4, <2>1 DEF Fresh
<1> QED
  BY <1>3, <1>5, <1>6 DEF Room, s

\* Nothing that is written between n and m means that a client is told up to m.
LEMMA UpToAcross ==
  ASSUME MessagesInv, NEW st, NEW n \in Nat, NEW m \in Nat, n <= m, UpTo(st, n),
         \A id \in Ids : Seen(id) => rows[id].serial <= n \/ rows[id].serial > m
  PROVE  UpTo(st, m)
<1>0. \A id \in Ids : Seen(id) => rows[id].serial \in Nat
  BY RowFields, MessagesAssumption DEF MessagesInv, TableTyped, Seen, Exists
<1>1. \A id \in Ids : Seen(id) /\ rows[id].serial > n => rows[id].serial > m
  BY <1>0
<1>2. Cleared(n) => Cleared(m)
  BY <1>1 DEF Cleared
<1>3. \A id \in Ids : Owed(id, n) => Owed(id, m)
  BY <1>1, <1>2 DEF Owed
<1>4. \A id \in Ids, u \in Users : \A e \in EventsOf(id, u) : rows[e].serial > n => rows[e].serial > m
  BY <1>1 DEF EventsOf
<1>5. MessagesUpTo(st, m)
  BY <1>3 DEF UpTo, MessagesUpTo
<1>6. ReactionsUpTo(st, m)
  BY <1>2, <1>4 DEF UpTo, ReactionsUpTo
<1> QED
  BY <1>5, <1>6 DEF UpTo

\* Told up to m is told up to n as well, when n is behind m.
LEMMA UpToBehind ==
  ASSUME MessagesInv, NEW st, NEW n \in Nat, NEW m \in Nat, n <= m, UpTo(st, m)
  PROVE  UpTo(st, n)
<1>0. \A id \in Ids : Seen(id) => rows[id].serial \in Nat
  BY RowFields, MessagesAssumption DEF MessagesInv, TableTyped, Seen, Exists
<1>1. \A id \in Ids : Seen(id) /\ rows[id].serial > m => rows[id].serial > n
  BY <1>0
<1>2. Cleared(m) => Cleared(n)
  BY <1>1 DEF Cleared
<1>3. \A id \in Ids : Owed(id, m) => Owed(id, n)
  BY <1>1, <1>2 DEF Owed
<1>4. \A id \in Ids, u \in Users : \A e \in EventsOf(id, u) : rows[e].serial > m => rows[e].serial > n
  BY <1>1 DEF EventsOf
<1>5. MessagesUpTo(st, n)
  BY <1>3 DEF UpTo, MessagesUpTo
<1>6. ReactionsUpTo(st, n)
  BY <1>2, <1>4 DEF UpTo, ReactionsUpTo
<1> QED
  BY <1>5, <1>6 DEF UpTo

\* How far a client is told is about what it shows.
LEMMA UpToShows ==
  ASSUME NEW st, NEW s, NEW n, s.messages = st.messages, s.reactions = st.reactions, UpTo(st, n)
  PROVE  UpTo(s, n)
BY DEF UpTo, MessagesUpTo, ReactionsUpTo

\* One event of a page, in its turn.
LEMMA FoldOneTold ==
  ASSUME MessagesInv, TableSound, NEW page, NEW n, NEW d, PageSound(page, n, d),
         NEW st, Room(st), NEW r \in page, UpTo(st, r.serial - 1)
  PROVE  UpTo(fold_one(st, r), r.serial)
<1> DEFINE k == r.serial
           s == fold_one(st, r)
<1>0. /\ r \in Rows /\ r.by \notin Blocked /\ k \in Nat /\ n < k /\ k <= d /\ n \in Nat /\ d \in Nat /\ Current(r, d)
      /\ r # None /\ r.id \in Ids /\ r.by \in Users /\ r.kind \in Renderable \cup Events \cup {"delete", "delete_all"}
      /\ (r.kind \in Events => r.of \in Ids) /\ UpTo(st, k - 1)
  <2>1. \A x \in 1..minted : x \in Ids
    BY MessagesAssumption DEF MessagesInv, TableTyped, Ids
  <2> QED
    BY <2>1, RowFields, MessagesAssumption DEF PageSound, Rows
<1>1. st \in RoomStates /\ st.messages \in [Ids -> Rows \cup {None}] /\ st.reactions \in [Ids -> SUBSET Users]
  BY DEF Room, RoomStates
<1>2. /\ r.kind \in Renderable => s.messages = [st.messages EXCEPT ![r.id] = r] /\ s.reactions = st.reactions
      /\ r.kind = "delete" => /\ s.messages = [st.messages EXCEPT ![r.id] = None]
                              /\ s.reactions = [st.reactions EXCEPT ![r.id] = {}]
      /\ r.kind = "delete_all" => s.messages = Fresh.messages /\ s.reactions = Fresh.reactions
      /\ r.kind \in Events => /\ s.messages = st.messages
                              /\ s.reactions = [st.reactions EXCEPT ![r.of] = React(@, r)]
  <2>1. FoldedOne(s, st, r)
    BY <1>0, <1>1, FoldOneIs
  <2> QED
    BY <2>1 DEF FoldedOne
<1> HIDE DEF s
<1>s. \A id \in Ids : Seen(id) => rows[id].serial \in Nat /\ rows[id] \in Rows
  BY RowFields, MessagesAssumption DEF MessagesInv, TableTyped, Seen, Exists
<1>3. ASSUME NEW id \in Ids, Seen(id), rows[id].serial > k - 1 PROVE rows[id].serial > k \/ rows[id] = r
  <2>1. CASE rows[id].serial = k
    BY <1>0, <1>3, <2>1 DEF PageSound
  <2>2. CASE rows[id].serial # k
    BY <1>0, <1>3, <1>s, <2>2
  <2> QED
    BY <2>1, <2>2
<1>4. \A id \in Ids : Seen(id) /\ rows[id] = r => id = r.id
  BY DEF TableSound, Seen
<1>5. CASE Cleared(k)
  BY <1>5 DEF UpTo, MessagesUpTo, ReactionsUpTo, Owed
<1>6. CASE ~Cleared(k)
  <2>1. ~Cleared(d)
    BY <1>0, <1>6, <1>s DEF Cleared
  <2>2. r.kind # "delete_all" => ~Cleared(k - 1)
    BY <1>3, <1>6 DEF Cleared
  <2>3. \/ rows[r.id] = r
        \/ /\ r.kind \in Words /\ Seen(r.id) /\ rows[r.id].kind \in Words /\ rows[r.id].serial > k
           /\ r.kind = "delete" => rows[r.id].kind = "delete"
    BY <1>0, <1>s, <2>1 DEF Current
  <2>4. ASSUME NEW id \in Ids, Owed(id, k - 1), ~Owed(id, k), r.kind # "delete_all" PROVE rows[id] = r /\ id = r.id
    BY <1>3, <1>4, <2>2, <2>4 DEF Owed
  <2>5. MessagesUpTo(s, k)
    <3> SUFFICES ASSUME NEW id \in Ids, ~Owed(id, k) PROVE s.messages[id] = Shown(id)
      BY DEF MessagesUpTo
    <3>1. id # r.id /\ r.kind # "delete_all" => st.messages[id] = Shown(id)
      BY <2>4 DEF UpTo, MessagesUpTo
    <3>2. CASE r.kind \in Words
      <4>1. CASE id = r.id
        <5>1. rows[id] = r
          BY <2>3, <4>1 DEF Owed
        <5> QED
          BY <1>0, <1>1, <1>2, <3>2, <4>1, <5>1, Kinds DEF Shown, Seen, Exists, Words
      <4>2. CASE id # r.id
        BY <1>1, <1>2, <3>1, <3>2, <4>2, Kinds DEF Words
      <4> QED
        BY <4>1, <4>2
    <3>3. CASE r.kind = "delete_all"
      <4>1. rows[r.id] = r
        BY <2>3, <3>3, Kinds
      <4>2. s.messages[id] = None
        BY <1>2, <3>3 DEF Fresh
      <4>3. Shown(id) = None
        <5> SUFFICES ASSUME Seen(id), rows[id].kind \in Renderable PROVE FALSE
          BY DEF Shown
        <5>1. k <= rows[id].serial
          BY <1>0, <3>3, <4>1 DEF TableSound, Seen, Exists
        <5>2. rows[id].serial > k \/ rows[id] = r
          BY <1>0, <1>3, <1>s, <5>1
        <5> QED
          BY <3>3, <5>2, Kinds DEF Owed
      <4> QED
        BY <4>2, <4>3
    <3>4. CASE r.kind \in Events
      <4>1. st.messages[id] = Shown(id)
        <5>1. ~Owed(id, k - 1)
          BY <2>2, <2>4, <3>4, Kinds DEF Owed
        <5> QED
          BY <5>1 DEF UpTo, MessagesUpTo
      <4> QED
        BY <1>2, <3>4, <4>1
    <3> QED
      BY <1>0, <3>2, <3>3, <3>4 DEF Words
  <2>6. ReactionsUpTo(s, k)
    <3> SUFFICES ASSUME NEW id \in Ids, NEW u \in Users, Shown(id) # None,
                        \A e \in EventsOf(id, u) : ~(rows[e].serial > k)
                 PROVE  u \in s.reactions[id] <=> Reacts(id, u)
      BY <1>6 DEF ReactionsUpTo
    <3>1. ASSUME NEW e \in EventsOf(id, u), rows[e].serial > k - 1 PROVE rows[e] = r
      BY <1>3, <3>1 DEF EventsOf
    <3>2. r.kind # "delete_all" /\ (r.kind \notin Events \/ r.of # id \/ r.by # u)
            => (u \in st.reactions[id] <=> Reacts(id, u))
      <4> SUFFICES ASSUME r.kind # "delete_all", r.kind \notin Events \/ r.of # id \/ r.by # u
                   PROVE  u \in st.reactions[id] <=> Reacts(id, u)
        OBVIOUS
      <4>1. \A e \in EventsOf(id, u) : rows[e] # r
        BY DEF EventsOf
      <4>2. \A e \in EventsOf(id, u) : ~(rows[e].serial > k - 1)
        BY <3>1, <4>1
      <4> QED
        BY <2>2, <4>2 DEF UpTo, ReactionsUpTo
    <3>3. CASE r.kind \in Renderable
      BY <1>2, <3>2, <3>3, Kinds
    <3>4. CASE r.kind = "delete"
      <4>1. id # r.id
        BY <1>0, <2>3, <3>4, Kinds DEF Shown
      <4> QED
        BY <1>1, <1>2, <3>2, <3>4, <4>1, Kinds
    <3>5. CASE r.kind = "delete_all"
      <4>1. rows[r.id] = r
        BY <2>3, <3>5, Kinds
      <4>2. s.reactions[id] = {}
        BY <1>2, <3>5 DEF Fresh
      <4>3. EventsOf(id, u) = {}
        <5> SUFFICES ASSUME NEW e \in EventsOf(id, u) PROVE FALSE
          OBVIOUS
        <5>1. e \in Ids /\ Seen(e) /\ rows[e].kind \in Events
          BY DEF EventsOf
        <5>2. k <= rows[e].serial
          BY <1>0, <3>5, <4>1, <5>1 DEF TableSound, Seen, Exists
        <5>3. rows[e].serial > k - 1
          BY <1>0, <1>s, <5>1, <5>2
        <5> QED
          BY <3>1, <3>5, <5>1, <5>3, Kinds
      <4> QED
        BY <4>2, <4>3 DEF Reacts
    <3>6. CASE r.kind \in Events /\ (r.of # id \/ r.by # u)
      <4>1. u \in s.reactions[id] <=> u \in st.reactions[id]
        BY <1>0, <1>1, <1>2, <3>6 DEF React
      <4> QED
        BY <3>2, <3>6, <4>1, Kinds
    <3>7. CASE r.kind \in Events /\ r.of = id /\ r.by = u
      <4>1. rows[r.id] = r
        BY <2>3, <3>7, Kinds
      <4>2. r.id \in EventsOf(id, u)
        BY <1>0, <3>7, <4>1 DEF EventsOf, Seen, Exists
      <4>3. \A e \in EventsOf(id, u) : rows[e].serial <= k /\ (rows[e].serial >= k => e = r.id)
        <5> SUFFICES ASSUME NEW e \in EventsOf(id, u) PROVE rows[e].serial <= k /\ (rows[e].serial >= k => e = r.id)
          OBVIOUS
        <5>1. e \in Ids /\ Seen(e) /\ rows[e].serial \in Nat
          BY <1>s DEF EventsOf
        <5> QED
          BY <1>0, <1>4, <3>1, <5>1
      <4>4. Reacts(id, u) <=> r.kind = "emoticon_add"
        <5>1. ASSUME r.kind = "emoticon_add" PROVE Reacts(id, u)
          BY <4>1, <4>2, <4>3, <5>1 DEF Reacts
        <5>2. ASSUME Reacts(id, u) PROVE r.kind = "emoticon_add"
          <6>1. PICK e \in EventsOf(id, u) : rows[e].kind = "emoticon_add"
                                            /\ \A o \in EventsOf(id, u) : rows[o].serial <= rows[e].serial
            BY <5>2 DEF Reacts
          <6>2. k <= rows[e].serial /\ rows[e].serial \in Nat
            BY <1>s, <4>1, <4>2, <6>1 DEF EventsOf
          <6>3. e = r.id
            BY <1>0, <4>3, <6>2
          <6> QED
            BY <4>1, <6>1, <6>3
        <5> QED
          BY <5>1, <5>2
      <4>5. u \in s.reactions[id] <=> r.kind = "emoticon_add"
        BY <1>0, <1>1, <1>2, <3>7 DEF React
      <4> QED
        BY <4>4, <4>5
    <3> QED
      BY <1>0, <3>3, <3>4, <3>5, <3>6, <3>7
  <2> QED
    BY <2>5, <2>6 DEF UpTo, s
<1> QED
  BY <1>5, <1>6 DEF s

\* Where a fold stands at serial m: the room is told up to there, and its cursor is at the
\* last of what was folded.
FoldStands(s, m, st, page, n, d) ==
    /\ Room(s) /\ (m <= n => s = st) /\ (page = {} => s = st)
    /\ n <= m /\ m <= d => UpTo(s, m)
    /\ d <= m => UpTo(s, d)
    /\ st.cursor <= s.cursor /\ \A r \in page : r.serial <= m => r.serial <= s.cursor
    /\ s.cursor = st.cursor \/ \E r \in page : r.serial = s.cursor

\* A fold one serial further stands where it should.
LEMMA FoldMoves ==
  ASSUME MessagesInv, TableSound, NEW page, NEW n, NEW d, PageSound(page, n, d), NEW st, Room(st), UpTo(st, n),
         NEW m \in Nat, m # 0, NEW s0, FoldStands(s0, m - 1, st, page, n, d), NEW s, s = FoldAt(s0, page, m)
  PROVE  FoldStands(s, m, st, page, n, d)
<1>0. n \in Nat /\ d \in Nat /\ n <= d /\ m - 1 \in Nat /\ st.cursor \in Nat /\ s0.cursor \in Nat
  BY DEF PageSound, Room, RoomStates, FoldStands
<1>p. \A r \in page : r \in Rows /\ r.serial \in Nat /\ n < r.serial /\ r.serial <= d
  BY RowFields, MessagesAssumption DEF PageSound
<1>1. CASE \E e \in page : e.serial = m
  <2>1. PICK r \in page : r.serial = m /\ s = fold_one(s0, r)
    BY <1>1 DEF FoldAt
  <2>2. n < m /\ m <= d /\ n <= m - 1 /\ m - 1 <= d /\ page # {}
    BY <1>0, <1>p, <2>1
  <2>3. Room(s0) /\ UpTo(s0, r.serial - 1)
    BY <1>0, <2>1, <2>2 DEF FoldStands
  <2>4. Room(s) /\ s.cursor = Larger(s0.cursor, m)
    BY <1>p, <2>1, <2>3, FoldOneRoom DEF PageSound
  <2>5. UpTo(s, m)
    BY <2>1, <2>3, FoldOneTold
  <2>6. d <= m => m = d
    BY <1>0, <2>2
  <2>7. st.cursor <= s.cursor /\ \A q \in page : q.serial <= m => q.serial <= s.cursor
    BY <1>0, <1>p, <2>4 DEF FoldStands, Larger
  <2>8. s.cursor = st.cursor \/ \E q \in page : q.serial = s.cursor
    BY <2>1, <2>4 DEF FoldStands, Larger
  <2> QED
    BY <1>0, <2>2, <2>4, <2>5, <2>6, <2>7, <2>8 DEF FoldStands
<1>2. CASE ~\E e \in page : e.serial = m
  <2>1. s = s0
    BY <1>2 DEF FoldAt
  <2>2. Room(s) /\ (m <= n => s = st) /\ (page = {} => s = st) /\ st.cursor <= s.cursor
        /\ (s.cursor = st.cursor \/ \E q \in page : q.serial = s.cursor)
    BY <1>0, <2>1 DEF FoldStands
  <2>3. \A q \in page : q.serial <= m => q.serial <= s.cursor
    BY <1>0, <1>2, <1>p, <2>1 DEF FoldStands
  <2>4. n <= m /\ m <= d => UpTo(s, m)
    <3>1. CASE m <= n
      BY <1>0, <2>2, <3>1
    <3>2. CASE n < m /\ m <= d
      <4>1. UpTo(s, m - 1)
        BY <1>0, <2>1, <3>2 DEF FoldStands
      <4>2. ASSUME NEW id \in Ids, Seen(id) PROVE rows[id].serial <= m - 1 \/ rows[id].serial > m
        <5>1. rows[id].serial \in Nat
          BY <4>2, RowFields, MessagesAssumption DEF MessagesInv, TableTyped, Seen, Exists
        <5>2. rows[id].serial # m
          BY <1>2, <3>2, <4>2 DEF PageSound
        <5> QED
          BY <5>1, <5>2
      <4>3. m - 1 <= m
        OBVIOUS
      <4> QED
        BY <1>0, <4>1, <4>2, <4>3, UpToAcross
    <3> QED
      BY <1>0, <3>1, <3>2
  <2>5. d <= m => UpTo(s, d)
    <3>1. CASE d <= m - 1
      BY <2>1, <3>1 DEF FoldStands
    <3>2. CASE ~(d <= m - 1)
      <4>1. d <= m => d = m
        BY <1>0, <3>2
      <4> QED
        BY <1>0, <2>4, <4>1
    <3> QED
      BY <3>1, <3>2
  <2> QED
    BY <2>2, <2>3, <2>4, <2>5 DEF FoldStands
<1> QED
  BY <1>1, <1>2

\* A page that is folded into a room told up to where it was read from.
LEMMA FoldTold ==
  ASSUME MessagesInv, TableSound, NEW page, NEW n, NEW d, PageSound(page, n, d), NEW st, Room(st), UpTo(st, n)
  PROVE  /\ Room(fold(st, page)) /\ UpTo(fold(st, page), d)
         /\ page = {} => fold(st, page) = st
         /\ page # {} => fold(st, page).cursor = Larger(st.cursor, Max({e.serial : e \in page}))
<1>0. n \in Nat /\ d \in Nat /\ n <= d /\ MaxSerial \in Nat /\ d <= MaxSerial /\ st.cursor \in Nat
  BY MessagesAssumption DEF PageSound, Room, RoomStates, MessagesInv, TableTyped
<1>p. \A r \in page : r.serial \in 0..MaxSerial /\ r.serial # 0 /\ r.serial <= d
  BY RowFields, MessagesAssumption DEF PageSound
<1>1. PICK f : Folds(f, st, page) /\ fold(st, page) = f[MaxSerial]
  BY FoldRuns
<1> DEFINE T == {m \in 0..MaxSerial : FoldStands(f[m], m, st, page, n, d)}
<1>2. 0 \in T
  <2>1. f[0] = st
    BY <1>1 DEF Folds
  <2>2. n <= 0 /\ 0 <= d => UpTo(st, 0)
    BY <1>0
  <2>3. d <= 0 => UpTo(st, d)
    BY <1>0
  <2>4. st.cursor <= st.cursor /\ \A r \in page : r.serial <= 0 => r.serial <= st.cursor
    BY <1>0, <1>p
  <2>5. FoldStands(st, 0, st, page, n, d)
    BY <1>0, <2>2, <2>3, <2>4 DEF FoldStands
  <2> QED
    BY <1>0, <2>1, <2>5
<1>3. ASSUME NEW m \in 1..MaxSerial, m - 1 \in T PROVE m \in T
  <2>1. m \in Nat /\ m # 0 /\ m \in 0..MaxSerial /\ FoldStands(f[m - 1], m - 1, st, page, n, d)
        /\ f[m] = FoldAt(f[m - 1], page, m)
    BY <1>0, <1>1, <1>3 DEF Folds
  <2>2. FoldStands(f[m], m, st, page, n, d)
    BY <2>1, FoldMoves
  <2> QED
    BY <2>1, <2>2
<1>4. FoldStands(fold(st, page), MaxSerial, st, page, n, d)
  <2>1. T \in SUBSET (0..MaxSerial)
    OBVIOUS
  <2> HIDE DEF T
  <2>2. T = 0..MaxSerial
    BY <1>0, <1>2, <1>3, <2>1, SerialsClimbUp
  <2>3. MaxSerial \in T
    BY <1>0, <2>2
  <2> QED
    BY <1>1, <2>3 DEF T
<1> DEFINE s == fold(st, page)
<1> HIDE DEF s
<1>5. Room(s) /\ UpTo(s, d) /\ (page = {} => s = st) /\ s.cursor \in Nat /\ st.cursor <= s.cursor
      /\ (\A r \in page : r.serial <= s.cursor) /\ (s.cursor = st.cursor \/ \E r \in page : r.serial = s.cursor)
  <2>1. FoldStands(s, MaxSerial, st, page, n, d)
    BY <1>4 DEF s
  <2>2. \A r \in page : r.serial <= MaxSerial
    BY <1>0, <1>p
  <2> QED
    BY <1>0, <2>1, <2>2 DEF FoldStands, Room, RoomStates
<1>6. ASSUME page # {} PROVE s.cursor = Larger(st.cursor, Max({e.serial : e \in page}))
  <2> DEFINE S == {e.serial : e \in page}
  <2>1. S \in SUBSET (0..MaxSerial) /\ S # {}
    BY <1>6, <1>p
  <2>2. Max(S) \in S /\ \A y \in S : y <= Max(S)
    BY <1>0, <2>1, HighestSerial
  <2>3. PICK q \in page : Max(S) = q.serial
    BY <2>2
  <2>4. \A r \in page : r.serial <= q.serial
    BY <2>2, <2>3
  <2>5. q.serial \in Nat /\ q.serial <= s.cursor
    BY <1>0, <1>5, <1>p
  <2>6. s.cursor = Larger(st.cursor, q.serial)
    BY <1>0, <1>5, <1>p, <2>4, <2>5 DEF Larger
  <2> QED
    BY <2>3, <2>6
<1> QED
  BY <1>5, <1>6 DEF s

-----------------------------------------------------------------------------
(***************************************************************************)
(* What the server answers, and what the cache takes.                       *)
(***************************************************************************)

\* Rows that are named by ids are finitely many.
LEMMA FinitelyMany ==
  ASSUME NEW f, NEW D \in SUBSET Ids
  PROVE  IsFiniteSet({f[id] : id \in D})
<1> DEFINE T == {f[id] : id \in D}
           g == [id \in D |-> f[id]]
<1>1. IsFiniteSet(D)
  <2>1. IsFiniteSet(Ids)
    BY MessagesAssumption, FS_Interval DEF Ids
  <2> QED
    BY <2>1, FS_Subset
<1>2. g \in Surjection(D, T)
  BY DEF Surjection
<1> HIDE DEF T, g
<1>3. IsFiniteSet(T)
  BY <1>1, <1>2, FS_Surjection
<1> QED
  BY <1>3 DEF T

\* There are fewer rows before one of them than there are rows.
LEMMA FewerBefore ==
  ASSUME NEW S, IsFiniteSet(S), NEW r \in S, NEW B \in SUBSET (S \ {r})
  PROVE  Cardinality(B) < Cardinality(S) /\ Cardinality(B) \in Nat /\ Cardinality(S) \in Nat
<1>1. IsFiniteSet(S \ {r}) /\ Cardinality(S \ {r}) = Cardinality(S) - 1 /\ Cardinality(S) \in Nat
  BY FS_RemoveElement, FS_CardinalityType
<1>2. IsFiniteSet(B) /\ Cardinality(B) <= Cardinality(S \ {r})
  BY <1>1, FS_Subset
<1>3. Cardinality(B) \in Nat
  BY <1>2, FS_CardinalityType
<1> QED
  BY <1>1, <1>2, <1>3

\* What the viewer may read are rows of the table, one for each serial.
LEMMA ReadableRows ==
  ASSUME MessagesInv, TableSound
  PROVE  /\ IsFiniteSet(Readable)
         /\ \A r \in Readable : /\ r \in Rows /\ r.by \notin Blocked /\ r.id \in Ids /\ rows[r.id] = r /\ Seen(r.id)
                                /\ r.serial \in 0..MaxSerial /\ r.serial # 0 /\ r.serial <= top_serial
                                /\ r.kind \in Events => r.of \in 1..minted
         /\ \A r, q \in Readable : r.serial = q.serial => r = q
         /\ \A id \in Ids : Seen(id) => rows[id] \in Readable
<1> DEFINE D == {i \in Ids : Exists(i) /\ rows[i].by \notin Blocked}
<1>1. IsFiniteSet(Readable)
  BY FinitelyMany DEF Readable
<1>2. ASSUME NEW r \in Readable
      PROVE  /\ r \in Rows /\ r.by \notin Blocked /\ r.id \in Ids /\ rows[r.id] = r /\ Seen(r.id)
             /\ r.serial \in 0..MaxSerial /\ r.serial # 0 /\ r.serial <= top_serial
             /\ r.kind \in Events => r.of \in 1..minted
  <2>1. PICK i \in Ids : Exists(i) /\ rows[i].by \notin Blocked /\ r = rows[i]
    BY DEF Readable
  <2>2. r \in Rows /\ r.id = i /\ r.serial <= top_serial /\ (r.kind \in Events => r.of \in 1..minted)
    BY <2>1 DEF MessagesInv, TableTyped, SerialsSound, TableSound, Exists
  <2>3. r.serial \in 0..MaxSerial /\ r.serial # 0
    BY <2>2, RowFields, MessagesAssumption
  <2> QED
    BY <2>1, <2>2, <2>3 DEF Seen
<1>3. \A id \in Ids : Seen(id) => rows[id] \in Readable
  BY DEF Readable, Seen
<1>4. \A r, q \in Readable : r.serial = q.serial => r = q
  BY DEF Readable, MessagesInv, SerialsSound
<1> QED
  BY <1>1, <1>2, <1>3, <1>4

\* A page of history is of messages the table has.
LEMMA PastAnswered ==
  ASSUME MessagesInv, TableSound, NEW before
  PROVE  PastWaits(get_messages(before))
<1>1. \A r \in get_messages(before) : r \in Readable /\ r.kind \in Renderable
  BY DEF get_messages, Newest
<1> QED
  BY <1>1, ReadableRows DEF PastWaits, Current

\* A page of the stream has all there is up to its last row, and is empty or the last one
\* only where nothing is left.
LEMMA PageAnswered ==
  ASSUME MessagesInv, TableSound, NEW n \in Nat, n <= top_serial
  PROVE  PageWaits(sync_messages(n), n)
<1> DEFINE A == Above(n)
           Before(r) == {o \in A : o.serial < r.serial}
           page == {r \in A : Cardinality(Before(r)) < SyncLimit}
           d == Reach(page, n)
<1>0. /\ SyncLimit \in Nat /\ SyncLimit # 0 /\ top_serial \in Nat /\ MaxSerial \in Nat
      /\ sync_messages(n).page = page /\ sync_messages(n).more = (Cardinality(A) > SyncLimit)
  BY RoomSyncAssumption, MessagesAssumption DEF sync_messages, MessagesInv, TableTyped
<1>1. \A r \in A : r \in Readable /\ r.serial \in Nat /\ n < r.serial
  BY ReadableRows, MessagesAssumption DEF Above
<1>2. IsFiniteSet(A) /\ Cardinality(A) \in Nat
  <2>1. A \in SUBSET Readable
    BY DEF Above
  <2> QED
    BY <2>1, ReadableRows, FS_Subset, FS_CardinalityType
<1>3. \A r \in A : Before(r) \in SUBSET (A \ {r})
  BY <1>1
<1>4. \A r \in A : Cardinality(Before(r)) < Cardinality(A) /\ Cardinality(Before(r)) \in Nat
  BY <1>2, <1>3, FewerBefore
<1>5. ASSUME ~(Cardinality(A) > SyncLimit) PROVE page = A
  BY <1>0, <1>2, <1>4, <1>5
<1>6. page = {} => A = {}
  <2> SUFFICES ASSUME A # {} PROVE page # {}
    OBVIOUS
  <2> DEFINE S == {r.serial : r \in A}
  <2>1. S \in SUBSET Nat /\ S # {}
    BY <1>1
  <2>2. PICK m \in S : \A y \in S : m <= y
    BY <2>1, LeastSerial
  <2>3. PICK r \in A : r.serial = m
    BY <2>2
  <2>4. \A o \in A : ~(o.serial < r.serial)
    <3>1. \A o \in A : o.serial \in S
      OBVIOUS
    <3> HIDE DEF S, A
    <3> QED
      BY <1>1, <2>2, <2>3, <3>1
  <2>5. Before(r) = {}
    BY <2>4
  <2>6. Cardinality(Before(r)) < SyncLimit
    BY <1>0, <2>5, FS_EmptySet
  <2> QED
    BY <2>6
<1>7. page = {} => ~(Cardinality(A) > SyncLimit)
  BY <1>0, <1>6, FS_EmptySet
<1>8. /\ d \in Nat /\ n <= d /\ d <= top_serial
      /\ \A r \in page : r.serial <= d
      /\ \A id \in Ids : Seen(id) /\ n < rows[id].serial /\ rows[id].serial <= d => rows[id] \in page
  <2>1. CASE page = {}
    <3>1. d = n
      BY <2>1 DEF Reach
    <3> HIDE DEF page, d
    <3>2. \A id \in Ids : Seen(id) => rows[id].serial \in Nat
      BY ReadableRows, MessagesAssumption
    <3>3. ASSUME NEW id \in Ids, Seen(id), n < rows[id].serial, rows[id].serial <= d PROVE FALSE
      <4>1. rows[id].serial \in Nat
        BY <3>2, <3>3
      <4> HIDE <3>2
      <4> QED
        BY <3>1, <3>3, <4>1
    <3>4. d \in Nat /\ n <= d /\ d <= top_serial
      BY <1>0, <3>1
    <3> QED
      BY <2>1, <3>3, <3>4
  <2>2. CASE page # {}
    <3> DEFINE S == {e.serial : e \in page}
    <3>1. S \in SUBSET (0..MaxSerial) /\ S # {}
      <4>1. \A r \in page : r \in A
        OBVIOUS
      <4> HIDE DEF page, A
      <4> QED
        BY <1>1, <2>2, <4>1, ReadableRows
    <3>2. Max(S) \in S /\ (\A y \in S : y <= Max(S)) /\ d = Max(S)
      BY <1>0, <2>2, <3>1, HighestSerial DEF Reach
    <3>3. PICK q \in page : d = q.serial
      BY <3>2
    <3>4. \A r \in page : r.serial <= d
      <4>1. \A r \in page : r.serial \in S
        OBVIOUS
      <4> QED
        BY <3>2, <4>1
    <3>5. d \in Nat /\ n < d /\ d <= top_serial /\ q \in A /\ Cardinality(Before(q)) < SyncLimit
      BY <1>1, <3>3, ReadableRows
    <3>6. ASSUME NEW id \in Ids, Seen(id), n < rows[id].serial, rows[id].serial <= d PROVE rows[id] \in page
      <4>1. rows[id] \in A
        BY <3>6, ReadableRows DEF Above
      <4>2. \A o \in Before(rows[id]) : o \in Before(q)
        <5> SUFFICES ASSUME NEW o \in A, o.serial < rows[id].serial PROVE o.serial < q.serial
          OBVIOUS
        <5>1. o.serial \in Nat /\ rows[id].serial \in Nat
          BY <1>1, <4>1
        <5> QED
          BY <3>3, <3>5, <3>6, <5>1
      <4>3. IsFiniteSet(Before(q)) /\ Cardinality(Before(q)) \in Nat
        BY <1>2, <1>3, <1>4, <3>5, FS_Subset
      <4>4. Cardinality(Before(rows[id])) <= Cardinality(Before(q))
        <5>1. Before(rows[id]) \in SUBSET Before(q)
          BY <4>2
        <5> HIDE DEF Before
        <5> QED
          BY <4>3, <5>1, FS_Subset
      <4>5. Cardinality(Before(rows[id])) \in Nat
        BY <1>4, <4>1
      <4>6. Cardinality(Before(rows[id])) < SyncLimit
        BY <1>0, <3>5, <4>3, <4>4, <4>5
      <4> QED
        BY <4>1, <4>6
    <3>7. n <= d
      BY <3>5
    <3> HIDE DEF d, page
    <3> QED
      BY <3>4, <3>5, <3>6, <3>7
  <2> QED
    BY <2>1, <2>2
<1>9. PageSound(page, n, d)
  <2>1. \A r \in page : r \in A
    OBVIOUS
  <2> HIDE DEF page, d, A
  <2>2. \A r \in page : Current(r, d) /\ r \in Readable /\ n < r.serial
    BY <1>1, <2>1, ReadableRows DEF Current
  <2> QED
    BY <1>8, <2>2, ReadableRows DEF PageSound
<1>10. ASSUME ~(Cardinality(A) > SyncLimit), NEW id \in Ids, Seen(id)
       PROVE  rows[id].serial <= d
  <2>1. rows[id].serial \in Nat /\ rows[id] \in Readable
    BY <1>10, ReadableRows, MessagesAssumption
  <2>2. CASE rows[id].serial > n
    <3>1. rows[id] \in page
      BY <1>5, <1>10, <2>1, <2>2 DEF Above
    <3> HIDE DEF page, d
    <3> QED
      BY <1>8, <3>1
  <2>3. CASE ~(rows[id].serial > n)
    <3> HIDE DEF page, d
    <3> QED
      BY <1>8, <2>1, <2>3
  <2> QED
    BY <2>2, <2>3
<1> DEFINE a == sync_messages(n)
<1>11. a.page = page /\ a.more = (Cardinality(A) > SyncLimit) /\ Reach(a.page, n) = d
  BY <1>0, Zenon
<1> HIDE DEF A, page, d, Before, a
<1>12. a.more \in BOOLEAN /\ (a.page = {} => ~a.more)
  <2>1. sync_messages(n).more \in BOOLEAN
    BY SMT DEF sync_messages
  <2>2. a.page = {} => ~a.more
    BY <1>7, <1>11, Zenon
  <2> QED
    BY <2>1, <2>2 DEF a
<1>13. ~a.more => \A id \in Ids : Seen(id) => rows[id].serial <= d
  BY <1>10, <1>11
<1>14. PageWaits(a, n)
  BY <1>9, <1>11, <1>12, <1>13 DEF PageWaits
<1> QED
  BY <1>14 DEF a

\* The cache has the room when it takes every row and every reaction.
CacheFits(st) ==
    /\ Room(st) /\ ~(Cardinality(Held(st)) > MaxRows)
    /\ \A id \in Ids : st.reactions[id] = {} \/ st.messages[id] # None
ReadsAs(s, st) ==
    /\ s.messages = st.messages /\ s.reactions = st.reactions /\ s.more = st.more
    /\ st.more \in BOOLEAN /\ \A z : z = [s EXCEPT !.cursor = 0] => Room(z)
Holds(c, st) == c.kept = TRUE /\ c.rows \subseteq Rows /\ c.more = st.more

\* Such a room is read back from its cache as it was, but for the cursor.
LEMMA CacheHolds ==
  ASSUME NEW st, CacheFits(st), NEW p
  PROVE  Holds(to_cached(st), st) /\ ReadsAs(from_cached(to_cached(st), p), st)
<1> PICK s : s = from_cached(to_cached(st), p)
  OBVIOUS
<1> USE DEF CacheFits
<1> DEFINE H == Held(st)
<1>0. /\ st.messages \in [Ids -> Rows \cup {None}] /\ st.reactions \in [Ids -> SUBSET Users] /\ st.more \in BOOLEAN
      /\ \A id \in Ids : st.messages[id] # None => st.messages[id].id = id
      /\ \A id \in Ids : id > minted => st.reactions[id] = {}
      /\ MaxRows \in Nat
  BY RoomSyncAssumption DEF Room, RoomStates
<1>1. /\ \A r \in H : r \in Rows /\ r.id \in Ids /\ r = st.messages[r.id] /\ r # None
      /\ \A id \in Ids : st.messages[id] # None => st.messages[id] \in H
      /\ \A r \in H : r.at \in Nat /\ r.serial \in Nat
  <2>1. \A r \in Rows : r.id \in Ids /\ r # None /\ r.at \in Nat /\ r.serial \in Nat
    <3> SUFFICES ASSUME NEW r \in Rows PROVE r.id \in Ids /\ r # None /\ r.at \in Nat /\ r.serial \in Nat
      OBVIOUS
    <3>1. r # None /\ r.serial \in Nat
      BY RowFields, MessagesAssumption
    <3>2. r.id \in Ids /\ r.at \in Clock
      BY DEF Rows
    <3> QED
      BY <3>1, <3>2, MessagesAssumption
  <2> QED
    BY <1>0, <2>1 DEF Held
<1>2. IsFiniteSet(H)
  BY FinitelyMany DEF Held
<1>3. Newest(H, MaxRows) = H
  <2>1. ASSUME NEW r \in H PROVE Cardinality({o \in H : Later(o, r)}) < MaxRows
    <3> DEFINE B == {o \in H : Later(o, r)}
    <3>1. B \in SUBSET (H \ {r})
      BY <1>1 DEF Later
    <3> HIDE DEF B
    <3>2. Cardinality(B) < Cardinality(H) /\ Cardinality(B) \in Nat /\ Cardinality(H) \in Nat
      BY <1>2, <3>1, FewerBefore
    <3> QED
      BY <1>0, <3>2 DEF B
  <2> HIDE DEF H
  <2> QED
    BY <2>1 DEF Newest
<1> DEFINE c == to_cached(st)
           Told(id) == IF \E r \in H : r.id = id THEN st.reactions[id] ELSE {}
<1>4. c.rows = H /\ c.more = st.more /\ c.kept = TRUE /\ c.reactions = [id \in Ids |-> Told(id)]
  BY <1>3 DEF to_cached
<1> HIDE DEF c, H
<1>5. c.reactions = st.reactions
  <2>1. ASSUME NEW id \in Ids PROVE Told(id) = st.reactions[id]
    <3>1. (\E r \in H : r.id = id) \/ st.reactions[id] = {}
      BY <1>0, <1>1
    <3> QED
      BY <3>1
  <2> HIDE DEF Told
  <2> QED
    BY <1>0, <1>4, <2>1
<1>6. merge_history(Fresh, H).messages = st.messages
  <2>1. merge_history(Fresh, H).messages =
          [id \in Ids |-> IF \E r \in H : r.id = id THEN CHOOSE r \in H : r.id = id ELSE None]
    BY DEF merge_history, Fresh
  <2>2. ASSUME NEW id \in Ids
        PROVE  (IF \E r \in H : r.id = id THEN CHOOSE r \in H : r.id = id ELSE None) = st.messages[id]
    <3>1. CASE \E r \in H : r.id = id
      <4> DEFINE q == CHOOSE r \in H : r.id = id
      <4>1. q \in H /\ q.id = id
        BY <3>1
      <4> HIDE DEF q
      <4>2. q = st.messages[id]
        BY <1>1, <4>1
      <4> QED
        BY <3>1, <4>2 DEF q
    <3>2. CASE ~\E r \in H : r.id = id
      BY <1>0, <1>1, <3>2
    <3> QED
      BY <3>1, <3>2
  <2> QED
    BY <1>0, <2>1, <2>2
<1>7. s = [messages |-> st.messages, reactions |-> st.reactions,
           cursor |-> Max({p} \cup {r.serial : r \in H}), more |-> st.more]
  BY <1>4, <1>5, <1>6 DEF from_cached, c
<1>8. s.messages = st.messages /\ s.reactions = st.reactions /\ s.more = st.more
  BY <1>7
<1>9. ASSUME NEW z, z = [s EXCEPT !.cursor = 0] PROVE Room(z)
  <2>1. z = [messages |-> st.messages, reactions |-> st.reactions, cursor |-> 0, more |-> st.more]
    BY <1>7, <1>9
  <2> QED
    BY <1>0, <2>1 DEF Room, RoomStates
<1> QED
  BY <1>0, <1>1, <1>4, <1>8, <1>9 DEF c, Holds, ReadsAs

\* The cursor of a cache that is read is at least the saved one.
LEMMA RestoredReaches ==
  ASSUME NEW n \in Nat, NEW cached, cached.rows \subseteq Rows, NEW s, s = from_cached(cached, n)
  PROVE  s.cursor \in Nat /\ n <= s.cursor
<1> DEFINE S == {n} \cup {r.serial : r \in cached.rows}
<1>1. s.cursor = Max(S)
  BY DEF from_cached
<1>2. \A r \in cached.rows : r.serial \in 0..MaxSerial
  BY RowFields, MessagesAssumption
<1>3. n + MaxSerial \in Nat /\ S \in SUBSET (0..(n + MaxSerial)) /\ S # {} /\ n \in S
  BY <1>2, MessagesAssumption
<1> HIDE DEF S
<1>4. Max(S) \in S /\ \A y \in S : y <= Max(S)
  BY <1>3, HighestSerial
<1>5. n <= Max(S) /\ Max(S) \in 0..(n + MaxSerial)
  BY <1>3, <1>4
<1>6. \A m \in 0..(n + MaxSerial) : m \in Nat
  BY <1>3
<1> QED
  BY <1>1, <1>5, <1>6

-----------------------------------------------------------------------------
(***************************************************************************)
(* The client's steps.                                                      *)
(***************************************************************************)

\* The server rests while the client moves.
LEMMA ServerRests ==
  ASSUME MessagesInv, TableSound, UNCHANGED server
  PROVE  Grows
<1>1. MessagesInv'
  BY MessagesStep
<1>2. TableSound'
  BY DEF TableSound, server, Exists
<1>3. Moved
  <2>1. minted \in Nat /\ top_serial \in Nat
    BY MessagesAssumption DEF MessagesInv, TableTyped
  <2>2. minted <= minted' /\ top_serial <= top_serial' /\ minted' \in Nat /\ top_serial' \in Nat
    BY <2>1 DEF server
  <2>3. \A id \in Ids : Same(id)
    BY DEF Same, server
  <2> QED
    BY <2>1, <2>2, <2>3 DEF Moved
<1> QED
  BY <1>1, <1>2, <1>3 DEF Grows

\* What a task may be when it is the only one.
JobFits(k) ==
    /\ k.step \in {"sync", "page"} => k.since \in 0..room.cursor /\ UpTo(room, k.since)
    /\ k.step \notin {"sync", "page"} => UpTo(room, room.cursor)
    /\ k.step = "page" => PageWaits(k.answer, k.since)
    /\ k.step = "past" => PastWaits(k.answer)
    /\ k.step \in {"history", "past"} =>
         IF k.drain THEN k.since \in 0..room.cursor /\ ~disk.kept ELSE room # Fresh
Others(j) == \A o \in Jobs : o # j => Is(o, "idle")

\* A task that is under way is the only one, and fits.
LEMMA JobFitsNow ==
  ASSUME JobsSound, NEW j \in Jobs, ~Is(j, "idle") \/ Others(j)
  PROVE  JobFits(job[j]) /\ Others(j)
<1>1. Others(j)
  BY DEF JobsSound, Others
<1>2. ~Is(j, "sync") /\ ~Is(j, "page") => UpTo(room, room.cursor)
  BY <1>1 DEF JobsSound, Others, Is
<1> QED
  BY <1>1, <1>2 DEF JobsSound, JobFits, Is

\* The only task goes on to what fits.
LEMMA JobFitsNext ==
  ASSUME DOMAIN job = Jobs, NEW j \in Jobs, Others(j), NEW k, job' = [job EXCEPT ![j] = k], JobFits(k)'
  PROVE  JobsSound' /\ DOMAIN job' = Jobs
<1>1. job'[j] = k /\ \A o \in Jobs : o # j => job'[o].step = "idle"
  BY DEF Others, Is
<1>2. \A o \in Jobs : o = j \/ (job'[o].step \notin {"sync", "page", "past", "history"} /\ job'[o].step = "idle")
  BY <1>1
<1>3. \A i, o \in Jobs : ~Is(i, "idle")' /\ ~Is(o, "idle")' => i = o
  BY <1>2 DEF Is
<1>4. \A o \in Jobs : Is(o, "sync")' \/ Is(o, "page")' => job'[o].since \in 0..room'.cursor /\ UpTo(room, job[o].since)'
  BY <1>1, <1>2 DEF Is, JobFits
<1>5. (\A o \in Jobs : ~Is(o, "sync")' /\ ~Is(o, "page")') => UpTo(room, room.cursor)'
  BY <1>1 DEF Is, JobFits
<1>6. \A o \in Jobs : Is(o, "page")' => PageWaits(job[o].answer, job[o].since)'
  BY <1>1, <1>2 DEF Is, JobFits
<1>7. \A o \in Jobs : Is(o, "past")' => PastWaits(job[o].answer)'
  BY <1>1, <1>2 DEF Is, JobFits
<1>8. \A o \in Jobs : Is(o, "history")' \/ Is(o, "past")' =>
        IF job'[o].drain THEN job'[o].since \in 0..room'.cursor /\ ~disk'.kept ELSE room' # Fresh
  BY <1>1, <1>2 DEF Is, JobFits
<1> QED
  BY <1>3, <1>4, <1>5, <1>6, <1>7, <1>8 DEF JobsSound

\* A slip that is noted while none may be did not happen.
LEMMA NoSlip ==
  ASSUME slips' = {}, NEW kinds, Slip(kinds)
  PROVE  kinds = {}
BY DEF Slip

\* A task that starts with no overlap noted is the only one.
LEMMA NoOverlap ==
  ASSUME NEW j \in Jobs, Overlap(j) = {}
  PROVE  Others(j)
BY DEF Overlap, When, Others

\* The room told to where it stands is told to anywhere before.
LEMMA ToldBehind ==
  ASSUME MessagesInv, UpTo(room, room.cursor), room.cursor \in Nat, NEW n \in 0..room.cursor
  PROVE  UpTo(room, n)
BY UpToBehind

\* A task begins or ends, and nothing else is different.
LEMMA JobOnly ==
  ASSUME MessagesInv, TableSound, ClientSound, NEW j \in Jobs, Others(j), NEW k, Now(j, k),
         UNCHANGED <<server, room, disk, saved, handle, echo>>, JobFits(k)'
  PROVE  ClientSound'
<1>0. Grows
  BY ServerRests DEF server
<1>1. JobsSound' /\ DOMAIN job' = Jobs
  BY JobFitsNext DEF Now, ClientSound, ClientTyped
<1>2. Room(room)' /\ top_serial' = top_serial
  BY <1>0, RoomStays DEF ClientSound, ClientTyped, server
<1>3. ClientTyped'
  BY <1>1, <1>2 DEF ClientSound, ClientTyped
<1> QED
  BY <1>0, <1>1, <1>3, EchoStays, DiskStays DEF ClientSound

\* What the room is told it is told while the server rests.
LEMMA ToldStays ==
  ASSUME Grows, ClientSound, NEW n \in 0..room.cursor, UpTo(room, n), room' = room
  PROVE  UpTo(room, n)'
<1>1. n \in Nat /\ n <= top_serial
  BY TablesTyped DEF ClientSound, ClientTyped
<1>2. ReactsToNothingElse(room)
  BY DEF ClientSound, ClientTyped, Room, ReactsToNothingElse
<1> QED
  BY <1>1, <1>2, UpToStays

\* A wake-up drains from a cursor the room has been told to.
LEMMA WakeKeeps ==
  ASSUME MessagesInv, TableSound, ClientSound, slips' = {}, NEW j \in Jobs, Wake(j)
  PROVE  ClientSound'
<1>0. Grows
  BY ServerRests DEF Wake, server
<1>1. Others(j) /\ Is(j, "idle")
  BY NoSlip, NoOverlap DEF Wake
<1>2. JobFits(job[j])
  BY <1>1, JobFitsNow DEF ClientSound
<1>3. UpTo(room, room.cursor)
  BY <1>1, <1>2 DEF JobFits, Is
<1>4. handle \in 0..room.cursor /\ room.cursor \in Nat /\ handle \in Nat
  BY DEF ClientSound, ClientTyped
<1>5. UpTo(room, handle)'
  BY <1>0, <1>3, <1>4, ToldBehind, ToldStays DEF Wake
<1>k. PICK k : k = Drain(handle)
  OBVIOUS
<1>6. k.step = "sync" /\ k.since = handle
  BY <1>k DEF Drain
<1>7. JobFits(k)'
  BY <1>4, <1>5, <1>6 DEF JobFits, Wake
<1> QED
  BY <1>1, <1>7, <1>k, JobOnly DEF Wake

\* Older rows are asked for.
LEMMA LoadOlderKeeps ==
  ASSUME MessagesInv, TableSound, ClientSound, slips' = {}, NEW j \in Jobs, LoadOlder(j)
  PROVE  ClientSound'
<1>0. Grows
  BY ServerRests DEF LoadOlder, server
<1>1. Others(j) /\ Is(j, "idle")
  BY NoSlip, NoOverlap DEF LoadOlder
<1>2. JobFits(job[j])
  BY <1>1, JobFitsNow DEF ClientSound
<1>3. UpTo(room, room.cursor) /\ room.cursor \in Nat
  BY <1>1, <1>2 DEF JobFits, Is, ClientSound, ClientTyped
<1>4. room.cursor \in 0..room.cursor
  BY <1>3
<1>5. UpTo(room, room.cursor)'
  BY <1>0, <1>3, <1>4, ToldStays DEF LoadOlder
<1>6. room # Fresh
  BY DEF LoadOlder, Held, Fresh
<1>k. PICK k : k = [step |-> "history", before |-> oldest_timestamp(room), since |-> 0, drain |-> FALSE]
  OBVIOUS
<1>7. k.step = "history" /\ k.drain = FALSE
  BY <1>k
<1>8. JobFits(k)'
  BY <1>5, <1>6, <1>7 DEF JobFits, LoadOlder
<1> QED
  BY <1>1, <1>8, <1>k, JobOnly DEF LoadOlder

\* A task that fails leaves the room told to its cursor, unless it was a replay cut short.
LEMMA FailKeeps ==
  ASSUME MessagesInv, TableSound, ClientSound, slips' = {}, NEW j \in Jobs, Fail(j)
  PROVE  ClientSound'
<1>0. Grows
  BY ServerRests DEF Fail, server
<1>1. Others(j) /\ JobFits(job[j])
  BY JobFitsNow DEF ClientSound, Fail
<1>2. Cut({j}) = {}
  BY NoSlip DEF Fail
<1>3. ~(job[j].step \in {"sync", "page"} /\ job[j].since < room.cursor)
  BY <1>2 DEF Cut, When
<1>4. room.cursor \in Nat /\ room.cursor \in 0..room.cursor
  BY DEF ClientSound, ClientTyped
<1>5. UpTo(room, room.cursor)
  <2>1. CASE job[j].step \in {"sync", "page"}
    <3>1. job[j].since \in 0..room.cursor /\ UpTo(room, job[j].since)
      BY <1>1, <2>1 DEF JobFits
    <3>2. job[j].since = room.cursor
      BY <1>3, <1>4, <2>1, <3>1
    <3> QED
      BY <3>1, <3>2
  <2>2. CASE job[j].step \notin {"sync", "page"}
    BY <1>1, <2>2 DEF JobFits
  <2> QED
    BY <2>1, <2>2
<1>6. UpTo(room, room.cursor)'
  BY <1>0, <1>4, <1>5, ToldStays DEF Fail
<1>7. JobFits(Quiet)'
  BY <1>6 DEF JobFits, Quiet, Fail
<1> QED
  BY <1>1, <1>7, JobOnly DEF Fail

\* An answer is sound when it is read.
LEMMA AnswerKeeps ==
  ASSUME MessagesInv, TableSound, ClientSound, NEW j \in Jobs, Answer(j)
  PROVE  ClientSound'
<1>0. Grows /\ UNCHANGED <<server, room, disk, saved, handle, echo>>
  BY ServerRests DEF Answer, server
<1>1. ~Is(j, "idle")
  BY DEF Answer, Is
<1>2. Others(j) /\ JobFits(job[j])
  BY <1>1, JobFitsNow DEF ClientSound
<1>3. room.cursor \in Nat /\ room.cursor \in 0..room.cursor /\ room.cursor <= top_serial /\ top_serial \in Nat
  BY TablesTyped, <1>0 DEF ClientSound, ClientTyped
<1>4. CASE Is(j, "sync")
  <2>1. PICK n : n = job[j].since
    OBVIOUS
  <2>2. PICK k : k = [step |-> "page", since |-> n, answer |-> sync_messages(n)]
    OBVIOUS
  <2>3. Now(j, k)
    BY <1>4, <2>1, <2>2 DEF Answer, Is
  <2>4. n \in 0..room.cursor /\ UpTo(room, n)
    BY <1>2, <1>4, <2>1 DEF JobFits, Is
  <2>5. UpTo(room, n)'
    BY <1>0, <2>4, ToldStays
  <2>6. PICK a : a = sync_messages(n)
    OBVIOUS
  <2>7. PageWaits(a, n)'
    <3>1. n \in Nat /\ n <= top_serial
      BY <1>3, <2>4
    <3>2. PageWaits(a, n)
      BY <2>6, <3>1, PageAnswered
    <3> QED
      BY <1>0, <3>2, PageWaitsStays
  <2>8. k.step = "page" /\ k.since = n /\ k.answer = a
    BY <2>2, <2>6
  <2>9. JobFits(k)'
    BY <1>0, <2>4, <2>5, <2>7, <2>8 DEF JobFits
  <2> QED
    BY <1>0, <1>2, <2>3, <2>9, JobOnly
<1>5. CASE Is(j, "history")
  <2>1. PICK old : old = job[j]
    OBVIOUS
  <2>2. PICK a : a = get_messages(old.before)
    OBVIOUS
  <2>3. PICK k : k = [step |-> "past", since |-> old.since, drain |-> old.drain, answer |-> a]
    OBVIOUS
  <2>4. Now(j, k)
    BY <1>5, <2>1, <2>2, <2>3 DEF Answer, Is
  <2>5. UpTo(room, room.cursor) /\ IF old.drain THEN old.since \in 0..room.cursor /\ ~disk.kept ELSE room # Fresh
    BY <1>2, <1>5, <2>1 DEF JobFits, Is
  <2>6. UpTo(room, room.cursor)'
    BY <1>0, <1>3, <2>5, ToldStays
  <2>7. PastWaits(a)'
    <3>1. PastWaits(a)
      BY <2>2, PastAnswered
    <3> QED
      BY <1>0, <3>1, PastWaitsStays
  <2>8. k.step = "past" /\ k.since = old.since /\ k.drain = old.drain /\ k.answer = a
    BY <2>3
  <2>9. JobFits(k)'
    BY <1>0, <2>5, <2>6, <2>7, <2>8 DEF JobFits
  <2> QED
    BY <1>0, <1>2, <2>4, <2>9, JobOnly
<1> QED
  BY <1>4, <1>5 DEF Answer

\* A room that is not there shows nothing, and everything is still to be told.
LEMMA FreshRoom ==
  ASSUME MessagesInv
  PROVE  Room(Fresh) /\ UpTo(Fresh, 0) /\ Fresh.cursor = 0 /\ Held(Fresh) = {}
<1>1. \A id \in Ids : Seen(id) => rows[id].serial > 0
  BY RowFields, MessagesAssumption DEF MessagesInv, TableTyped, Seen, Exists
<1>2. MessagesUpTo(Fresh, 0)
  BY <1>1, Kinds DEF MessagesUpTo, Owed, Shown, Fresh
<1>3. ReactionsUpTo(Fresh, 0)
  <2> SUFFICES ASSUME NEW id \in Ids, NEW u \in Users, ~\E e \in EventsOf(id, u) : rows[e].serial > 0
               PROVE  u \in Fresh.reactions[id] <=> Reacts(id, u)
    BY DEF ReactionsUpTo
  <2>1. EventsOf(id, u) = {}
    BY <1>1 DEF EventsOf
  <2> QED
    BY <2>1 DEF Reacts, Fresh
<1>4. Room(Fresh)
  BY DEF Room, RoomStates, Fresh
<1> QED
  BY <1>2, <1>3, <1>4 DEF UpTo, Held, Fresh

\* What is on disk is a room.
LEMMA RestoredRoom ==
  ASSUME ClientSound, disk.kept
  PROVE  /\ Restored \in [messages : [Ids -> Rows \cup {None}], reactions : [Ids -> SUBSET Users],
                          cursor : Nat, more : BOOLEAN]
         /\ Room(Restored) /\ ReactsToNothingElse(Restored) /\ saved \in Nat /\ saved <= Restored.cursor
<1>1. Room([Restored EXCEPT !.cursor = 0]) /\ disk.rows \subseteq Rows /\ saved \in Nat
  BY DEF ClientSound, DiskSound, ClientTyped
<1>2. Restored.cursor \in Nat /\ saved <= Restored.cursor
  BY <1>1, RestoredReaches DEF Restored
<1>3. PICK s : s = Restored
  OBVIOUS
<1>4. s = [messages |-> s.messages, reactions |-> s.reactions, cursor |-> s.cursor, more |-> s.more]
  BY <1>3 DEF Restored, from_cached
<1>5. [s EXCEPT !.cursor = 0] =
        [messages |-> s.messages, reactions |-> s.reactions, cursor |-> 0, more |-> s.more]
  BY <1>4
<1>6. PICK z : z = [messages |-> s.messages, reactions |-> s.reactions, cursor |-> 0, more |-> s.more]
  OBVIOUS
<1>7. Room(z)
  BY <1>1, <1>3, <1>5, <1>6
<1>8. s.messages = z.messages /\ s.reactions = z.reactions /\ s.more = z.more /\ s.cursor \in Nat
  BY <1>2, <1>3, <1>6
<1>9. s \in RoomStates /\ Room(s)
  BY <1>4, <1>7, <1>8 DEF Room, RoomStates
<1> QED
  BY <1>1, <1>2, <1>3, <1>9 DEF Room, RoomStates, ReactsToNothingElse

\* A room is opened from memory, from its cache or from nothing.
LEMMA OpenKeeps ==
  ASSUME MessagesInv, TableSound, ClientSound, slips' = {}, NEW j \in Jobs, Open(j)
  PROVE  ClientSound'
<1> DEFINE since == Larger(room.cursor, saved)
<1>0. Grows /\ UNCHANGED <<server, disk, saved, handle, echo>>
  BY ServerRests DEF Open, server
<1>1. Overlap(j) = {} /\ ~(room'.cursor > since) /\ Is(j, "idle")
  BY NoSlip DEF Open, When
<1>2. Others(j) /\ JobFits(job[j])
  BY <1>1, NoOverlap, JobFitsNow DEF ClientSound
<1>3. UpTo(room, room.cursor) /\ Room(room) /\ room.cursor \in Nat /\ saved \in Nat /\ room.cursor \in 0..room.cursor
      /\ room.cursor <= top_serial /\ saved <= top_serial /\ top_serial \in Nat /\ handle \in 0..room.cursor
  BY <1>0, <1>1, <1>2, TablesTyped DEF JobFits, Is, ClientSound, ClientTyped
<1>4. room # Fresh => saved = room.cursor
  BY DEF ClientSound, DiskSound
<1>5. Held(Fresh) = {} /\ Fresh.cursor = 0
  BY FreshRoom
<1>6. CASE Held(room) # {}
  <2>1. since = room.cursor
    BY <1>3, <1>4, <1>5, <1>6 DEF Larger
  <2>2. PICK k : k = Drain(room.cursor)
    OBVIOUS
  <2>3. Now(j, k) /\ room' = room
    BY <1>6, <2>1, <2>2 DEF Open
  <2>4. UpTo(room, room.cursor)'
    BY <1>0, <1>3, <2>3, ToldStays
  <2>5. k.step = "sync" /\ k.since = room.cursor
    BY <2>2 DEF Drain
  <2>6. JobFits(k)'
    BY <1>3, <2>3, <2>4, <2>5 DEF JobFits
  <2> QED
    BY <1>0, <1>2, <2>3, <2>6, JobOnly
<1>7. CASE Held(room) = {} /\ disk.kept
  <2>1. PICK s : s = Restored
    OBVIOUS
  <2>2. room' = s /\ Now(j, Drain(since))
    BY <1>7, <2>1 DEF Open, Restored
  <2>3. Room(s) /\ ReactsToNothingElse(s) /\ s.cursor \in Nat /\ saved <= s.cursor
    BY <1>7, <2>1, RestoredRoom DEF Room, RoomStates
  <2>4. since = saved /\ (room # Fresh => saved = room.cursor) /\ (room = Fresh => room.cursor = 0)
    BY <1>3, <1>4, <1>5 DEF Larger
  <2>5. s.cursor = saved
    BY <1>1, <1>3, <2>2, <2>3, <2>4
  <2>6. UpTo(s, saved)
    <3>1. CASE room = Fresh
      BY <1>7, <2>1, <3>1 DEF ClientSound, DiskSound
    <3>2. CASE room # Fresh
      <4>1. s.messages = room.messages /\ s.reactions = room.reactions
        BY <2>1, <3>2 DEF ClientSound, DiskSound
      <4> QED
        BY <1>3, <2>4, <3>2, <4>1, UpToShows
    <3> QED
      BY <3>1, <3>2
  <2>7. PICK n : n = saved
    OBVIOUS
  <2>8. UpTo(s, n)' /\ Room(s)'
    BY <1>0, <1>3, <2>3, <2>6, <2>7, UpToStays, RoomStays
  <2>9. PICK k : k = Drain(n)
    OBVIOUS
  <2>10. k.step = "sync" /\ k.since = n /\ Now(j, k)
    BY <2>2, <2>4, <2>7, <2>9 DEF Drain
  <2>11. JobFits(k)'
    <3>1. n \in 0..room'.cursor
      BY <1>3, <2>2, <2>5, <2>7
    <3> QED
      BY <2>2, <2>8, <2>10, <3>1 DEF JobFits
  <2>12. JobsSound' /\ DOMAIN job' = Jobs
    BY <1>2, <2>10, <2>11, JobFitsNext DEF Now, ClientSound, ClientTyped
  <2>13. ClientTyped'
    <3>1. handle \in 0..s.cursor /\ s.cursor \in 0..top_serial /\ saved \in 0..top_serial /\ top_serial' = top_serial
      BY <1>0, <1>3, <2>3, <2>4, <2>5 DEF server
    <3> QED
      BY <1>0, <2>2, <2>8, <2>12, <3>1 DEF ClientTyped
  <2>14. DiskSound'
    <3>1. Restored' = s
      BY <1>0, <2>1 DEF Restored
    <3>2. Room([Restored EXCEPT !.cursor = 0])'
      <4>1. PICK z : z = [s EXCEPT !.cursor = 0]
        OBVIOUS
      <4>2. Room(z)
        BY <2>1, <4>1, <1>7 DEF ClientSound, DiskSound
      <4>3. Room(z)'
        BY <1>0, <4>2, RoomStays
      <4> QED
        BY <3>1, <4>1, <4>3
    <3>3. disk'.rows \subseteq Rows /\ disk'.more \in BOOLEAN /\ disk'.kept /\ disk'.kept \in BOOLEAN
      BY <1>0, <1>7 DEF ClientSound, DiskSound
    <3>4. saved' = room'.cursor /\ room' = Restored' /\ UpTo(Restored, saved)'
      BY <1>0, <2>2, <2>5, <2>7, <2>8, <3>1
    <3> QED
      BY <3>2, <3>3, <3>4 DEF DiskSound
  <2> QED
    BY <1>0, <2>12, <2>13, <2>14, EchoStays DEF ClientSound
<1>8. CASE Held(room) = {} /\ ~disk.kept
  <2>1. saved = 0 /\ room.cursor = 0 /\ since = 0
    BY <1>5, <1>8 DEF ClientSound, DiskSound, Larger
  <2>2. PICK k : k = [step |-> "history", before |-> 0, since |-> 0, drain |-> TRUE]
    OBVIOUS
  <2>3. Now(j, k) /\ room' = room
    BY <1>8, <2>1, <2>2 DEF Open
  <2>4. UpTo(room, room.cursor)'
    BY <1>0, <1>3, <2>3, ToldStays
  <2>5. k.step = "history" /\ k.since = 0 /\ k.drain = TRUE
    BY <2>2
  <2>6. JobFits(k)'
    BY <1>0, <1>8, <2>1, <2>3, <2>4, <2>5 DEF JobFits
  <2> QED
    BY <1>0, <1>2, <2>3, <2>6, JobOnly
<1> QED
  BY <1>6, <1>7, <1>8

\* The tab is reopened: what is left is the cache.
LEMMA ReloadKeeps ==
  ASSUME MessagesInv, TableSound, ClientSound, slips' = {}, Reload
  PROVE  ClientSound'
<1>0. Grows /\ UNCHANGED <<server, disk, saved>> /\ room # Fresh /\ room' = Fresh /\ handle' = 0 /\ echo' = None
      /\ job' = [j \in Jobs |-> Quiet]
  BY ServerRests DEF Reload, server
<1>1. saved = room.cursor /\ Restored.messages = room.messages /\ Restored.reactions = room.reactions /\ disk.kept
      /\ saved \in Nat /\ saved <= top_serial /\ top_serial \in Nat /\ saved \in 0..top_serial
  BY <1>0, TablesTyped DEF ClientSound, DiskSound, ClientTyped
<1>2. \A j \in Jobs : ~(job[j].step \in {"sync", "page"} /\ job[j].since < room.cursor)
  <2>1. Cut(Jobs) = {}
    BY NoSlip DEF Reload
  <2> QED
    BY <2>1 DEF Cut, When
<1>3. UpTo(room, room.cursor)
  <2>1. CASE \E j \in Jobs : job[j].step \in {"sync", "page"}
    <3>1. PICK j \in Jobs : job[j].step \in {"sync", "page"}
      BY <2>1
    <3>2. job[j].since \in 0..room.cursor /\ UpTo(room, job[j].since)
      BY <3>1 DEF ClientSound, JobsSound, Is
    <3>3. job[j].since = room.cursor
      BY <1>1, <1>2, <3>1, <3>2
    <3> QED
      BY <3>2, <3>3
  <2>2. CASE ~\E j \in Jobs : job[j].step \in {"sync", "page"}
    BY <2>2 DEF ClientSound, JobsSound, Is
  <2> QED
    BY <2>1, <2>2
<1>4. PICK f : f = Fresh
  OBVIOUS
<1>5. Room(f)' /\ UpTo(f, 0)' /\ f.cursor = 0
  <2>1. Room(f) /\ UpTo(f, 0) /\ f.cursor = 0 /\ ReactsToNothingElse(f)
    BY <1>4, FreshRoom DEF Room, ReactsToNothingElse, Grows
  <2>2. 0 \in Nat /\ 0 <= top_serial
    BY <1>1
  <2> QED
    BY <1>0, <2>1, <2>2, UpToStays, RoomStays
<1>6. room' = f
  BY <1>0, <1>4
<1>7. ClientTyped'
  <2>1. top_serial' = top_serial /\ 0 \in 0..top_serial /\ 0 \in 0..0
    BY <1>0, <1>1 DEF server
  <2> QED
    BY <1>0, <1>1, <1>5, <1>6, <2>1 DEF ClientTyped
<1>8. JobsSound'
  <2>1. \A j \in Jobs : Is(j, "idle")'
    BY <1>0 DEF Is, Quiet
  <2> QED
    BY <1>5, <1>6, <2>1 DEF JobsSound, Is
<1>9. EchoSound'
  BY <1>0 DEF EchoSound
<1>10. DiskSound'
  <2>1. PICK s : s = Restored
    OBVIOUS
  <2>2. PICK n : n = saved
    OBVIOUS
  <2>3. Restored' = s /\ saved' = n
    BY <1>0, <2>1, <2>2 DEF Restored
  <2>4. ReactsToNothingElse(s) /\ UpTo(s, n)
    BY <1>1, <1>3, <2>1, <2>2, RestoredRoom, UpToShows
  <2>5. UpTo(s, n)'
    BY <1>0, <1>1, <2>2, <2>4, UpToStays
  <2>6. PICK z : z = [s EXCEPT !.cursor = 0]
    OBVIOUS
  <2>7. Room(z)'
    <3>1. Room(z)
      BY <1>1, <2>1, <2>6 DEF ClientSound, DiskSound
    <3> QED
      BY <1>0, <3>1, RoomStays
  <2>8. Room([Restored EXCEPT !.cursor = 0])' /\ UpTo(Restored, saved)'
    BY <2>3, <2>5, <2>6, <2>7
  <2> QED
    BY <1>0, <1>1, <2>8 DEF ClientSound, DiskSound
<1> QED
  BY <1>7, <1>8, <1>9, <1>10 DEF ClientSound

\* The cache takes the room, when neither a trim nor a full storage is noted.
LEMMA KeepIs ==
  ASSUME slips' = {}, NEW s, NEW kinds, Keep(s, kinds)
  PROVE  /\ disk' = to_cached(s) /\ kinds = {} /\ ~(Cardinality(Held(s)) > MaxRows)
         /\ \A id \in Ids : s.reactions[id] = {} \/ s.messages[id] # None
BY DEF Keep, Slip, When

\* A room told to the saved cursor is cached as it is.
LEMMA KeepSound ==
  ASSUME Grows, NEW s, Room(s), NEW p \in 0..top_serial, slips' = {}, NEW kinds, Keep(s, kinds),
         room' = s, saved' = p, s # Fresh => p = s.cursor, s = Fresh => UpTo(s, p)
  PROVE  DiskSound'
<1>0. p \in Nat /\ p <= top_serial /\ ReactsToNothingElse(s)
  BY TablesTyped DEF Room, ReactsToNothingElse
<1>1. disk' = to_cached(s) /\ ~(Cardinality(Held(s)) > MaxRows)
      /\ \A id \in Ids : s.reactions[id] = {} \/ s.messages[id] # None
  BY KeepIs
<1>2. PICK x : x = from_cached(to_cached(s), p)
  OBVIOUS
<1>3. PICK z : z = [x EXCEPT !.cursor = 0]
  OBVIOUS
<1>4. /\ to_cached(s).kept = TRUE /\ to_cached(s).rows \subseteq Rows /\ to_cached(s).more = s.more
      /\ x.messages = s.messages /\ x.reactions = s.reactions /\ x.more = s.more
      /\ s.more \in BOOLEAN /\ \A y : y = [x EXCEPT !.cursor = 0] => Room(y)
  <2>1. CacheFits(s)
    BY <1>1 DEF CacheFits
  <2>2. Holds(to_cached(s), s) /\ ReadsAs(from_cached(to_cached(s), p), s)
    BY <2>1, CacheHolds
  <2> QED
    BY <1>2, <2>2 DEF Holds, ReadsAs
<1>4a. Room(z)
  BY <1>3, <1>4
<1>5. Restored' = x
  BY <1>1, <1>2 DEF Restored
<1>6. Room(z)' /\ z = [Restored EXCEPT !.cursor = 0]'
  BY <1>4a, <1>5, <1>3, RoomStays
<1>7. s = Fresh => UpTo(x, p)'
  <2> SUFFICES ASSUME s = Fresh PROVE UpTo(x, p)'
    OBVIOUS
  <2>1. UpTo(x, p)
    BY <1>4, UpToShows
  <2>2. ReactsToNothingElse(x)
    BY <1>0, <1>4 DEF ReactsToNothingElse
  <2> QED
    BY <1>0, <2>1, <2>2, UpToStays
<1>8. Room([Restored EXCEPT !.cursor = 0])' /\ (room' = Fresh => UpTo(Restored, saved)')
  BY <1>5, <1>6, <1>7
<1>9. disk'.kept = TRUE /\ disk'.rows \subseteq Rows /\ disk'.more \in BOOLEAN
  BY <1>1, <1>4
<1>10. room' # Fresh => /\ saved' = room'.cursor /\ Restored'.messages = room'.messages
                        /\ Restored'.reactions = room'.reactions
  BY <1>4, <1>5
<1> QED
  BY <1>8, <1>9, <1>10 DEF DiskSound

\* History is merged: only rows the room lacks, and of those none that has been removed.
LEMMA TakeHistoryKeeps ==
  ASSUME MessagesInv, TableSound, ClientSound, slips' = {}, NEW j \in Jobs, TakeHistory(j)
  PROVE  ClientSound'
<1>0. Grows /\ UNCHANGED <<server, handle, echo, saved>>
  BY ServerRests DEF TakeHistory, History, server
<1>1. PICK old : old = job[j]
  OBVIOUS
<1>2. PICK page : page = old.answer
  OBVIOUS
<1>3. PICK k : k = IF old.drain THEN Drain(old.since) ELSE Quiet
  OBVIOUS
<1>4. PICK m : m = IF old.drain THEN Cardinality(page) >= HistoryLimit ELSE page # {}
  OBVIOUS
<1>5. PICK s : s = [merge_history(room, page) EXCEPT !.more = m]
  OBVIOUS
<1>6. Is(j, "past") /\ Now(j, k) /\ room' = s /\ Keep(s, {})
  BY <1>1, <1>2, <1>3, <1>4, <1>5 DEF TakeHistory, History
<1>7. Others(j) /\ JobFits(old)
  BY <1>1, <1>6, JobFitsNow DEF ClientSound, Is
<1>8. /\ UpTo(room, room.cursor) /\ PastWaits(page)
      /\ IF old.drain THEN old.since \in 0..room.cursor /\ ~disk.kept ELSE room # Fresh
  BY <1>1, <1>2, <1>6, <1>7 DEF JobFits, Is
<1>9. /\ Room(room) /\ room \in RoomStates /\ room.cursor \in Nat /\ room.cursor <= top_serial /\ top_serial \in Nat
      /\ room.cursor \in 0..top_serial /\ handle \in 0..room.cursor /\ room.cursor \in 0..room.cursor
  BY <1>0, TablesTyped DEF ClientSound, ClientTyped, Room
<1>10. saved = room.cursor
  <2>1. CASE room # Fresh
    BY <2>1 DEF ClientSound, DiskSound
  <2>2. CASE room = Fresh
    BY <1>0, <1>8, <2>2, FreshRoom DEF ClientSound, DiskSound, Grows
  <2> QED
    BY <2>1, <2>2
<1> DEFINE Merged(id) == IF room.messages[id] = None /\ \E r \in page : r.id = id
                         THEN CHOOSE r \in page : r.id = id ELSE room.messages[id]
<1>11. s \in RoomStates /\ s.cursor = room.cursor /\ s.reactions = room.reactions
       /\ s.messages = [id \in Ids |-> Merged(id)]
  <2>1. m \in BOOLEAN
    <3>1. (Cardinality(page) >= HistoryLimit) \in BOOLEAN /\ (page # {}) \in BOOLEAN
      BY SMT
    <3> QED
      BY <1>4, <3>1
  <2>2. ASSUME NEW id \in Ids PROVE Merged(id) \in Rows \cup {None}
    <3>1. CASE room.messages[id] = None /\ \E r \in page : r.id = id
      <4>1. (CHOOSE r \in page : r.id = id) \in page
        BY <3>1
      <4> QED
        BY <1>8, <3>1, <4>1 DEF PastWaits
    <3>2. CASE ~(room.messages[id] = None /\ \E r \in page : r.id = id)
      BY <1>9, <3>2 DEF RoomStates
    <3> QED
      BY <3>1, <3>2
  <2>3. merge_history(room, page) = [room EXCEPT !.messages = [id \in Ids |-> Merged(id)]]
    BY DEF merge_history
  <2> HIDE DEF Merged
  <2>4. PICK F : F = [id \in Ids |-> Merged(id)]
    OBVIOUS
  <2>5. F \in [Ids -> Rows \cup {None}]
    BY <2>2, <2>4
  <2>6. s = [[room EXCEPT !.messages = F] EXCEPT !.more = m]
    BY <1>5, <2>3, <2>4
  <2>7. s \in RoomStates /\ s.cursor = room.cursor /\ s.reactions = room.reactions /\ s.messages = F
    BY <1>9, <2>1, <2>5, <2>6 DEF RoomStates
  <2> QED
    BY <2>4, <2>7
<1>12. ASSUME NEW id \in Ids
       PROVE  \/ s.messages[id] = room.messages[id]
              \/ room.messages[id] = None /\ s.messages[id] \in page /\ s.messages[id].id = id
  <2>1. s.messages[id] = Merged(id)
    BY <1>11
  <2>2. CASE room.messages[id] = None /\ \E r \in page : r.id = id
    <3> DEFINE q == CHOOSE r \in page : r.id = id
    <3>1. q \in page /\ q.id = id
      BY <2>2
    <3> QED
      BY <2>1, <2>2, <3>1
  <2>3. CASE ~(room.messages[id] = None /\ \E r \in page : r.id = id)
    BY <2>1, <2>3
  <2> QED
    BY <2>2, <2>3
<1> HIDE DEF Merged
<1>13. Room(s)
  BY <1>9, <1>11, <1>12 DEF Room
<1>14. UpTo(s, room.cursor)
  <2>1. ASSUME NEW id \in Ids, ~Owed(id, room.cursor) PROVE s.messages[id] = Shown(id)
    <3>1. room.messages[id] = Shown(id)
      BY <1>8, <2>1 DEF UpTo, MessagesUpTo
    <3>2. ASSUME room.messages[id] = None, s.messages[id] \in page, s.messages[id].id = id PROVE FALSE
      <4> DEFINE r == s.messages[id]
      <4>1. r \in Rows /\ r.by \notin Blocked /\ r.kind \in Renderable /\ Current(r, room.cursor) /\ r # None
        BY <1>8, <3>2, RowFields DEF PastWaits
      <4>2. rows[id] = r
        BY <2>1, <3>2, <4>1 DEF Current, Owed
      <4>3. Shown(id) = r
        BY <4>1, <4>2 DEF Shown, Seen, Exists
      <4> QED
        BY <3>1, <3>2, <4>1, <4>3
    <3> QED
      BY <1>12, <3>1, <3>2
  <2> QED
    BY <1>8, <1>11, <2>1 DEF UpTo, MessagesUpTo, ReactionsUpTo
<1>15. DiskSound'
  BY <1>0, <1>6, <1>9, <1>10, <1>11, <1>13, <1>14, KeepSound
<1>16. PICK n : n = room.cursor
  OBVIOUS
<1>17. ReactsToNothingElse(s)
  BY <1>13 DEF Room, ReactsToNothingElse
<1>18. JobFits(k)'
  <2>1. CASE old.drain
    <3>1. k.step = "sync" /\ k.since = old.since
      BY <1>3, <2>1 DEF Drain
    <3>2. old.since \in Nat /\ old.since <= room.cursor /\ old.since <= top_serial
      BY <1>8, <1>9, <2>1
    <3>3. UpTo(s, old.since)
      BY <1>9, <1>14, <3>2, UpToBehind
    <3>4. UpTo(s, old.since)'
      BY <1>0, <1>17, <3>2, <3>3, UpToStays
    <3> QED
      BY <1>6, <1>8, <1>11, <2>1, <3>1, <3>4 DEF JobFits
  <2>2. CASE ~old.drain
    <3>1. k.step = "idle"
      BY <1>3, <2>2 DEF Quiet
    <3>2. UpTo(s, n)'
      BY <1>0, <1>9, <1>14, <1>16, <1>17, UpToStays
    <3> QED
      BY <1>6, <1>11, <1>16, <3>1, <3>2 DEF JobFits
  <2> QED
    BY <2>1, <2>2
<1>19. JobsSound' /\ DOMAIN job' = Jobs
  BY <1>6, <1>7, <1>18, JobFitsNext DEF Now, ClientSound, ClientTyped
<1>20. ClientTyped'
  <2>1. Room(s)'
    BY <1>0, <1>13, RoomStays
  <2>2. top_serial' = top_serial
    BY <1>0 DEF server
  <2> QED
    BY <1>0, <1>6, <1>9, <1>10, <1>11, <1>19, <2>1, <2>2 DEF ClientTyped
<1> QED
  BY <1>0, <1>15, <1>19, <1>20, EchoStays DEF ClientSound

\* A page is folded: the room is told as far as the page reaches, and to its own cursor when
\* the page was the last one.
LEMMA TakePageKeeps ==
  ASSUME MessagesInv, TableSound, ClientSound, slips' = {}, NEW j \in Jobs, TakePage(j)
  PROVE  ClientSound'
<1>0. Grows /\ UNCHANGED <<server, handle, echo>>
  BY ServerRests DEF TakePage, server
<1>1. PICK a : a = job[j].answer
  OBVIOUS
<1>2. PICK n : n = job[j].since
  OBVIOUS
<1>3. PICK page : page = a.page
  OBVIOUS
<1>4. PICK s : s = fold(room, page)
  OBVIOUS
<1>5. PICK d : d = Reach(page, n)
  OBVIOUS
<1>6. PICK p : p = IF page # {} THEN s.cursor ELSE saved
  OBVIOUS
<1>7. PICK k : k = next_sync_cursor(n, page, a.more)
  OBVIOUS
<1>8. Is(j, "page") /\ Now(j, k) /\ room' = s /\ saved' = p /\ Keep(s, {})
  BY <1>1, <1>2, <1>3, <1>4, <1>6, <1>7 DEF TakePage, Sync
<1>9. Others(j) /\ n \in 0..room.cursor /\ UpTo(room, n) /\ PageWaits(a, n)
  BY <1>1, <1>2, <1>8, JobFitsNow DEF JobFits, Is, ClientSound
<1>10. /\ Room(room) /\ room.cursor \in Nat /\ room.cursor <= top_serial /\ top_serial \in Nat /\ n \in Nat
       /\ n <= room.cursor /\ handle \in 0..room.cursor /\ saved \in 0..top_serial /\ saved \in Nat
  BY <1>0, <1>9, TablesTyped DEF ClientSound, ClientTyped
<1>11. /\ PageSound(page, n, d) /\ d \in Nat /\ n <= d /\ d <= top_serial /\ a.more \in BOOLEAN
       /\ page = {} => ~a.more
       /\ ~a.more => \A id \in Ids : Seen(id) => rows[id].serial <= d \/ rows[id].serial > Larger(room.cursor, saved)
  BY <1>3, <1>5, <1>9 DEF PageWaits, PageSound
<1>12. Room(s) /\ UpTo(s, d) /\ (page = {} => s = room /\ d = n) /\ (page # {} => s.cursor = Larger(room.cursor, d))
  BY <1>4, <1>5, <1>9, <1>10, <1>11, FoldTold DEF Reach
<1>13. page # {} => n < d
  <2> SUFFICES ASSUME page # {} PROVE n < d
    OBVIOUS
  <2>1. PICK r \in page : n < r.serial /\ r.serial <= d /\ r \in Rows
    BY <1>11 DEF PageSound
  <2>2. r.serial \in Nat
    BY <1>0, <2>1, TablesTyped
  <2> QED
    BY <1>10, <1>11, <2>1, <2>2
<1>14. /\ s.cursor \in Nat /\ room.cursor <= s.cursor /\ d <= s.cursor /\ s.cursor <= top_serial
       /\ s.cursor = d \/ s.cursor = room.cursor
  BY <1>10, <1>11, <1>12 DEF Larger
<1>15. ReactsToNothingElse(s)
  BY <1>12 DEF Room, ReactsToNothingElse
<1>16. DiskSound' /\ p \in 0..top_serial
  <2>1. CASE page # {}
    <3>1. s # Fresh
      <4>1. Fresh.cursor = 0
        BY FreshRoom
      <4> QED
        BY <1>10, <1>11, <1>13, <1>14, <2>1, <4>1
    <3>2. p = s.cursor /\ p \in 0..top_serial
      BY <1>6, <1>14, <2>1, <1>10
    <3> QED
      BY <1>0, <1>8, <1>12, <3>1, <3>2, KeepSound
  <2>2. CASE page = {}
    <3>1. s = room /\ p = saved /\ (s # Fresh => p = s.cursor)
      BY <1>6, <1>12, <2>2 DEF ClientSound, DiskSound
    <3>2. ASSUME s = Fresh PROVE UpTo(s, p)
      <4>1. room.cursor = 0 /\ n = 0 /\ d = 0 /\ p = saved
        BY <1>6, <1>9, <1>10, <1>12, <2>2, <3>2, FreshRoom
      <4>2. \A id \in Ids : Seen(id) => rows[id].serial <= 0 \/ rows[id].serial > p
        BY <1>10, <1>11, <2>2, <4>1 DEF Larger
      <4> QED
        BY <1>10, <1>12, <4>1, <4>2, UpToAcross
    <3>3. p \in 0..top_serial
      BY <1>6, <1>10, <2>2
    <3> QED
      BY <1>0, <1>8, <1>12, <3>1, <3>2, <3>3, KeepSound
  <2> QED
    BY <2>1, <2>2
<1>17. JobFits(k)'
  <2>1. CASE a.more /\ page # {}
    <3>1. k = Drain(d)
      <4>1. k = Drain(Larger(n, d))
        BY <1>5, <1>7, <2>1 DEF next_sync_cursor, Reach
      <4>2. Larger(n, d) = d
        BY <1>10, <1>11, <1>13, <2>1 DEF Larger
      <4> QED
        BY <4>1, <4>2
    <3>2. k.step = "sync" /\ k.since = d
      BY <3>1 DEF Drain
    <3>3. UpTo(s, d)'
      BY <1>0, <1>11, <1>12, <1>15, UpToStays
    <3>4. d \in 0..room'.cursor
      BY <1>8, <1>11, <1>14
    <3> QED
      BY <1>8, <3>2, <3>3, <3>4 DEF JobFits
  <2>2. CASE ~(a.more /\ page # {})
    <3>1. k.step = "idle" /\ ~a.more
      BY <1>7, <1>11, <2>2 DEF next_sync_cursor, Quiet
    <3>2. PICK m : m = s.cursor
      OBVIOUS
    <3>3. UpTo(s, m)
      <4>1. \A id \in Ids : Seen(id) => rows[id].serial <= d \/ rows[id].serial > m
        <5>1. CASE m = d
          <6>1. \A id \in Ids : Seen(id) => rows[id].serial \in Nat
            BY <1>0, TablesTyped DEF Seen, Exists
          <6> QED
            BY <1>11, <5>1, <6>1
        <5>2. CASE m = room.cursor
          <6>1. \A id \in Ids : Seen(id) => rows[id].serial \in Nat
            BY <1>0, TablesTyped DEF Seen, Exists
          <6>2. \A id \in Ids : Seen(id) => rows[id].serial <= d \/ rows[id].serial > Larger(room.cursor, saved)
            BY <1>11, <3>1
          <6> QED
            BY <1>10, <5>2, <6>1, <6>2 DEF Larger
        <5> QED
          BY <1>14, <3>2, <5>1, <5>2
      <4> QED
        BY <1>11, <1>12, <1>14, <3>2, <4>1, UpToAcross
    <3>4. UpTo(s, m)'
      BY <1>0, <1>14, <1>15, <3>2, <3>3, UpToStays
    <3> QED
      BY <1>8, <3>1, <3>2, <3>4 DEF JobFits
  <2> QED
    BY <2>1, <2>2
<1>18. JobsSound' /\ DOMAIN job' = Jobs
  BY <1>8, <1>9, <1>17, JobFitsNext DEF Now, ClientSound, ClientTyped
<1>19. ClientTyped'
  <2>1. Room(s)'
    BY <1>0, <1>12, RoomStays
  <2>2. top_serial' = top_serial /\ handle' \in 0..s.cursor /\ s.cursor \in 0..top_serial
    BY <1>0, <1>10, <1>14 DEF server
  <2> QED
    BY <1>8, <1>16, <1>18, <2>1, <2>2 DEF ClientTyped
<1> QED
  BY <1>0, <1>16, <1>18, <1>19, EchoStays DEF ClientSound

\* What makes an own send a slip.
Slipped == \/ \E j \in Jobs : ~Is(j, "idle")
           \/ echo.serial <= room.cursor
           \/ \E r \in Readable : room.cursor < r.serial /\ r.serial < echo.serial

\* The own send is folded: with no task beside it and nothing in between it is a page by
\* itself.
LEMMA TakeEchoKeeps ==
  ASSUME MessagesInv, TableSound, ClientSound, slips' = {}, TakeEcho
  PROVE  ClientSound'
<1>0. Grows /\ UNCHANGED <<server, handle, job>> /\ echo' = None /\ echo # None
  BY ServerRests DEF TakeEcho, server
<1>1. PICK e : e = echo
  OBVIOUS
<1>2. PICK page : page = {e}
  OBVIOUS
<1>3. PICK c : c = room.cursor
  OBVIOUS
<1>4. PICK s : s = fold(room, page)
  OBVIOUS
<1>5. PICK kinds : kinds = When("echo", Slipped)
  OBVIOUS
<1>6. Sync({echo}, kinds)
  <2>1. Sync({echo}, When("echo", Slipped))
    BY DEF TakeEcho, Slipped
  <2> QED
    BY <1>5, <2>1
<1>7. room' = s /\ saved' = s.cursor /\ Keep(s, kinds)
  <2>1. Sync(page, kinds) /\ page # {}
    BY <1>1, <1>2, <1>6
  <2> QED
    BY <1>4, <2>1 DEF Sync
<1>8. (\A j \in Jobs : Is(j, "idle")) /\ ~(e.serial <= c) /\ \A r \in Readable : ~(c < r.serial /\ r.serial < e.serial)
  <2>1. kinds = {}
    BY <1>7, KeepIs
  <2>2. ~Slipped
    BY <1>5, <2>1 DEF When
  <2> QED
    BY <1>1, <1>3, <2>2 DEF Slipped
<1>9. /\ Room(room) /\ c \in Nat /\ c <= top_serial /\ top_serial \in Nat /\ handle \in 0..c
      /\ UpTo(room, c) /\ DOMAIN job = Jobs
  <2>1. UpTo(room, c)
    BY <1>3, <1>8 DEF ClientSound, JobsSound, Is
  <2> QED
    BY <1>0, <1>3, <2>1, TablesTyped DEF ClientSound, ClientTyped
<1>10. /\ e \in Rows /\ e.by \notin Blocked /\ e.kind = "add" /\ e.serial <= top_serial /\ Current(e, e.serial)
       /\ e.serial \in Nat /\ c < e.serial
       /\ \A id \in Ids : Exists(id) /\ rows[id].serial = e.serial => rows[id] = e
  <2>1. /\ e \in Rows /\ e.by \notin Blocked /\ e.kind = "add" /\ e.serial <= top_serial /\ Current(e, e.serial)
        /\ \A id \in Ids : Exists(id) /\ rows[id].serial = e.serial => rows[id] = e
    BY <1>0, <1>1 DEF ClientSound, EchoSound
  <2>2. e.serial \in Nat
    BY <1>0, <2>1, TablesTyped
  <2> QED
    BY <1>8, <1>9, <2>1, <2>2
<1>11. PICK d : d = e.serial
  OBVIOUS
<1>12. PageSound(page, c, d)
  <2>1. ASSUME NEW id \in Ids, Seen(id), c < rows[id].serial, rows[id].serial <= d PROVE rows[id] \in page
    <3>1. rows[id] \in Readable /\ rows[id].serial \in Nat /\ Exists(id)
      BY <1>0, <2>1, ReadableRows, TablesTyped DEF Seen, Exists
    <3>2. rows[id].serial = d
      BY <1>8, <1>10, <1>11, <2>1, <3>1
    <3> QED
      BY <1>2, <1>10, <1>11, <3>1, <3>2
  <2>2. \A r \in page : r = e
    BY <1>2
  <2>3. "add" \notin Events
    BY DEF Events
  <2> QED
    BY <1>9, <1>10, <1>11, <2>1, <2>2, <2>3 DEF PageSound
<1>13. Room(s) /\ UpTo(s, d) /\ s.cursor = d
  <2>1. Room(s) /\ UpTo(s, d) /\ s.cursor = Larger(c, Max({r.serial : r \in page}))
    BY <1>2, <1>3, <1>4, <1>9, <1>12, FoldTold
  <2>2. {r.serial : r \in page} = {d}
    BY <1>2, <1>11
  <2>3. Max({d}) = d
    <3>1. d \in Nat /\ {d} \in SUBSET (0..d) /\ {d} # {}
      BY <1>10, <1>11
    <3> QED
      BY <3>1, HighestSerial
  <2>4. Larger(c, d) = d
    BY <1>9, <1>10, <1>11 DEF Larger
  <2> QED
    BY <2>1, <2>2, <2>3, <2>4
<1>14. d \in Nat /\ d <= top_serial /\ d \in 0..top_serial /\ d \in 0..d /\ handle \in 0..d
       /\ ReactsToNothingElse(s)
  BY <1>9, <1>10, <1>11, <1>13 DEF Room, ReactsToNothingElse
<1>15. DiskSound'
  <2>1. saved' = d /\ (s # Fresh => d = s.cursor)
    BY <1>7, <1>13
  <2>2. s = Fresh => UpTo(s, d)
    BY <1>13
  <2> QED
    BY <1>0, <1>7, <1>13, <1>14, <2>1, <2>2, KeepSound
<1>16. UpTo(s, d)' /\ Room(s)'
  BY <1>0, <1>13, <1>14, UpToStays, RoomStays
<1>17. JobsSound'
  <2>1. \A j \in Jobs : Is(j, "idle")'
    BY <1>0, <1>8 DEF Is
  <2> QED
    BY <1>7, <1>13, <1>16, <2>1 DEF JobsSound, Is
<1>18. ClientTyped'
  <2>1. top_serial' = top_serial
    BY <1>0 DEF server
  <2> QED
    BY <1>0, <1>7, <1>9, <1>13, <1>14, <1>16, <2>1 DEF ClientTyped
<1>19. EchoSound'
  BY <1>0 DEF EchoSound
<1> QED
  BY <1>15, <1>17, <1>18, <1>19 DEF ClientSound

\* A handler captures the store.
LEMMA CaptureKeeps ==
  ASSUME MessagesInv, TableSound, ClientSound, Capture
  PROVE  ClientSound'
<1>1. Grows /\ UNCHANGED <<room, disk, saved, job, echo>> /\ handle' = room.cursor
  BY ServerRests DEF Capture, server
<1>2. handle' \in 0..room.cursor
  BY <1>1 DEF ClientSound, ClientTyped
<1> QED
  BY <1>1, <1>2, ServeKeeps

\* The server writes.
LEMMA ServeGrows ==
  ASSUME MessagesInv, TableSound, BlocksAreHarmless, ServerStep
  PROVE  Grows
<1>1. MessagesInv'
  BY MessagesStep
<1>2. Writes /\ Requests
  BY ServerWrites
<1>3. Moved
  BY <1>1, <1>2, WritesMove
<1>4. TableSound'
  BY <1>1, <1>2, TableStays
<1> QED
  BY <1>1, <1>3, <1>4 DEF Grows

\* A step of the server keeps the client sound.
LEMMA ServedKeeps ==
  ASSUME MessagesInv, TableSound, ClientSound, BlocksAreHarmless, Serve
  PROVE  ClientSound'
<1>1. Grows
  BY ServeGrows DEF Serve
<1>2. UNCHANGED <<room, disk, saved, job, handle>>
  BY DEF Serve, client
<1>3. handle' \in 0..room.cursor
  BY <1>2 DEF ClientSound, ClientTyped
<1>4. echo' = echo \/ EchoComes
  <2>1. CASE UNCHANGED client
    BY <2>1 DEF client
  <2>2. CASE /\ minted' # minted /\ rows'[minted'] # None /\ rows'[minted'].kind = "add"
             /\ rows'[minted'].by = Viewer /\ echo' = rows'[minted']
    <3>1. minted' \in Ids
      <4>1. minted \in 0..MaxIds /\ minted' \in 0..MaxIds
        BY <1>1 DEF Grows, MessagesInv, TableTyped
      <4>2. minted <= minted'
        BY <1>1, TablesTyped
      <4>3. minted' \in 1..MaxIds
        BY <2>2, <4>1, <4>2, MessagesAssumption
      <4> QED
        BY <4>3 DEF Ids
    <3> QED
      BY <2>2, <3>1 DEF EchoComes
  <2> QED
    BY <2>1, <2>2 DEF Serve
<1> QED
  BY <1>1, <1>2, <1>3, <1>4, ServeKeeps

\* The invariant holds at the start.
LEMMA SyncStarts == SyncInit => SyncInv
<1> SUFFICES ASSUME SyncInit PROVE SyncInv
  OBVIOUS
<1>1. MessagesInv
  BY MessagesInitInv DEF SyncInit
<1>2. (\A id \in Ids : ~Exists(id)) /\ \A t \in Tasks : task[t].op = "idle"
  BY DEF SyncInit, MessagesInit, Exists, Idle
<1>3. TableSound
  BY <1>2 DEF TableSound
<1>4. /\ room = Fresh /\ disk = Nothing /\ saved = 0 /\ handle = 0 /\ echo = None /\ top_serial = 0
      /\ job = [j \in Jobs |-> Quiet]
  BY DEF SyncInit, MessagesInit, ClientInit
<1>5. Room(room) /\ UpTo(room, 0) /\ room.cursor = 0
  BY <1>1, <1>4, FreshRoom
<1>6. ClientTyped
  BY <1>4, <1>5 DEF ClientTyped
<1>7. JobsSound
  <2>1. \A j \in Jobs : job[j].step = "idle"
    BY <1>4 DEF Quiet
  <2> QED
    BY <1>5, <2>1 DEF JobsSound, Is
<1>8. DiskSound
  <2>1. disk.kept = FALSE
    BY <1>4 DEF Nothing
  <2> QED
    BY <1>4, <2>1 DEF DiskSound
<1> QED
  BY <1>1, <1>3, <1>4, <1>6, <1>7, <1>8 DEF SyncInv, ClientSound, EchoSound

\* What is noted stays noted.
LEMMA SlipsStay ==
  ASSUME SyncStep
  PROVE  slips \subseteq slips'
<1>1. \A kinds : Slip(kinds) => slips \subseteq slips'
  BY DEF Slip
<1>2. \A s, kinds : Keep(s, kinds) => slips \subseteq slips'
  BY <1>1 DEF Keep
<1>3. CASE Serve \/ Capture
  BY <1>3 DEF Serve, Capture, client
<1>4. CASE Reload
  BY <1>1, <1>4 DEF Reload
<1>5. CASE TakeEcho
  <2>1. PICK kinds : kinds = When("echo", Slipped)
    OBVIOUS
  <2>2. PICK s : s = fold(room, {echo})
    OBVIOUS
  <2>3. Sync({echo}, When("echo", Slipped))
    BY <1>5 DEF TakeEcho, Slipped
  <2>4. Keep(s, kinds)
    BY <2>1, <2>2, <2>3 DEF Sync
  <2> QED
    BY <1>2, <2>4
<1>6. CASE \E j \in Jobs : Wake(j) \/ Open(j) \/ Resync(j) \/ LoadOlder(j) \/ Fail(j)
  BY <1>1, <1>6 DEF Wake, Open, Resync, LoadOlder, Fail
<1>7. CASE \E j \in Jobs : Answer(j)
  BY <1>7 DEF Answer
<1>8. ASSUME NEW j \in Jobs, TakePage(j) PROVE slips \subseteq slips'
  <2>1. PICK page : page = job[j].answer.page
    OBVIOUS
  <2>2. PICK s : s = fold(room, page)
    OBVIOUS
  <2>3. Keep(s, {})
    BY <1>8, <2>1, <2>2 DEF TakePage, Sync
  <2> QED
    BY <1>2, <2>3
<1>9. ASSUME NEW j \in Jobs, TakeHistory(j) PROVE slips \subseteq slips'
  <2>1. \E s : Keep(s, {})
    BY <1>9 DEF TakeHistory, History
  <2> QED
    BY <1>2, <2>1
<1> QED
  BY <1>3, <1>4, <1>5, <1>6, <1>7, <1>8, <1>9 DEF SyncStep, Fetch

\* The server's part of the invariant.
LEMMA ServerStays ==
  ASSUME MessagesInv, TableSound, BlocksAreHarmless, SyncStep
  PROVE  MessagesInv' /\ TableSound'
<1>1. CASE Serve
  BY <1>1, ServeGrows DEF Serve, Grows
<1>2. CASE UNCHANGED server
  BY <1>2, ServerRests DEF Grows
<1>3. Serve \/ UNCHANGED server
  BY DEF SyncStep, Fetch, Capture, Reload, TakeEcho, Wake, Open, Resync, LoadOlder, Answer, TakePage, TakeHistory, Fail
<1> QED
  BY <1>1, <1>2, <1>3

\* Every step of the client keeps it sound while no slip is noted.
LEMMA ClientStays ==
  ASSUME MessagesInv, TableSound, ClientSound, BlocksAreHarmless, SyncStep, slips' = {}
  PROVE  ClientSound'
<1>1. ASSUME NEW j \in Jobs PROVE ~Resync(j)
  BY DEF Resync, Slip
<1>2. CASE Serve
  BY <1>2, ServedKeeps
<1>3. CASE Capture
  BY <1>3, CaptureKeeps
<1>4. CASE Reload
  BY <1>4, ReloadKeeps
<1>5. CASE TakeEcho
  BY <1>5, TakeEchoKeeps
<1>6. ASSUME NEW j \in Jobs, Wake(j) \/ Open(j) \/ LoadOlder(j) \/ Fail(j) PROVE ClientSound'
  BY <1>6, WakeKeeps, OpenKeeps, LoadOlderKeeps, FailKeeps
<1>7. ASSUME NEW j \in Jobs, Fetch(j) PROVE ClientSound'
  BY <1>7, AnswerKeeps, TakePageKeeps, TakeHistoryKeeps DEF Fetch
<1> QED
  BY <1>1, <1>2, <1>3, <1>4, <1>5, <1>6, <1>7 DEF SyncStep

\* The invariant is inductive.
LEMMA SyncStays ==
  ASSUME BlocksAreHarmless, SyncInv, [SyncNext]_syncVars
  PROVE  SyncInv'
<1>1. CASE SyncNext
  <2>1. SyncStep
    BY <1>1 DEF SyncNext
  <2>2. MessagesInv' /\ TableSound'
    BY <2>1, ServerStays DEF SyncInv
  <2>3. ASSUME slips' = {} PROVE ClientSound'
    <3>1. slips = {}
      BY <2>1, <2>3, SlipsStay
    <3> QED
      BY <2>1, <2>3, <3>1, ClientStays DEF SyncInv
  <2> QED
    BY <2>2, <2>3 DEF SyncInv
<1>2. CASE UNCHANGED syncVars
  <2>1. UNCHANGED server /\ UNCHANGED client
    BY <1>2 DEF syncVars
  <2>2. Grows
    BY <2>1, ServerRests DEF SyncInv
  <2>3. ASSUME slips' = {} PROVE ClientSound'
    <3>1. ClientSound /\ UNCHANGED <<room, disk, saved, job, handle, echo>>
      BY <2>1, <2>3 DEF SyncInv, client
    <3>2. handle' \in 0..room.cursor
      BY <3>1 DEF ClientSound, ClientTyped
    <3> QED
      BY <2>2, <3>1, <3>2, ServeKeeps
  <2> QED
    BY <2>2, <2>3 DEF SyncInv, Grows
<1> QED
  BY <1>1, <1>2

\* Told to its cursor, with nothing above it: what the room shows is what the table has.
LEMMA ToldIsCurrent == SyncInv => HeadIsCurrent
<1> SUFFICES ASSUME SyncInv, slips = {}, CaughtUp
             PROVE  /\ \A id \in Ids : Agrees(id)
                    /\ \A id \in Ids : Visible(id) => room.reactions[id] = aggregate_emoticons(id)
  BY DEF HeadIsCurrent, CaughtUpIsCurrent, ReactionsCurrent
<1> DEFINE c == room.cursor
<1>1. MessagesInv /\ TableSound /\ UpTo(room, c) /\ Room(room) /\ c \in Nat
  BY DEF SyncInv, CaughtUp, ClientSound, ClientTyped, JobsSound, Is
<1>2. \A id \in Ids : Seen(id) => ~(rows[id].serial > c)
  <2>1. ASSUME NEW id \in Ids, Seen(id) PROVE ~(rows[id].serial > c)
    <3>1. rows[id] \in Readable /\ rows[id].serial \in 0..MaxSerial
      BY <1>1, <2>1, ReadableRows
    <3>2. rows[id].serial <= c
      BY <3>1 DEF CaughtUp
    <3> QED
      BY <1>1, <3>1, <3>2
  <2> QED
    BY <2>1
<1>3. ~Cleared(c) /\ \A id \in Ids : ~Owed(id, c)
  BY <1>2 DEF Cleared, Owed
<1>4. \A id \in Ids : room.messages[id] = Shown(id)
  BY <1>1, <1>3 DEF UpTo, MessagesUpTo
<1>5. \A id \in Ids : Visible(id) <=> Seen(id) /\ rows[id].kind \in Renderable
  BY DEF Visible, get_message, Seen, Renderable
<1>6. ASSUME NEW id \in Ids PROVE Agrees(id)
  <2>1. CASE Visible(id)
    BY <1>4, <1>5, <2>1 DEF Agrees, Shown, Seen, Exists
  <2>2. CASE ~Visible(id)
    BY <1>4, <1>5, <2>2 DEF Agrees, Shown
  <2> QED
    BY <2>1, <2>2
<1>7. ASSUME NEW id \in Ids, Visible(id) PROVE room.reactions[id] = aggregate_emoticons(id)
  <2>1. Shown(id) # None
    BY <1>5, <1>7 DEF Shown, Seen, Exists
  <2>2. ASSUME NEW u \in Users PROVE u \in room.reactions[id] <=> Reacts(id, u)
    <3>1. ~\E e \in EventsOf(id, u) : rows[e].serial > c
      BY <1>2 DEF EventsOf
    <3> QED
      BY <1>1, <1>3, <2>1, <3>1 DEF UpTo, ReactionsUpTo
  <2>3. ASSUME NEW u \in Users
        PROVE  Reacts(id, u) <=> u \in aggregate_emoticons(id)
    <3> DEFINE R == {r \in Readable : r.kind \in Events /\ r.of = id /\ r.by = u}
    <3>1. \A e \in EventsOf(id, u) : rows[e] \in R
      BY <1>1, ReadableRows DEF EventsOf
    <3>2. \A r \in R : r.id \in EventsOf(id, u) /\ rows[r.id] = r
      BY <1>1, ReadableRows DEF EventsOf
    <3>3. u \in aggregate_emoticons(id) <=>
            \E r \in R : r.kind = "emoticon_add" /\ \A o \in R : o.serial <= r.serial
      BY DEF aggregate_emoticons
    <3> HIDE DEF R
    <3>4. EventsOf(id, u) \subseteq Ids
      BY DEF EventsOf
    <3> QED
      BY <3>1, <3>2, <3>3, <3>4 DEF Reacts
  <2>4. room.reactions[id] \subseteq Users /\ aggregate_emoticons(id) \subseteq Users
    BY <1>1 DEF Room, RoomStates, aggregate_emoticons
  <2> QED
    BY <2>2, <2>3, <2>4
<1> QED
  BY <1>6, <1>7

\* A client that has caught up shows the messages and the reactions the server has, however
\* writes fell between its requests and answers and whatever page, cache or own send the
\* room came from, unless one of the named slips has happened (the fold of store.rs,
\* drain_sync and open_room of actions.rs; "always converges on the current state",
\* routes/sync.rs).  Nobody the viewer has blocked purges: of such a purge the marker is
\* kept from the viewer with everything else that user writes (NOT_BLOCKED, db/messages.rs).
THEOREM HeadStaysCurrent ==
  ASSUME BlocksAreHarmless PROVE SyncSpec => []HeadIsCurrent
<1>1. SyncInit => SyncInv
  BY SyncStarts
<1>2. SyncInv /\ [SyncNext]_syncVars => SyncInv'
  BY SyncStays
<1>3. SyncInv => HeadIsCurrent
  BY ToldIsCurrent
<1> QED
  BY <1>1, <1>2, <1>3, PTL DEF SyncSpec
=============================================================================
