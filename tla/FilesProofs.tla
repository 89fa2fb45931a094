---------------------------- MODULE FilesProofs ----------------------------
(***************************************************************************)
(* What holds of the bytes people send, for any rooms, posters, sessions,     *)
(* requests and sizes: the content-addressed store against the rows that name *)
(* it (Attachments), and a resumable transfer (Uploads).                     *)
(***************************************************************************)
EXTENDS Attachments, Uploads, SequenceTheorems, TLAPS

PostSteps == {"free", "rename", "thumb", "render", "row"}
PurgeSteps == {"none", "delete", "check", "unlink", "sidecar", "done"}

\* Every variable in its domain; only a thumbnail is posted for no room.
AttTypeOK ==
    /\ disk \in BOOLEAN /\ thumb \in BOOLEAN
    /\ refs \subseteq Rooms \cup {Profile} /\ loose \subseteq {"crossed", "let_go", "died"}
    /\ post \in [Posters -> [step : PostSteps, room : Rooms \cup {Profile}]]
    /\ purge \in [Rooms -> [step : PurgeSteps, named : BOOLEAN]]
    /\ \A p \in Posters : post[p].room = Profile => post[p].step \in {"free", "render"}

\* An upload that has the bytes and will have its row written.
Carries(p) == post[p].step \in {"thumb", "row"} \/ (post[p].step = "render" /\ post[p].room # Profile)

\* Nobody posts beside a purge that has the name: who holds the bytes sees them on
\* disk, and what is being unlinked is named by nothing.
Apart ==
    /\ Unlinking => ~Posting
    /\ \A p \in Posters : post[p].step \in {"thumb", "render", "row"} => disk
    /\ \A r \in Rooms : purge[r].step \in {"unlink", "sidecar"} => purge[r].named /\ refs = {}
    /\ refs # {} => disk

\* What is on disk is named, about to be named, or on its way out.
Accounted ==
    /\ disk => \/ refs # {} \/ \E p \in Posters : Carries(p)
               \/ \E r \in Rooms : purge[r].named /\ purge[r].step \in {"check", "unlink"}
    /\ thumb => \/ refs # {} \/ \E p \in Posters : Carries(p)
                \/ \E r \in Rooms : purge[r].named /\ purge[r].step \in {"check", "unlink", "sidecar"}

StoreInv ==
    /\ AttTypeOK
    /\ "crossed" \notin loose => Apart
    /\ loose = {} => Accounted

-----------------------------------------------------------------------------
LEMMA StoreStarts == AttInit => StoreInv
<1> SUFFICES ASSUME AttInit PROVE StoreInv
  OBVIOUS
<1>1. NoPost \in [step : PostSteps, room : Rooms \cup {Profile}]
  BY DEF NoPost, PostSteps
<1>2. [step |-> "none", named |-> FALSE] \in [step : PurgeSteps, named : BOOLEAN]
  BY DEF PurgeSteps
<1>3. AttTypeOK
  BY <1>1, <1>2 DEF AttInit, AttTypeOK, NoPost
<1>4. Apart /\ Accounted
  BY DEF AttInit, Apart, Accounted, NoPost, Unlinking, Posting
<1> QED BY <1>3, <1>4 DEF StoreInv

LEMMA StoreStep ==
    ASSUME StoreInv, AttNext PROVE StoreInv'
<1> USE DEF StoreInv
<1>a. AttTypeOK /\ loose \subseteq loose'
    BY DEF AttNext, Upload, Rename, Accompany, StoreThumb, PostThumb, FileRow, DropRef, SetProfile, Gather,
           DeleteRoom, CheckRefs, UnlinkBytes, unlink_sidecar, PurgeDies, Slip
<1>1. ASSUME NEW p \in Posters, NEW r \in Rooms, Upload(p, r) PROVE StoreInv'
  <2>1. AttTypeOK'
    BY <1>a, <1>1, AttachmentsAssumption DEF Upload, AttTypeOK, PostSteps, Slip
  <2>2. ASSUME "crossed" \notin loose' PROVE Apart'
    BY <1>a, <1>1, <2>2 DEF Upload, AttTypeOK, Apart, Posting, Unlinking, Slip
  <2>3. ASSUME loose' = {} PROVE Accounted'
    BY <1>a, <1>1, <2>3, AttachmentsAssumption DEF Upload, AttTypeOK, Accounted, Carries
  <2> QED BY <2>1, <2>2, <2>3
<1>2. ASSUME NEW p \in Posters, Rename(p) PROVE StoreInv'
  <2>1. AttTypeOK'
    BY <1>a, <1>2 DEF Rename, AttTypeOK, PostSteps
  <2>2. ASSUME "crossed" \notin loose' PROVE Apart'
    BY <1>a, <1>2, <2>2 DEF Rename, AttTypeOK, Apart, Posting, Unlinking
  <2>3. ASSUME loose' = {} PROVE Accounted'
    BY <1>a, <1>2, <2>3 DEF Rename, AttTypeOK, Accounted, Carries
  <2> QED BY <2>1, <2>2, <2>3
<1>3. ASSUME NEW p \in Posters, Accompany(p) PROVE StoreInv'
  <2>1. AttTypeOK'
    BY <1>a, <1>3 DEF Accompany, AttTypeOK, PostSteps
  <2>2. ASSUME "crossed" \notin loose' PROVE Apart'
    BY <1>a, <1>3, <2>2 DEF Accompany, AttTypeOK, Apart, Posting, Unlinking
  <2>3. ASSUME loose' = {} PROVE Accounted'
    BY <1>a, <1>3, <2>3 DEF Accompany, AttTypeOK, Accounted, Carries
  <2> QED BY <2>1, <2>2, <2>3
<1>4. ASSUME NEW p \in Posters, StoreThumb(p) PROVE StoreInv'
  <2> DEFINE new == IF post[p].room = Profile THEN NoPost ELSE [post[p] EXCEPT !.step = "row"]
  <2>a. new \in [step : PostSteps, room : Rooms \cup {Profile}]
    BY <1>a DEF AttTypeOK, PostSteps, NoPost
  <2>b. post' = [post EXCEPT ![p] = new]
    BY <1>4 DEF StoreThumb
  <2>c. thumb' \in BOOLEAN
    BY <1>4 DEF StoreThumb
  <2>1. AttTypeOK'
    <3>1. new.room = Profile => new.step \in {"free", "render"}
      BY <1>a DEF AttTypeOK, NoPost
    <3> HIDE DEF new
    <3> QED BY <1>a, <1>4, <2>a, <2>b, <2>c, <3>1 DEF StoreThumb, AttTypeOK
  <2>2. ASSUME "crossed" \notin loose' PROVE Apart'
    BY <1>a, <1>4, <2>2 DEF StoreThumb, AttTypeOK, Apart, Posting, Unlinking, NoPost
  <2>3. ASSUME loose' = {} PROVE Accounted'
    BY <1>a, <1>4, <2>3 DEF StoreThumb, AttTypeOK, Accounted, Carries, Apart, Unlinking, Posting, NoPost
  <2> QED BY <2>1, <2>2, <2>3
<1>5. ASSUME NEW p \in Posters, PostThumb(p) PROVE StoreInv'
  <2>1. AttTypeOK'
    BY <1>a, <1>5 DEF PostThumb, AttTypeOK, PostSteps, Slip
  <2>2. ASSUME "crossed" \notin loose' PROVE Apart'
    BY <1>a, <1>5, <2>2 DEF PostThumb, AttTypeOK, Apart, Posting, Unlinking, Slip
  <2>3. ASSUME loose' = {} PROVE Accounted'
    BY <1>a, <1>5, <2>3 DEF PostThumb, AttTypeOK, Accounted, Carries
  <2> QED BY <2>1, <2>2, <2>3
<1>6. ASSUME NEW p \in Posters, FileRow(p) PROVE StoreInv'
  <2>1. AttTypeOK'
    BY <1>a, <1>6 DEF FileRow, AttTypeOK, PostSteps, Slip, NoPost
  <2>2. ASSUME "crossed" \notin loose' PROVE Apart'
    BY <1>a, <1>6, <2>2 DEF FileRow, AttTypeOK, Apart, Posting, Unlinking, Slip, NoPost
  <2>3. ASSUME loose' = {} PROVE Accounted'
    BY <1>a, <1>6, <2>3 DEF FileRow, AttTypeOK, Accounted, Slip
  <2> QED BY <2>1, <2>2, <2>3
<1>7. ASSUME NEW r \in Rooms \cup {Profile}, DropRef(r) PROVE StoreInv'
  <2>1. AttTypeOK'
    BY <1>a, <1>7 DEF DropRef, AttTypeOK, Slip
  <2>2. ASSUME "crossed" \notin loose' PROVE Apart'
    BY <1>a, <1>7, <2>2 DEF DropRef, AttTypeOK, Apart, Posting, Unlinking
  <2> QED BY <1>7, <2>1, <2>2 DEF DropRef, Slip
<1>8. ASSUME SetProfile PROVE StoreInv'
  <2>1. AttTypeOK'
    BY <1>a, <1>8 DEF SetProfile, AttTypeOK, Slip
  <2>2. ASSUME "crossed" \notin loose' PROVE Apart'
    BY <1>a, <1>8, <2>2 DEF SetProfile, AttTypeOK, Apart, Posting, Unlinking, Slip
  <2>3. ASSUME loose' = {} PROVE Accounted'
    BY <1>a, <1>8, <2>3 DEF SetProfile, Accounted
  <2> QED BY <2>1, <2>2, <2>3
<1>9. ASSUME NEW r \in Rooms, Gather(r) PROVE StoreInv'
  <2>1. AttTypeOK'
    BY <1>a, <1>9 DEF Gather, AttTypeOK, PurgeSteps
  <2>2. ASSUME "crossed" \notin loose' PROVE Apart'
    BY <1>a, <1>9, <2>2 DEF Gather, AttTypeOK, Apart, Posting, Unlinking
  <2>3. ASSUME loose' = {} PROVE Accounted'
    BY <1>a, <1>9, <2>3 DEF Gather, AttTypeOK, Accounted, Carries
  <2> QED BY <2>1, <2>2, <2>3
<1>10. ASSUME NEW r \in Rooms, DeleteRoom(r) PROVE StoreInv'
  <2>1. AttTypeOK'
    BY <1>a, <1>10 DEF DeleteRoom, AttTypeOK, PurgeSteps
  <2>2. ASSUME "crossed" \notin loose' PROVE Apart'
    BY <1>a, <1>10, <2>2 DEF DeleteRoom, AttTypeOK, Apart, Posting, Unlinking
  <2>3. ASSUME loose' = {} PROVE Accounted'
    <3>1. loose = {} /\ (r \in refs => purge[r].named)
      BY <1>10, <2>3 DEF DeleteRoom
    <3>2. /\ purge'[r].step = "check" /\ purge'[r].named = purge[r].named
          /\ \A q \in Rooms : q # r => purge'[q] = purge[q]
      BY <1>10 DEF DeleteRoom, AttTypeOK
    <3>3. refs' = refs \ {r} /\ UNCHANGED <<disk, thumb, post>> /\ purge[r].step = "delete"
      BY <1>10 DEF DeleteRoom
    <3> QED
      BY <1>a, <3>1, <3>2, <3>3 DEF Accounted, Carries
  <2> QED BY <2>1, <2>2, <2>3
<1>11. ASSUME NEW r \in Rooms, CheckRefs(r) PROVE StoreInv'
  <2>1. AttTypeOK'
    BY <1>a, <1>11 DEF CheckRefs, AttTypeOK, PurgeSteps
  <2>2. ASSUME "crossed" \notin loose' PROVE Apart'
    BY <1>a, <1>11, <2>2 DEF CheckRefs, AttTypeOK, Apart, Posting, Unlinking, Orphaned
  <2>3. ASSUME loose' = {} PROVE Accounted'
    BY <1>a, <1>11, <2>3 DEF CheckRefs, AttTypeOK, Accounted, Carries, Orphaned
  <2> QED BY <2>1, <2>2, <2>3
<1>12. ASSUME NEW r \in Rooms, UnlinkBytes(r) PROVE StoreInv'
  <2>a. disk' \in BOOLEAN
    BY <1>12 DEF UnlinkBytes
  <2>1. AttTypeOK'
    BY <1>a, <1>12, <2>a DEF UnlinkBytes, AttTypeOK, PurgeSteps
  <2>2. ASSUME "crossed" \notin loose' PROVE Apart'
    BY <1>a, <1>12, <2>2 DEF UnlinkBytes, AttTypeOK, Apart, Posting, Unlinking
  <2>3. ASSUME loose' = {} PROVE Accounted'
    BY <1>a, <1>12, <2>3 DEF UnlinkBytes, AttTypeOK, Accounted, Carries
  <2> QED BY <2>1, <2>2, <2>3
<1>13. ASSUME NEW r \in Rooms, unlink_sidecar(r) PROVE StoreInv'
  <2>a. thumb' \in BOOLEAN
    BY <1>13 DEF unlink_sidecar
  <2>1. AttTypeOK'
    BY <1>a, <1>13, <2>a DEF unlink_sidecar, AttTypeOK, PurgeSteps
  <2>2. ASSUME "crossed" \notin loose' PROVE Apart'
    BY <1>a, <1>13, <2>2 DEF unlink_sidecar, AttTypeOK, Apart, Posting, Unlinking
  <2>3. ASSUME loose' = {} PROVE Accounted'
    BY <1>a, <1>13, <2>3 DEF unlink_sidecar, AttTypeOK, Accounted, Carries
  <2> QED BY <2>1, <2>2, <2>3
<1>14. ASSUME NEW r \in Rooms, PurgeDies(r) PROVE StoreInv'
  <2>1. AttTypeOK'
    BY <1>a, <1>14 DEF PurgeDies, AttTypeOK, PurgeSteps, Slip
  <2>2. ASSUME "crossed" \notin loose' PROVE Apart'
    BY <1>a, <1>14, <2>2 DEF PurgeDies, AttTypeOK, Apart, Posting, Unlinking
  <2>3. ASSUME loose' = {} PROVE Accounted'
    BY <1>a, <1>14, <2>3 DEF PurgeDies, AttTypeOK, Accounted, Carries, Slip
  <2> QED BY <2>1, <2>2, <2>3
<1> QED BY <1>1, <1>2, <1>3, <1>4, <1>5, <1>6, <1>7, <1>8, <1>9, <1>10, <1>11, <1>12, <1>13, <1>14 DEF AttNext

LEMMA StoreHolds == AttSpec => []StoreInv
<1>1. ASSUME StoreInv, UNCHANGED attVars PROVE StoreInv'
  BY <1>1 DEF attVars, StoreInv, AttTypeOK, Apart, Accounted, Unlinking, Posting, Carries
<1> QED BY StoreStarts, StoreStep, <1>1, PTL DEF AttSpec

\* The content-addressed store and the rows agree, for any number of rooms, uploads
\* and purges: what a row names is on disk, and what every room that showed it has
\* asked to forget is not, up to the crossings `loose` records (purge.rs).
THEOREM StoreAlwaysMatchesRows == AttSpec => []StoreMatchesRows
<1>1. StoreInv => StoreMatchesRows
  BY DEF StoreInv, Apart, Accounted, StoreMatchesRows, NamedBytesExist, Forgotten, Posting, Carries
<1> QED BY StoreHolds, <1>1, PTL

-----------------------------------------------------------------------------
(***************************************************************************)
(* A transfer.                                                              *)
(***************************************************************************)
AppendSteps == {"append", "claim", "open", "write", "rollback"}
FinishSteps == {"finish", "hash", "place", "insert", "drop", "delete"}
Active == {"send", "appending", "recover", "commit", "finishing"}
Codes == {"ok", "400", "403", "404", "409", "500"}

Call == [step : AppendSteps \cup FinishSteps \cup {"free", "answered"}, s : Sessions \cup {None},
         from : 0..Size, len : 0..Size, code : Codes, awaited : BOOLEAN]
Transfer == [pc : Active \cup {"idle", "begin", "done", "failed"}, s : Sessions \cup {None}, offset : 0..Size,
             chunk : MinChunk..Ceiling, tries : Nat, lost : BOOLEAN, got : {None, "mine", "older"}, attempt : Nat]

\* Every variable in its domain.
ServerTypeOK ==
    /\ received \in [Sessions -> -1..Size] /\ temp \in [Sessions -> Seq(1..Size)]
    /\ place \in [Sessions -> {"none", "temp", "stored", "gone"}]
    /\ files \in Seq({"mine", "older"}) /\ slips \subseteq {"torn", "leaked", "discarded"}
ClientTypeOK == client \in Transfer /\ kept \in Sessions \cup {None}
CallsTypeOK == req \in [Handlers -> Call]

Created(s) == s \in Sessions /\ place[s] # "none"
\* The room's newest row is the file, or a session went without being committed.
Settled == "discarded" \in slips \/ (files # <<>> /\ Last(files) = "mine")
\* A session that was begun: its row only goes once it is settled.
Begun(s) == Created(s) /\ (received[s] # -1 \/ Settled)

\* An id that was not created has no row and no bytes; rows of the room have theirs.
ServerSound ==
    /\ \A s \in Sessions : place[s] = "none" => received[s] = -1 /\ temp[s] = <<>>
    /\ RowsHaveBytes

\* A request is about a session that was begun; an append carries bytes of the file, the
\* bytes are stored before the insert, and what discards a session knows why.
CallSound(q) ==
    /\ q.step # "free" => Begun(q.s)
    /\ q.from + q.len <= Size /\ (q.step \in AppendSteps => q.len >= 1)
    /\ q.step = "insert" => Stored
    /\ q.step \in {"drop", "delete"} => Settled
    /\ q.step = "free" => ~q.awaited
    /\ q.step = "answered" => q.awaited

\* The client waits for the request it last sent and no other; a 404 to a finish means
\* that the session is settled.
WaitSound(q) ==
    q.awaited =>
      /\ client.pc \in {"appending", "finishing"}
      /\ client.pc = "finishing" =>
           q.step \in FinishSteps \/ (q.step = "answered" /\ (q.code = "404" => Settled))

CallsSound ==
    /\ \A h \in Handlers : CallSound(req[h]) /\ WaitSound(req[h])
    /\ \A g, h \in Handlers : req[g].awaited /\ req[h].awaited => g = h

ClientSound ==
    /\ client.pc \in Active => Begun(client.s)
    /\ kept # None => Created(kept)
    /\ DoneIsMine

\* A request that has claimed its range and not written it.
Holding(q) == q.step \in {"open", "write", "rollback"}
Holder(h) == Holding(req[h])

\* Bytes: those written and the ranges claimed are apart, all below the offset of a
\* session that has one; what was hashed is the file and stays so.
OffsetsSound ==
    /\ \A s \in Sessions : IsInjective(temp[s])
    /\ \A s \in Sessions : received[s] # -1 => \A i \in DOMAIN temp[s] : temp[s][i] <= received[s]
    /\ \A h \in Handlers : Holder(h) =>
         \A i \in DOMAIN temp[req[h].s] : temp[req[h].s][i] \notin (req[h].from + 1)..(req[h].from + req[h].len)
    /\ \A h \in Handlers : Holder(h) /\ received[req[h].s] # -1 => req[h].from + req[h].len <= received[req[h].s]
    /\ \A g, h \in Handlers : Holder(g) /\ Holder(h) /\ g # h /\ req[g].s = req[h].s =>
         req[g].from + req[g].len <= req[h].from \/ req[h].from + req[h].len <= req[g].from
    /\ \A h \in Handlers : req[h].step = "place" => temp[req[h].s] = Intact
    /\ \A s \in Sessions : place[s] = "stored" => temp[s] = Intact

TransferInv ==
    /\ ServerTypeOK /\ ClientTypeOK /\ CallsTypeOK
    /\ ServerSound /\ ClientSound /\ CallsSound
    /\ "torn" \notin slips => OffsetsSound

-----------------------------------------------------------------------------
\* What a step of the server leaves standing.
GoesOn ==
    /\ \A s \in Sessions : place[s] # "none" => place'[s] # "none"
    /\ \A s \in Sessions : received[s] # -1 => received'[s] # -1 \/ Settled'
    /\ Settled => Settled'
    /\ Stored => Stored'
    /\ slips \subseteq slips'

LEMMA CallKept ==
  ASSUME GoesOn, NEW q \in Call, CallSound(q)
  PROVE  CallSound(q)'
<1>1. q.step # "free" => Begun(q.s)'
  BY DEF GoesOn, CallSound, Begun, Created
<1> QED
  BY <1>1 DEF GoesOn, CallSound

LEMMA WaitKept ==
  ASSUME Settled => Settled', client' = client, NEW q \in Call, WaitSound(q)
  PROVE  WaitSound(q)'
  BY DEF WaitSound

LEMMA ClientKept ==
  ASSUME GoesOn, ClientTypeOK, ClientSound, client' = client, kept' = kept
  PROVE  ClientTypeOK' /\ ClientSound'
<1>1. client.pc \in Active => Begun(client.s)'
  BY DEF GoesOn, ClientSound, Begun, Created
<1>2. kept # None => Created(kept)'
  BY DEF GoesOn, ClientSound, Created
<1>3. DoneIsMine'
  BY DEF GoesOn, ClientSound, DoneIsMine
<1> QED
  BY <1>1, <1>2, <1>3 DEF ClientTypeOK, ClientSound

\* Nothing on the server but requests.
LEMMA Untouched ==
  ASSUME UNCHANGED <<received, place, files>>, slips \subseteq slips'
  PROVE  GoesOn
<1>1. Settled => Settled'
  BY DEF Settled
<1> QED
  BY <1>1 DEF GoesOn, Stored

\* One request changes: the others stay sound, and one is awaited at most.
LEMMA CallsKept ==
  ASSUME CallsTypeOK, CallsSound, GoesOn, client' = client, NEW h \in Handlers, NEW q \in Call,
         req' = [req EXCEPT ![h] = q], CallSound(q)', WaitSound(q)', q.awaited => req[h].awaited
  PROVE  CallsTypeOK' /\ CallsSound'
<1>1. CallsTypeOK'
  BY DEF CallsTypeOK
<1>2. ASSUME NEW g \in Handlers PROVE (CallSound(req[g]) /\ WaitSound(req[g]))'
  <2>1. CASE g = h
    <3>1. req'[g] = q
      BY <2>1 DEF CallsTypeOK
    <3> QED
      BY <3>1 DEF CallSound, WaitSound
  <2>2. CASE g # h
    <3>1. req'[g] = req[g] /\ req[g] \in Call /\ CallSound(req[g]) /\ WaitSound(req[g])
      BY <2>2 DEF CallsTypeOK, CallsSound
    <3>2. PICK c \in Call : c = req[g]
      BY <3>1
    <3>3. CallSound(c) /\ WaitSound(c) /\ (Settled => Settled')
      BY <3>1, <3>2 DEF GoesOn
    <3>4. CallSound(c)' /\ WaitSound(c)'
      BY <3>3, CallKept, WaitKept
    <3>5. req'[g] = c
      BY <3>1, <3>2
    <3> QED
      BY <3>4, <3>5 DEF CallSound, WaitSound
  <2> QED
    BY <2>1, <2>2
<1>3. \A f, g \in Handlers : req'[f].awaited /\ req'[g].awaited => f = g
  BY DEF CallsTypeOK, CallsSound
<1> QED
  BY <1>1, <1>2, <1>3 DEF CallsSound

LEMMA Handled ==
  ASSUME TransferInv, GoesOn, client' = client, kept' = kept, ServerTypeOK', ServerSound',
         NEW h \in Handlers, NEW q \in Call, req' = [req EXCEPT ![h] = q],
         CallSound(q)', WaitSound(q)', q.awaited => req[h].awaited,
         "torn" \notin slips' => OffsetsSound'
  PROVE  TransferInv'
<1>1. ClientTypeOK' /\ ClientSound'
  BY ClientKept DEF TransferInv
<1>2. CallsTypeOK' /\ CallsSound'
  BY CallsKept DEF TransferInv
<1> QED
  BY <1>1, <1>2 DEF TransferInv

\* A request that answers, or is over when nobody waits for it.
Reply(h, code) == IF req[h].awaited THEN [req[h] EXCEPT !.step = "answered", !.code = code] ELSE Idle

LEMMA IdleCall == Idle \in Call /\ Idle.step = "free" /\ Idle.from = 0 /\ Idle.len = 0 /\ Idle.awaited = FALSE
  BY UploadsAssumption DEF Idle, Call, Codes, None

LEMMA IdleSound == CallSound(Idle) /\ WaitSound(Idle)
  BY IdleCall, UploadsAssumption DEF CallSound, WaitSound, AppendSteps

LEMMA Replied ==
  ASSUME TransferInv, GoesOn, client' = client, NEW h \in Handlers, NEW code \in Codes, Answer(h, code),
         req[h].step # "free", code = "404" /\ client.pc = "finishing" /\ req[h].awaited => Settled'
  PROVE  \E q \in Call : /\ req' = [req EXCEPT ![h] = q] /\ CallSound(q)' /\ WaitSound(q)'
                         /\ q.awaited => req[h].awaited
                         /\ q.step \in {"free", "answered"}
<1>0. req[h] \in Call /\ CallSound(req[h]) /\ WaitSound(req[h])
  BY DEF TransferInv, CallsTypeOK, CallsSound
<1>1. PICK c \in Call, q \in {Reply(h, code)} : c = req[h]
  BY <1>0
<1>c. CallSound(c) /\ WaitSound(c) /\ req' = [req EXCEPT ![h] = q]
  BY <1>0, <1>1 DEF Answer, Reply
<1>2. CASE c.awaited
  <2>1. q = [c EXCEPT !.step = "answered", !.code = code]
    BY <1>1, <1>2 DEF Reply
  <2>2. /\ q \in Call /\ q.step = "answered" /\ q.code = code /\ q.awaited = c.awaited
        /\ q.s = c.s /\ q.from = c.from /\ q.len = c.len
    BY <2>1 DEF Call
  <2>3. CallSound(c)'
    BY <1>c, CallKept
  <2>4. CallSound(q)'
    BY <1>1, <1>2, <2>2, <2>3 DEF CallSound, AppendSteps
  <2>5. WaitSound(q)'
    BY <1>1, <1>c, <1>2, <2>2 DEF WaitSound
  <2> QED
    BY <1>1, <1>c, <1>2, <2>2, <2>4, <2>5
<1>3. CASE ~c.awaited
  <2>1. q = Idle
    BY <1>1, <1>3 DEF Reply
  <2>2. CallSound(Idle)' /\ WaitSound(Idle)'
    BY IdleCall, IdleSound, CallKept, WaitKept DEF GoesOn
  <2> QED
    BY <1>c, <2>1, <2>2, IdleCall
<1> QED
  BY <1>2, <1>3

\* A request that goes on to its next step.
LEMMA Moved ==
  ASSUME TransferInv, GoesOn, client' = client, NEW h \in Handlers, NEW step \in AppendSteps \cup FinishSteps,
         NEW code \in Codes,
         req' = [req EXCEPT ![h].step = step, ![h].code = code] \/ req' = [req EXCEPT ![h].step = step],
         req[h].step \in AppendSteps \cup FinishSteps, step \in AppendSteps => req[h].step \in AppendSteps,
         req[h].step \in AppendSteps => step \in AppendSteps,
         step = "insert" => Stored', step \in {"drop", "delete"} => Settled'
  PROVE  \E q \in Call : /\ req' = [req EXCEPT ![h] = q] /\ CallSound(q)' /\ WaitSound(q)'
                         /\ q.awaited => req[h].awaited
                         /\ q.step = step /\ q.s = req[h].s /\ q.from = req[h].from /\ q.len = req[h].len
<1> USE DEF AppendSteps, FinishSteps
<1>0. req \in [Handlers -> Call] /\ req[h] \in Call /\ CallSound(req[h]) /\ WaitSound(req[h])
  BY DEF TransferInv, CallsTypeOK, CallsSound
<1>1. PICK q \in {[req[h] EXCEPT !.step = step, !.code = code], [req[h] EXCEPT !.step = step]} :
        req' = [req EXCEPT ![h] = q]
  OBVIOUS
<1>2. /\ q \in Call /\ q.step = step /\ q.awaited = req[h].awaited
      /\ q.s = req[h].s /\ q.from = req[h].from /\ q.len = req[h].len
  BY <1>0, <1>1 DEF Call
<1>3. PICK c \in Call : c = req[h]
  BY <1>0
<1>4. CallSound(c)'
  BY <1>0, <1>3, CallKept
<1>5. CallSound(q)'
  BY <1>2, <1>3, <1>4 DEF CallSound
<1>6. WaitSound(q)'
  BY <1>0, <1>2 DEF WaitSound
<1> QED
  BY <1>1, <1>2, <1>5, <1>6

-----------------------------------------------------------------------------
\* A request that claims and writes nothing leaves the offsets as they are.
LEMMA OffsetsKept ==
  ASSUME TransferInv, OffsetsSound, NEW h \in Handlers, NEW q \in Call, req' = [req EXCEPT ![h] = q],
         temp' = temp, received' \in [Sessions -> -1..Size],
         \A s \in Sessions : received'[s] = received[s] \/ received'[s] = -1,
         \A s \in Sessions : place'[s] = "stored" => place[s] = "stored",
         Holding(q) => Holder(h) /\ q.s = req[h].s /\ q.from = req[h].from /\ q.len = req[h].len,
         q.step = "place" => temp[q.s] = Intact
  PROVE  OffsetsSound'
<1>1. req \in [Handlers -> Call] /\ \A g \in Handlers : req'[g] = IF g = h THEN q ELSE req[g]
  BY DEF TransferInv, CallsTypeOK
<1>2. \A g \in Handlers : /\ Holder(g)' => Holder(g)
                          /\ Holder(g)' => req'[g].s = req[g].s /\ req'[g].from = req[g].from /\ req'[g].len = req[g].len
  BY <1>1 DEF Holder
<1>3. \A g \in Handlers : Holder(g) => req[g].s \in Sessions
  BY DEF TransferInv, CallsSound, CallSound, Holder, Holding, Begun, Created
<1>4. \A g \in Handlers : req'[g].step = "place" => temp[req'[g].s] = Intact
  BY <1>1 DEF OffsetsSound
<1>5. (\A s \in Sessions : IsInjective(temp[s]))'
  BY DEF OffsetsSound
<1>6. (\A s \in Sessions : received[s] # -1 => \A i \in DOMAIN temp[s] : temp[s][i] <= received[s])'
  BY DEF OffsetsSound
<1>7. \A g \in Handlers : Holder(g)' =>
         /\ \A i \in DOMAIN temp[req[g].s] : temp[req[g].s][i] \notin (req[g].from + 1)..(req[g].from + req[g].len)
         /\ received'[req[g].s] # -1 => req[g].from + req[g].len <= received'[req[g].s]
  BY <1>2, <1>3 DEF OffsetsSound
<1>8. \A f, g \in Handlers : Holder(f)' /\ Holder(g)' /\ f # g /\ req'[f].s = req'[g].s =>
         req'[f].from + req'[f].len <= req'[g].from \/ req'[g].from + req'[g].len <= req'[f].from
  BY <1>2 DEF OffsetsSound
<1>9. (\A s \in Sessions : place[s] = "stored" => temp[s] = Intact)'
  BY DEF OffsetsSound, Intact
<1> QED
  BY <1>2, <1>4, <1>5, <1>6, <1>7, <1>8, <1>9 DEF OffsetsSound, Intact

\* A file that is whole has no writer left, and its offset is its size.
LEMMA Whole ==
  ASSUME TransferInv, OffsetsSound, NEW s \in Sessions, temp[s] = Intact
  PROVE  /\ \A h \in Handlers : Holder(h) => req[h].s # s
         /\ received[s] \in {-1, Size}
<1>1. DOMAIN Intact = 1..Size /\ \A i \in 1..Size : Intact[i] = i
  BY DEF Intact
<1>2. ASSUME NEW h \in Handlers, Holder(h), req[h].s = s PROVE FALSE
  <2>1. req[h] \in Call /\ req[h].len >= 1 /\ req[h].from + req[h].len <= Size
    BY <1>2 DEF TransferInv, CallsTypeOK, CallsSound, CallSound, Holder, Holding, AppendSteps
  <2>2. req[h].from \in 0..Size /\ req[h].len \in 0..Size
    BY <2>1 DEF Call
  <2>3. req[h].from + 1 \in 1..Size /\ req[h].from + 1 \in (req[h].from + 1)..(req[h].from + req[h].len)
    BY <2>1, <2>2, UploadsAssumption
  <2>4. \A i \in DOMAIN temp[s] : temp[s][i] \notin (req[h].from + 1)..(req[h].from + req[h].len)
    BY <1>2 DEF OffsetsSound
  <2> QED
    BY <1>1, <2>3, <2>4
<1>3. received[s] \in {-1, Size}
  <2>1. received[s] \in -1..Size /\ Size \in 1..Size
    BY UploadsAssumption DEF TransferInv, ServerTypeOK
  <2>2. received[s] # -1 => Intact[Size] <= received[s]
    BY <1>1, <2>1 DEF OffsetsSound
  <2> QED
    BY <1>1, <2>1, <2>2, UploadsAssumption
<1> QED
  BY <1>2, <1>3

\* Bytes behind what is there, of a range none of it is in.
Bytes(from, len) == [i \in 1..len |-> from + i]
InFile(S, from, len) == S \in Seq(1..Size) /\ from \in 0..Size /\ len \in 0..Size /\ from + len <= Size
Fresh(S, from, len) ==
    /\ InFile(S, from, len) /\ IsInjective(S)
    /\ \A i \in DOMAIN S : S[i] \notin (from + 1)..(from + len)

LEMMA BytesAppended ==
  ASSUME NEW S, NEW from, NEW len, InFile(S, from, len)
  PROVE  /\ Bytes(from, len) \in Seq(1..Size) /\ S \o Bytes(from, len) \in Seq(1..Size)
         /\ DOMAIN S = 1..Len(S) /\ Len(S) \in Nat /\ DOMAIN (S \o Bytes(from, len)) = 1..(Len(S) + len)
         /\ \A i \in 1..Len(S) : (S \o Bytes(from, len))[i] = S[i]
         /\ \A i \in (Len(S) + 1)..(Len(S) + len) : (S \o Bytes(from, len))[i] = from + (i - Len(S))
<1>0. S \in Seq(1..Size) /\ from \in 0..Size /\ len \in 0..Size /\ from + len <= Size /\ Size \in Nat
  BY UploadsAssumption DEF InFile
<1> DEFINE C == Bytes(from, len)
<1>1. C \in Seq(1..Size) /\ Len(C) = len /\ \A i \in 1..len : C[i] = from + i
  BY <1>0 DEF Bytes
<1>2. DOMAIN S = 1..Len(S) /\ Len(S) \in Nat
  BY <1>0
<1> DEFINE T == S \o C
<1> HIDE DEF C
<1>3. /\ T \in Seq(1..Size) /\ Len(T) = Len(S) + Len(C)
      /\ \A i \in 1..(Len(S) + Len(C)) : T[i] = IF i <= Len(S) THEN S[i] ELSE C[i - Len(S)]
  BY <1>0, <1>1, ConcatProperties
<1> HIDE DEF T
<1>4. DOMAIN T = 1..(Len(S) + len)
  BY <1>1, <1>3
<1>5. \A i \in 1..Len(S) : T[i] = S[i]
  BY <1>0, <1>1, <1>2, <1>3
<1>6. \A i \in (Len(S) + 1)..(Len(S) + len) : T[i] = from + (i - Len(S))
  BY <1>0, <1>1, <1>2, <1>3
<1> QED
  BY <1>1, <1>2, <1>3, <1>4, <1>5, <1>6 DEF T, C

LEMMA Appended ==
  ASSUME NEW S, NEW from, NEW len, Fresh(S, from, len)
  PROVE  /\ IsInjective(S \o Bytes(from, len))
         /\ \A i \in DOMAIN (S \o Bytes(from, len)) :
               (\E j \in DOMAIN S : (S \o Bytes(from, len))[i] = S[j])
               \/ (S \o Bytes(from, len))[i] \in (from + 1)..(from + len)
<1> DEFINE T == S \o Bytes(from, len)
<1>0. from \in 0..Size /\ len \in 0..Size /\ Size \in Nat /\ InFile(S, from, len)
  BY UploadsAssumption DEF Fresh, InFile
<1>3. /\ DOMAIN S = 1..Len(S) /\ Len(S) \in Nat /\ DOMAIN T = 1..(Len(S) + len)
      /\ \A i \in 1..Len(S) : T[i] = S[i]
      /\ \A i \in (Len(S) + 1)..(Len(S) + len) : T[i] = from + (i - Len(S))
  BY <1>0, BytesAppended
<1> HIDE DEF T
<1>4. \A i \in DOMAIN T : (\E j \in DOMAIN S : T[i] = S[j]) \/ T[i] \in (from + 1)..(from + len)
  BY <1>0, <1>3
<1>5. IsInjective(T)
  <2> SUFFICES ASSUME NEW a \in DOMAIN T, NEW b \in DOMAIN T, T[a] = T[b] PROVE a = b
    BY DEF IsInjective
  <2>1. CASE a <= Len(S) /\ b <= Len(S)
    BY <1>3, <2>1 DEF IsInjective, Fresh
  <2>2. CASE a > Len(S) /\ b > Len(S)
    BY <1>0, <1>3, <2>2
  <2>3. CASE a <= Len(S) /\ b > Len(S)
    <3>1. T[a] \notin (from + 1)..(from + len)
      BY <1>3, <2>3 DEF Fresh
    <3>2. T[b] \in (from + 1)..(from + len)
      BY <1>0, <1>3, <2>3
    <3> QED BY <3>1, <3>2
  <2>4. CASE a > Len(S) /\ b <= Len(S)
    <3>1. T[b] \notin (from + 1)..(from + len)
      BY <1>3, <2>4 DEF Fresh
    <3>2. T[a] \in (from + 1)..(from + len)
      BY <1>0, <1>3, <2>4
    <3> QED BY <3>1, <3>2
  <2> QED
    BY <1>3, <2>1, <2>2, <2>3, <2>4
<1> QED
  BY <1>4, <1>5 DEF T

\* A write that fails leaves some of the chunk.
Torn(S, from, len, n) == InFile(S, from, len) /\ n \in 0..len

LEMMA PartAppended ==
  ASSUME NEW S, NEW from, NEW len, NEW n, Torn(S, from, len, n)
  PROVE  /\ S \o SubSeq(Bytes(from, len), 1, n) \in Seq(1..Size)
         /\ n = 0 => S \o SubSeq(Bytes(from, len), 1, n) = S
<1>0. S \in Seq(1..Size) /\ from \in 0..Size /\ len \in 0..Size /\ from + len <= Size /\ Size \in Nat /\ n \in 0..len
  BY UploadsAssumption DEF InFile, Torn
<1>1. \A i \in 1..n : Bytes(from, len)[i] \in 1..Size
  BY <1>0 DEF Bytes
<1>2. SubSeq(Bytes(from, len), 1, n) \in Seq(1..Size)
  <2>1. n \in Int /\ 1 \in Int
    BY <1>0
  <2> QED
    BY <1>1, <2>1, SubSeqProperties, ZenonT(20)
<1>3. S \o SubSeq(Bytes(from, len), 1, n) \in Seq(1..Size)
  BY <1>0, <1>2, ConcatProperties
<1>4. n = 0 => SubSeq(Bytes(from, len), 1, n) = <<>>
  BY SubSeqEmpty
<1> QED
  BY <1>0, <1>3, <1>4, ConcatEmptySeq

-----------------------------------------------------------------------------
(***************************************************************************)
(* The steps of the handlers.                                               *)
(***************************************************************************)
Slips == {"torn", "leaked", "discarded"}
\* What most steps leave alone, but for a slip they may note.
Quiet(noted) == UNCHANGED <<received, temp, place, files, client, kept>> /\ slips' = slips \cup noted

LEMMA QuietServer ==
  ASSUME TransferInv, NEW noted \in SUBSET (Slips \ {"torn"}), Quiet(noted)
  PROVE  /\ GoesOn /\ ServerTypeOK' /\ ServerSound' /\ client' = client /\ kept' = kept
         /\ "torn" \notin slips' => OffsetsSound
<1>1. GoesOn
  BY Untouched DEF Quiet
<1>2. ServerTypeOK' /\ ServerSound'
  BY DEF Quiet, TransferInv, ServerTypeOK, ServerSound, RowsHaveBytes, Stored, Slips
<1> QED
  BY <1>1, <1>2 DEF Quiet, TransferInv

LEMMA QuietReply ==
  ASSUME TransferInv, Quiet({}), NEW h \in Handlers, NEW code \in Codes, Answer(h, code), req[h].step # "free",
         code = "404" /\ client.pc = "finishing" /\ req[h].awaited => Settled
  PROVE  TransferInv'
<1>1. /\ GoesOn /\ ServerTypeOK' /\ ServerSound' /\ client' = client /\ kept' = kept
      /\ "torn" \notin slips' => OffsetsSound
  BY QuietServer
<1>2. PICK q \in Call : /\ req' = [req EXCEPT ![h] = q] /\ CallSound(q)' /\ WaitSound(q)'
                        /\ q.awaited => req[h].awaited
                        /\ q.step \in {"free", "answered"}
  BY <1>1, Replied DEF GoesOn
<1>3. ASSUME OffsetsSound PROVE OffsetsSound'
  <2>1. /\ temp' = temp /\ received' = received /\ place' = place /\ received' \in [Sessions -> -1..Size]
        /\ ~Holding(q) /\ q.step # "place"
    BY <1>2 DEF Quiet, Holding, TransferInv, ServerTypeOK
  <2> QED
    BY <1>2, <1>3, <2>1, OffsetsKept
<1> QED
  BY <1>1, <1>2, <1>3, Handled

LEMMA QuietMove ==
  ASSUME TransferInv, NEW noted \in SUBSET (Slips \ {"torn"}), Quiet(noted), NEW h \in Handlers,
         NEW step \in AppendSteps \cup FinishSteps, NEW code \in Codes,
         req' = [req EXCEPT ![h].step = step, ![h].code = code] \/ req' = [req EXCEPT ![h].step = step],
         req[h].step \in AppendSteps \cup FinishSteps, step \in AppendSteps => req[h].step \in AppendSteps,
         req[h].step \in AppendSteps => step \in AppendSteps,
         step = "insert" => Stored, step \in {"drop", "delete"} => Settled',
         step \in {"open", "write", "rollback"} => Holder(h),
         step = "place" => temp[req[h].s] = Intact
  PROVE  TransferInv'
<1>1. /\ GoesOn /\ ServerTypeOK' /\ ServerSound' /\ client' = client /\ kept' = kept
      /\ "torn" \notin slips' => OffsetsSound
  BY QuietServer
<1>2. PICK q \in Call : /\ req' = [req EXCEPT ![h] = q] /\ CallSound(q)' /\ WaitSound(q)'
                        /\ q.awaited => req[h].awaited
                        /\ q.step = step /\ q.s = req[h].s /\ q.from = req[h].from /\ q.len = req[h].len
  <2>1. step = "insert" => Stored'
    BY <1>1 DEF GoesOn
  <2> QED
    BY <1>1, <2>1, Moved
<1>3. ASSUME OffsetsSound PROVE OffsetsSound'
  <2>1. /\ temp' = temp /\ received' = received /\ place' = place /\ received' \in [Sessions -> -1..Size]
        /\ Holding(q) => Holder(h) /\ q.s = req[h].s /\ q.from = req[h].from /\ q.len = req[h].len
        /\ q.step = "place" => temp[q.s] = Intact
    BY <1>2 DEF Quiet, Holding, TransferInv, ServerTypeOK
  <2> QED
    BY <1>2, <1>3, <2>1, OffsetsKept
<1> QED
  BY <1>1, <1>2, <1>3, Handled

\* What is known of a request at work.
LEMMA CallFields ==
  ASSUME TransferInv, NEW h \in Handlers, req[h].step # "free"
  PROVE  /\ req[h] \in Call /\ req[h].s \in Sessions /\ place[req[h].s] # "none"
         /\ req[h].from \in 0..Size /\ req[h].len \in 0..Size /\ req[h].from + req[h].len <= Size
         /\ req[h].step \in AppendSteps => req[h].len >= 1 /\ ~(client.pc = "finishing" /\ req[h].awaited)
         /\ received[req[h].s] \in -1..Size /\ temp[req[h].s] \in Seq(1..Size)
         /\ received[req[h].s] # -1 \/ Settled
<1>1. req[h] \in Call /\ CallSound(req[h]) /\ WaitSound(req[h])
  BY DEF TransferInv, CallsTypeOK, CallsSound
<1>2. Begun(req[h].s)
  BY <1>1 DEF CallSound
<1>3. req[h].step \in AppendSteps => ~(client.pc = "finishing" /\ req[h].awaited)
  BY <1>1 DEF WaitSound, AppendSteps, FinishSteps
<1>4. req[h].from \in 0..Size /\ req[h].len \in 0..Size
  BY <1>1 DEF Call
<1>5. received[req[h].s] \in -1..Size /\ temp[req[h].s] \in Seq(1..Size)
  BY <1>2 DEF TransferInv, ServerTypeOK, Begun, Created
<1> QED
  BY <1>1, <1>2, <1>3, <1>4, <1>5 DEF CallSound, Begun, Created

LEMMA AppendCheckStep ==
  ASSUME TransferInv, NEW h \in Handlers, AppendCheck(h)
  PROVE  TransferInv'
<1>1. Quiet({}) /\ req[h].step = "append"
  BY DEF AppendCheck, Quiet, server, At
<1>2. /\ req[h].step \in AppendSteps /\ ~(client.pc = "finishing" /\ req[h].awaited) /\ req[h].step # "free"
  BY <1>1, CallFields DEF AppendSteps
<1>3. Answer(h, "404") \/ Answer(h, "409") \/ Goto(h, "claim")
  BY DEF AppendCheck
<1>4. CASE Answer(h, "404") \/ Answer(h, "409")
  BY <1>1, <1>2, <1>4, QuietReply DEF Codes
<1>5. CASE Goto(h, "claim")
  <2>1. req' = [req EXCEPT ![h].step = "claim"] /\ {} \in SUBSET (Slips \ {"torn"}) /\ "ok" \in Codes
    BY <1>5 DEF Goto, Codes
  <2>2. "claim" \in AppendSteps \cup FinishSteps /\ "claim" \in AppendSteps
    BY DEF AppendSteps
  <2> QED
    BY <1>1, <1>2, <2>1, <2>2, QuietMove
<1> QED
  BY <1>3, <1>4, <1>5

LEMMA OpenStep ==
  ASSUME TransferInv, NEW h \in Handlers, Open(h)
  PROVE  TransferInv'
<1>1. Quiet({}) /\ req[h].step = "open" /\ Holder(h)
  BY DEF Open, Quiet, server, At, Holder, Holding
<1>2. /\ req[h].step \in AppendSteps /\ ~(client.pc = "finishing" /\ req[h].awaited) /\ req[h].step # "free"
  BY <1>1, CallFields DEF AppendSteps
<1>3. Answer(h, "404") \/ Goto(h, "write")
  BY DEF Open
<1>4. CASE Answer(h, "404")
  BY <1>1, <1>2, <1>4, QuietReply DEF Codes
<1>5. CASE Goto(h, "write")
  <2>1. req' = [req EXCEPT ![h].step = "write"] /\ {} \in SUBSET (Slips \ {"torn"}) /\ "ok" \in Codes
    BY <1>5 DEF Goto, Codes
  <2>2. "write" \in AppendSteps \cup FinishSteps /\ "write" \in AppendSteps
    BY DEF AppendSteps
  <2> QED
    BY <1>1, <1>2, <2>1, <2>2, QuietMove
<1> QED
  BY <1>3, <1>4, <1>5

LEMMA FinishCheckStep ==
  ASSUME TransferInv, NEW h \in Handlers, FinishCheck(h)
  PROVE  TransferInv'
<1>1. Quiet({}) /\ req[h].step = "finish"
  BY DEF FinishCheck, Quiet, server, At
<1>2. req[h].step \in FinishSteps /\ req[h].step # "free" /\ (received[req[h].s] # -1 \/ Settled)
  BY <1>1, CallFields DEF FinishSteps
<1>3. (Answer(h, "404") /\ received[req[h].s] = -1) \/ Answer(h, "400") \/ Goto(h, "hash")
  BY DEF FinishCheck
<1>4. CASE (Answer(h, "404") /\ received[req[h].s] = -1) \/ Answer(h, "400")
  BY <1>1, <1>2, <1>4, QuietReply DEF Codes
<1>5. CASE Goto(h, "hash")
  <2>1. req' = [req EXCEPT ![h].step = "hash"] /\ {} \in SUBSET (Slips \ {"torn"}) /\ "ok" \in Codes
    BY <1>5 DEF Goto, Codes
  <2>2. "hash" \in AppendSteps \cup FinishSteps /\ req[h].step \notin AppendSteps /\ "hash" \notin AppendSteps
    BY <1>1 DEF AppendSteps, FinishSteps
  <2> QED
    BY <1>1, <1>2, <2>1, <2>2, QuietMove
<1> QED
  BY <1>3, <1>4, <1>5

LEMMA HashStep ==
  ASSUME TransferInv, NEW h \in Handlers, Hash(h)
  PROVE  TransferInv'
<1>1. /\ req[h].step = "hash" /\ UNCHANGED <<received, temp, place, files, client, kept>>
      /\ req[h].step \in FinishSteps
  BY DEF Hash, server, At, FinishSteps
<1>2. \/ Answer(h, "500") /\ slips' = slips
      \/ hash_file(req[h].s) /\ Goto(h, "place") /\ slips' = slips
      \/ req' = [req EXCEPT ![h].step = "drop", ![h].code = "500"] /\ slips' = slips \cup {"discarded"}
  BY DEF Hash
<1>3. CASE Answer(h, "500") /\ slips' = slips
  <2>1. Quiet({}) /\ "500" \in Codes /\ req[h].step # "free"
    BY <1>1, <1>3 DEF Quiet, Codes
  <2> QED
    BY <1>3, <2>1, QuietReply
<1>4. CASE hash_file(req[h].s) /\ Goto(h, "place") /\ slips' = slips
  <2>1. /\ Quiet({}) /\ {} \in SUBSET (Slips \ {"torn"}) /\ "ok" \in Codes
        /\ req' = [req EXCEPT ![h].step = "place"] /\ temp[req[h].s] = Intact
    BY <1>1, <1>4 DEF Quiet, Codes, Goto, hash_file
  <2>2. "place" \in AppendSteps \cup FinishSteps /\ req[h].step \notin AppendSteps /\ "place" \notin AppendSteps
    BY <1>1 DEF AppendSteps, FinishSteps
  <2> QED
    BY <1>1, <2>1, <2>2, QuietMove
<1>5. CASE req' = [req EXCEPT ![h].step = "drop", ![h].code = "500"] /\ slips' = slips \cup {"discarded"}
  <2>1. Quiet({"discarded"}) /\ {"discarded"} \in SUBSET (Slips \ {"torn"}) /\ "500" \in Codes /\ Settled'
    BY <1>1, <1>5 DEF Quiet, Codes, Slips, Settled
  <2>2. "drop" \in AppendSteps \cup FinishSteps /\ req[h].step \notin AppendSteps /\ "drop" \notin AppendSteps
    BY <1>1 DEF AppendSteps, FinishSteps
  <2> QED
    BY <1>1, <1>5, <2>1, <2>2, QuietMove
<1> QED
  BY <1>2, <1>3, <1>4, <1>5

LEMMA BytesOfFile ==
  ASSUME NEW S \in Seq(1..Size) PROVE \A i \in DOMAIN S : S[i] \in 1..Size
<1>1. DOMAIN S = 1..Len(S)
  OBVIOUS
<1> QED
  BY <1>1, ElementOfSeq

LEMMA ClaimStep ==
  ASSUME TransferInv, NEW h \in Handlers, Claim(h)
  PROVE  TransferInv'
<1> DEFINE s == req[h].s
<1> DEFINE from == req[h].from
<1> DEFINE len == req[h].len
<1>1. req[h].step = "claim" /\ UNCHANGED <<temp, place, files, client, kept, slips>>
  BY DEF Claim, At
<1>2. /\ req[h].step \in AppendSteps /\ req[h].step # "free" /\ s \in Sessions
      /\ from \in 0..Size /\ len \in 0..Size /\ len >= 1 /\ from + len <= Size
      /\ ~(client.pc = "finishing" /\ req[h].awaited)
  BY <1>1, CallFields DEF AppendSteps
<1>3. received' = [received EXCEPT ![s] = IF received[s] = from THEN from + len ELSE received[s]]
  BY DEF Claim, advance
<1>4. received \in [Sessions -> -1..Size]
  BY DEF TransferInv, ServerTypeOK
<1>5. CASE received' = received
  <2>1. Quiet({})
    BY <1>1, <1>5 DEF Quiet
  <2>2. Answer(h, "404") \/ Answer(h, "409")
    BY <1>5 DEF Claim
  <2>3. "404" \in Codes /\ "409" \in Codes
    BY DEF Codes
  <2> QED
    BY <1>2, <2>1, <2>2, <2>3, QuietReply
<1>6. CASE received' # received
  <2>1. received[s] = from /\ received' = [received EXCEPT ![s] = from + len] /\ Goto(h, "open")
    BY <1>2, <1>3, <1>4, <1>6 DEF Claim
  <2>2. /\ received' \in [Sessions -> -1..Size] /\ received'[s] = from + len
        /\ \A t \in Sessions : t # s => received'[t] = received[t]
    BY <1>2, <1>4, <2>1, UploadsAssumption
  <2>3. GoesOn
    BY <1>1, <1>2, <2>1, <2>2, UploadsAssumption DEF GoesOn, Stored, Settled
  <2>4. ServerTypeOK' /\ ServerSound'
    <3>1. place[s] # "none"
      BY <1>1, <1>2, CallFields
    <3> QED
      BY <1>1, <2>2, <3>1 DEF TransferInv, ServerTypeOK, ServerSound, RowsHaveBytes, Stored
  <2>5. "open" \in AppendSteps \cup FinishSteps /\ "open" \in AppendSteps /\ "ok" \in Codes
        /\ req' = [req EXCEPT ![h].step = "open"]
    BY <2>1 DEF AppendSteps, Codes, Goto
  <2>6. PICK q \in Call : /\ req' = [req EXCEPT ![h] = q] /\ CallSound(q)' /\ WaitSound(q)'
                          /\ q.awaited => req[h].awaited
                          /\ q.step = "open" /\ q.s = s /\ q.from = from /\ q.len = len
    BY <1>1, <1>2, <2>3, <2>5, Moved
  <2>7. ASSUME OffsetsSound PROVE OffsetsSound'
    <3>1. req \in [Handlers -> Call] /\ req'[h] = q /\ \A g \in Handlers : g # h => req'[g] = req[g]
      BY <2>6 DEF TransferInv, CallsTypeOK
    <3>2. \A g \in Handlers : g # h => (Holder(g)' <=> Holder(g)) /\ (Holder(g) => req[g].s \in Sessions /\ req[g] \in Call)
      BY <3>1 DEF TransferInv, CallsSound, CallSound, CallsTypeOK, Holder, Holding, Begun, Created
    <3>3. temp' = temp /\ place' = place /\ temp \in [Sessions -> Seq(1..Size)]
      BY <1>1 DEF TransferInv, ServerTypeOK
    <3>4. \A t \in Sessions : received'[t] # -1 => \A i \in DOMAIN temp[t] : temp[t][i] <= received'[t]
      <4> SUFFICES ASSUME NEW t \in Sessions, received'[t] # -1, NEW i \in DOMAIN temp[t] PROVE temp[t][i] <= received'[t]
        OBVIOUS
      <4>0. temp[t] \in Seq(1..Size)
        BY <3>3
      <4>1. temp[t][i] \in 1..Size
        BY <4>0, BytesOfFile
      <4>2. CASE t = s
        <5>1. temp[s][i] <= from
          BY <1>2, <2>1, <2>7, <4>2 DEF OffsetsSound
        <5> QED BY <1>2, <2>2, <4>1, <4>2, <5>1
      <4>3. CASE t # s
        BY <2>2, <2>7, <4>3 DEF OffsetsSound
      <4> QED BY <4>2, <4>3
    <3>5. \A g \in Handlers : Holder(g)' =>
            \A i \in DOMAIN temp[req'[g].s] : temp[req'[g].s][i] \notin (req'[g].from + 1)..(req'[g].from + req'[g].len)
      <4>0. temp[s] \in Seq(1..Size)
        BY <1>2, <3>3
      <4>1. \A i \in DOMAIN temp[s] : temp[s][i] \in 1..Size
        BY <4>0, BytesOfFile
      <4>2. \A i \in DOMAIN temp[s] : temp[s][i] \notin (from + 1)..(from + len)
        <5>1. \A i \in DOMAIN temp[s] : temp[s][i] <= from
          BY <1>2, <2>1, <2>7 DEF OffsetsSound
        <5> QED BY <1>2, <4>1, <5>1
      <4> QED
        BY <2>6, <2>7, <3>1, <3>2, <4>2 DEF OffsetsSound
    <3>6. \A g \in Handlers : g # h /\ Holder(g) /\ req[g].s = s => req[g].from + req[g].len <= from
      BY <1>2, <2>1, <2>7 DEF OffsetsSound
    <3>7. \A g \in Handlers : Holder(g)' /\ received'[req'[g].s] # -1 => req'[g].from + req'[g].len <= received'[req'[g].s]
      <4> SUFFICES ASSUME NEW g \in Handlers, Holder(g)', received'[req'[g].s] # -1
                   PROVE  req'[g].from + req'[g].len <= received'[req'[g].s]
        OBVIOUS
      <4>1. CASE g = h
        BY <1>2, <2>2, <2>6, <3>1, <4>1
      <4>2. CASE g # h /\ req[g].s = s
        <5>1. req[g].from \in 0..Size /\ req[g].len \in 0..Size /\ req[g].from + req[g].len <= from
          BY <3>2, <3>6, <4>2 DEF Call
        <5> QED BY <1>2, <2>2, <3>1, <4>2, <5>1
      <4>3. CASE g # h /\ req[g].s # s
        BY <2>2, <2>7, <3>1, <3>2, <4>3 DEF OffsetsSound
      <4> QED BY <4>1, <4>2, <4>3
    <3>8. \A f, g \in Handlers : Holder(f)' /\ Holder(g)' /\ f # g /\ req'[f].s = req'[g].s =>
            req'[f].from + req'[f].len <= req'[g].from \/ req'[g].from + req'[g].len <= req'[f].from
      BY <2>6, <2>7, <3>1, <3>2, <3>6 DEF OffsetsSound
    <3>9. \A g \in Handlers : req'[g].step = "place" => temp[req'[g].s] = Intact
      BY <2>6, <2>7, <3>1 DEF OffsetsSound
    <3> QED
      BY <2>7, <3>3, <3>4, <3>5, <3>7, <3>8, <3>9 DEF OffsetsSound, Intact
  <2>8. "torn" \notin slips' => OffsetsSound'
    BY <1>1, <2>7 DEF TransferInv
  <2> QED
    BY <1>1, <2>3, <2>4, <2>6, <2>8, Handled
<1> QED
  BY <1>5, <1>6

LEMMA WriteFailsStep ==
  ASSUME TransferInv, NEW h \in Handlers, WriteFails(h)
  PROVE  TransferInv'
<1> DEFINE s == req[h].s
<1>1. req[h].step = "write" /\ Holder(h) /\ UNCHANGED <<received, place, files, client, kept>>
  BY DEF WriteFails, At, Holder, Holding
<1>2. /\ req[h].step \in AppendSteps /\ req[h].step # "free" /\ s \in Sessions
      /\ req[h].from \in 0..Size /\ req[h].len \in 0..Size /\ req[h].len >= 1 /\ req[h].from + req[h].len <= Size
      /\ ~(client.pc = "finishing" /\ req[h].awaited) /\ temp[s] \in Seq(1..Size) /\ place[s] # "none"
  BY <1>1, CallFields DEF AppendSteps
<1>3. PICK n \in 0..(req[h].len - 1) : /\ temp' = [temp EXCEPT ![s] = temp[s] \o SubSeq(Chunk(h), 1, n)]
                                       /\ slips' = slips \cup {x \in {"torn"} : n > 0}
  BY DEF WriteFails
<1>4. /\ temp[s] \o SubSeq(Chunk(h), 1, n) \in Seq(1..Size)
      /\ n = 0 => temp[s] \o SubSeq(Chunk(h), 1, n) = temp[s]
  <2>1. n \in 0..req[h].len
    BY <1>2
  <2>2. Chunk(h) = Bytes(req[h].from, req[h].len)
    BY DEF Chunk, Bytes
  <2>3. Torn(temp[s], req[h].from, req[h].len, n)
    BY <1>2, <2>1 DEF InFile, Torn
  <2>4. PICK S, from, len : S = temp[s] /\ from = req[h].from /\ len = req[h].len
    OBVIOUS
  <2>5. Torn(S, from, len, n) /\ Chunk(h) = Bytes(from, len)
    BY <2>2, <2>3, <2>4
  <2>6. /\ S \o SubSeq(Bytes(from, len), 1, n) \in Seq(1..Size)
        /\ n = 0 => S \o SubSeq(Bytes(from, len), 1, n) = S
    <3>1. S \o SubSeq(Bytes(from, len), 1, n) \in Seq(1..Size)
      BY <2>5, PartAppended
    <3>2. n = 0 => S \o SubSeq(Bytes(from, len), 1, n) = S
      BY <2>5, PartAppended
    <3> QED
      BY <3>1, <3>2
  <2> QED
    BY <2>4, <2>5, <2>6
<1> HIDE DEF s
<1>5. temp \in [Sessions -> Seq(1..Size)] /\ temp' \in [Sessions -> Seq(1..Size)] /\ (n = 0 => temp' = temp)
  BY <1>2, <1>3, <1>4 DEF TransferInv, ServerTypeOK
<1>6. slips \subseteq slips' /\ slips' \subseteq Slips
  BY <1>3 DEF TransferInv, ServerTypeOK, Slips
<1>7. GoesOn
  BY <1>1, <1>6, Untouched
<1>8. ServerTypeOK' /\ ServerSound'
  <2>1. \A t \in Sessions : place[t] = "none" => temp'[t] = temp[t]
    BY <1>2, <1>3, <1>5
  <2> QED
    BY <1>1, <1>5, <1>6, <2>1 DEF TransferInv, ServerTypeOK, ServerSound, RowsHaveBytes, Stored, Slips
<1>9. PICK q \in Call : /\ req' = [req EXCEPT ![h] = q] /\ CallSound(q)' /\ WaitSound(q)'
                        /\ q.awaited => req[h].awaited
                        /\ Holding(q) => q.s = req[h].s /\ q.from = req[h].from /\ q.len = req[h].len
                        /\ q.step # "place"
  <2>1. CASE Goto(h, "rollback")
    <3>1. "rollback" \in AppendSteps \cup FinishSteps /\ "rollback" \in AppendSteps /\ "ok" \in Codes
          /\ req' = [req EXCEPT ![h].step = "rollback"]
      BY <2>1 DEF AppendSteps, Codes, Goto
    <3>2. \E q \in Call : /\ req' = [req EXCEPT ![h] = q] /\ CallSound(q)' /\ WaitSound(q)'
                          /\ q.awaited => req[h].awaited
                          /\ q.step = "rollback" /\ q.s = req[h].s /\ q.from = req[h].from /\ q.len = req[h].len
      BY <1>1, <1>2, <1>7, <3>1, Moved
    <3> QED
      BY <3>2
  <2>2. CASE Answer(h, "500")
    <3>1. "500" \in Codes
      BY DEF Codes
    <3>2. \E q \in Call : /\ req' = [req EXCEPT ![h] = q] /\ CallSound(q)' /\ WaitSound(q)'
                          /\ q.awaited => req[h].awaited
                          /\ q.step \in {"free", "answered"}
      BY <1>1, <1>2, <1>7, <2>2, <3>1, Replied
    <3> QED
      BY <3>2 DEF Holding
  <2> QED
    BY <2>1, <2>2 DEF WriteFails
<1>10. ASSUME "torn" \notin slips' PROVE OffsetsSound'
  <2>1. n = 0 /\ OffsetsSound
    BY <1>3, <1>10 DEF TransferInv
  <2>2. /\ temp' = temp /\ received' = received /\ place' = place /\ received' \in [Sessions -> -1..Size]
    BY <1>1, <1>5, <2>1 DEF TransferInv, ServerTypeOK
  <2> QED
    BY <1>1, <1>9, <2>1, <2>2, OffsetsKept
<1> QED
  BY <1>1, <1>7, <1>8, <1>9, <1>10, Handled

LEMMA WriteStep ==
  ASSUME TransferInv, NEW h \in Handlers, Write(h)
  PROVE  TransferInv'
<1> DEFINE s == req[h].s
<1> DEFINE from == req[h].from
<1> DEFINE len == req[h].len
<1>1. req[h].step = "write" /\ Holder(h) /\ UNCHANGED <<received, place, files, client, kept, slips>>
  BY DEF Write, At, Holder, Holding
<1>2. /\ req[h].step # "free" /\ s \in Sessions
      /\ from \in 0..Size /\ len \in 0..Size /\ len >= 1 /\ from + len <= Size
      /\ ~(client.pc = "finishing" /\ req[h].awaited) /\ temp[s] \in Seq(1..Size) /\ place[s] # "none"
  BY <1>1, CallFields DEF AppendSteps
<1> DEFINE T == temp[s] \o Chunk(h)
<1>3. temp' = [temp EXCEPT ![s] = T] /\ Answer(h, "ok")
  BY DEF Write
<1>4. T = temp[s] \o Bytes(from, len)
  BY DEF Chunk, Bytes
<1>5. T \in Seq(1..Size)
  <2>1. InFile(temp[s], from, len)
    BY <1>2 DEF InFile
  <2> QED
    BY <1>4, <2>1, BytesAppended
<1> HIDE DEF T
<1>6. temp \in [Sessions -> Seq(1..Size)] /\ temp' \in [Sessions -> Seq(1..Size)]
      /\ temp'[s] = T /\ \A t \in Sessions : t # s => temp'[t] = temp[t]
  BY <1>2, <1>3, <1>5 DEF TransferInv, ServerTypeOK
<1>7. GoesOn
  BY <1>1, Untouched
<1>8. ServerTypeOK' /\ ServerSound'
  BY <1>1, <1>2, <1>6 DEF TransferInv, ServerTypeOK, ServerSound, RowsHaveBytes, Stored
<1>9. PICK q \in Call : /\ req' = [req EXCEPT ![h] = q] /\ CallSound(q)' /\ WaitSound(q)'
                        /\ q.awaited => req[h].awaited
                        /\ q.step \in {"free", "answered"}
  <2>1. "ok" \in Codes
    BY DEF Codes
  <2> QED
    BY <1>1, <1>2, <1>3, <1>7, <2>1, Replied
<1>10. ASSUME OffsetsSound PROVE OffsetsSound'
  <2>1. /\ req \in [Handlers -> Call] /\ ~Holder(h)' /\ req'[h].step # "place"
        /\ \A g \in Handlers : g # h => req'[g] = req[g]
    BY <1>9 DEF TransferInv, CallsTypeOK, Holder, Holding
  <2>2. \A g \in Handlers : Holder(g)' => g # h /\ Holder(g) /\ req'[g] = req[g]
    BY <2>1 DEF Holder
  <2>3. \A g \in Handlers : Holder(g) => req[g].s \in Sessions /\ req[g].from \in 0..Size /\ req[g].len \in 0..Size
    BY DEF TransferInv, CallsSound, CallSound, CallsTypeOK, Call, Holder, Holding, Begun, Created
  <2>4. /\ IsInjective(T)
        /\ \A i \in DOMAIN T : (\E j \in DOMAIN temp[s] : T[i] = temp[s][j]) \/ T[i] \in (from + 1)..(from + len)
    <3>1. IsInjective(temp[s]) /\ \A i \in DOMAIN temp[s] : temp[s][i] \notin (from + 1)..(from + len)
      BY <1>1, <1>2, <1>10 DEF OffsetsSound
    <3>2. Fresh(temp[s], from, len)
      BY <1>2, <3>1 DEF Fresh, InFile
    <3> QED
      BY <1>4, <3>2, Appended
  <2>5. \A t \in Sessions : IsInjective(temp'[t])
    BY <1>6, <1>10, <2>4 DEF OffsetsSound
  <2>6. \A t \in Sessions : received[t] # -1 => \A i \in DOMAIN temp'[t] : temp'[t][i] <= received[t]
    <3>1. ASSUME received[s] # -1, NEW i \in DOMAIN T PROVE T[i] <= received[s]
      <4>1. from + len <= received[s] /\ received[s] \in -1..Size
        BY <1>1, <1>2, <1>10, <3>1 DEF OffsetsSound, TransferInv, ServerTypeOK
      <4>2. \A j \in DOMAIN temp[s] : temp[s][j] <= received[s]
        BY <1>2, <1>10, <3>1 DEF OffsetsSound
      <4> QED
        BY <1>2, <2>4, <4>1, <4>2
    <3> QED
      BY <1>6, <1>10, <3>1 DEF OffsetsSound
  <2>7. ASSUME NEW g \in Handlers, Holder(g)'
        PROVE  \A i \in DOMAIN temp'[req'[g].s] :
                 temp'[req'[g].s][i] \notin (req'[g].from + 1)..(req'[g].from + req'[g].len)
    <3>1. g # h /\ Holder(g) /\ req'[g] = req[g] /\ req[g].s \in Sessions
          /\ req[g].from \in 0..Size /\ req[g].len \in 0..Size
      BY <2>2, <2>3, <2>7
    <3>2. CASE req[g].s = s
      <4>1. from + len <= req[g].from \/ req[g].from + req[g].len <= from
        BY <1>1, <1>10, <3>1, <3>2 DEF OffsetsSound
      <4>2. \A j \in DOMAIN temp[s] : temp[s][j] \notin (req[g].from + 1)..(req[g].from + req[g].len)
        BY <1>10, <3>1, <3>2 DEF OffsetsSound
      <4>3. \A x \in (from + 1)..(from + len) : x \notin (req[g].from + 1)..(req[g].from + req[g].len)
        BY <1>2, <3>1, <4>1, SMTT(30)
      <4> QED
        BY <1>6, <2>4, <3>1, <3>2, <4>2, <4>3
    <3>3. CASE req[g].s # s
      BY <1>6, <1>10, <3>1, <3>3 DEF OffsetsSound
    <3> QED BY <3>2, <3>3
  <2>8. \A g \in Handlers : Holder(g)' /\ received[req'[g].s] # -1 => req'[g].from + req'[g].len <= received[req'[g].s]
    BY <1>10, <2>2 DEF OffsetsSound
  <2>9. \A f, g \in Handlers : Holder(f)' /\ Holder(g)' /\ f # g /\ req'[f].s = req'[g].s =>
          req'[f].from + req'[f].len <= req'[g].from \/ req'[g].from + req'[g].len <= req'[f].from
    BY <1>10, <2>2 DEF OffsetsSound
  <2>10. temp[s] # Intact
    BY <1>1, <1>2, <1>10, Whole
  <2>11. \A g \in Handlers : req'[g].step = "place" => temp'[req'[g].s] = Intact
    <3> SUFFICES ASSUME NEW g \in Handlers, req'[g].step = "place" PROVE temp'[req'[g].s] = Intact
      OBVIOUS
    <3>1. g # h /\ req'[g] = req[g] /\ temp[req[g].s] = Intact /\ req[g].s # s
      BY <1>10, <2>1, <2>10 DEF OffsetsSound
    <3>2. req[g].s \in Sessions
      BY <3>1, CallFields
    <3> QED
      BY <1>6, <3>1, <3>2
  <2>12. \A t \in Sessions : place[t] = "stored" => temp'[t] = Intact
    BY <1>6, <1>10, <2>10 DEF OffsetsSound
  <2> QED
    BY <1>1, <2>5, <2>6, <2>7, <2>8, <2>9, <2>11, <2>12 DEF OffsetsSound, Intact
<1>11. "torn" \notin slips' => OffsetsSound'
  BY <1>1, <1>10 DEF TransferInv
<1> QED
  BY <1>1, <1>7, <1>8, <1>9, <1>11, Handled

LEMMA RollbackStep ==
  ASSUME TransferInv, NEW h \in Handlers, Rollback(h)
  PROVE  TransferInv'
<1> DEFINE s == req[h].s
<1> DEFINE from == req[h].from
<1> DEFINE len == req[h].len
<1>1. req[h].step = "rollback" /\ Holder(h) /\ UNCHANGED <<temp, place, files, client, kept, slips>> /\ Answer(h, "500")
  BY DEF Rollback, At, Holder, Holding
<1>2. /\ req[h].step # "free" /\ s \in Sessions
      /\ from \in 0..Size /\ len \in 0..Size /\ len >= 1 /\ from + len <= Size
      /\ ~(client.pc = "finishing" /\ req[h].awaited) /\ place[s] # "none"
  BY <1>1, CallFields DEF AppendSteps
<1>3. received \in [Sessions -> -1..Size] /\ temp \in [Sessions -> Seq(1..Size)]
  BY DEF TransferInv, ServerTypeOK
<1>4. received' = [received EXCEPT ![s] = IF received[s] = from + len THEN from ELSE received[s]]
  <2>1. received' = [received EXCEPT ![s] = IF received[s] = from + len THEN (from + len) + (-len) ELSE received[s]]
    BY DEF Rollback, advance
  <2>2. (from + len) + (-len) = from
    BY <1>2, UploadsAssumption
  <2> QED
    BY <2>1, <2>2
<1>5. CASE received[s] # from + len
  <2>1. received' = received
    BY <1>3, <1>4, <1>5
  <2>2. Quiet({}) /\ "500" \in Codes
    BY <1>1, <2>1 DEF Quiet, Codes
  <2> QED
    BY <1>1, <1>2, <2>2, QuietReply
<1>6. CASE received[s] = from + len
  <2>1. /\ received' \in [Sessions -> -1..Size] /\ received'[s] = from
        /\ \A t \in Sessions : t # s => received'[t] = received[t]
    BY <1>2, <1>3, <1>4, <1>6, UploadsAssumption
  <2>2. GoesOn
    BY <1>1, <1>2, <2>1, UploadsAssumption DEF GoesOn, Stored, Settled
  <2>3. ServerTypeOK' /\ ServerSound'
    BY <1>1, <1>2, <2>1 DEF TransferInv, ServerTypeOK, ServerSound, RowsHaveBytes, Stored
  <2>4. PICK q \in Call : /\ req' = [req EXCEPT ![h] = q] /\ CallSound(q)' /\ WaitSound(q)'
                          /\ q.awaited => req[h].awaited
                          /\ q.step \in {"free", "answered"}
    <3>1. "500" \in Codes
      BY DEF Codes
    <3> QED
      BY <1>1, <1>2, <2>2, <3>1, Replied
  <2>5. ASSUME OffsetsSound PROVE OffsetsSound'
    <3>1. /\ req \in [Handlers -> Call] /\ ~Holder(h)' /\ req'[h].step # "place"
          /\ \A g \in Handlers : g # h => req'[g] = req[g]
      BY <2>4 DEF TransferInv, CallsTypeOK, Holder, Holding
    <3>2. \A g \in Handlers : Holder(g)' => g # h /\ Holder(g) /\ req'[g] = req[g]
      BY <3>1 DEF Holder
    <3>3. \A g \in Handlers : Holder(g) => /\ req[g].s \in Sessions /\ req[g].from \in 0..Size /\ req[g].len \in 0..Size
                                           /\ req[g].len >= 1
      BY DEF TransferInv, CallsSound, CallSound, CallsTypeOK, Call, Holder, Holding, Begun, Created, AppendSteps
    <3>4. temp[s] \in Seq(1..Size)
      BY <1>2, <1>3
    <3>5. \A i \in DOMAIN temp[s] : temp[s][i] <= from
      <4>1. \A i \in DOMAIN temp[s] : temp[s][i] \in 1..Size
        BY <3>4, BytesOfFile
      <4>2. \A i \in DOMAIN temp[s] : temp[s][i] <= from + len
        BY <1>2, <1>6, <2>5 DEF OffsetsSound
      <4>3. \A i \in DOMAIN temp[s] : temp[s][i] \notin (from + 1)..(from + len)
        BY <1>1, <2>5 DEF OffsetsSound
      <4> QED
        BY <1>2, <4>1, <4>2, <4>3
    <3>6. \A t \in Sessions : received'[t] # -1 => \A i \in DOMAIN temp[t] : temp[t][i] <= received'[t]
      BY <2>1, <2>5, <3>5 DEF OffsetsSound
    <3>7. \A g \in Handlers : Holder(g)' /\ received'[req'[g].s] # -1 => req'[g].from + req'[g].len <= received'[req'[g].s]
      <4> SUFFICES ASSUME NEW g \in Handlers, Holder(g)', received'[req'[g].s] # -1
                   PROVE  req[g].from + req[g].len <= received'[req[g].s]
        BY <3>2
      <4>1. g # h /\ Holder(g) /\ req'[g] = req[g] /\ req[g].s \in Sessions
            /\ req[g].from \in 0..Size /\ req[g].len \in 0..Size /\ req[g].len >= 1
        BY <3>2, <3>3
      <4>2. CASE req[g].s = s
        <5>1. req[g].from + req[g].len <= from + len
          BY <1>2, <1>6, <2>5, <4>1, <4>2 DEF OffsetsSound
        <5>2. from + len <= req[g].from \/ req[g].from + req[g].len <= from
          BY <1>1, <2>5, <4>1, <4>2 DEF OffsetsSound
        <5> QED
          BY <1>2, <2>1, <4>1, <4>2, <5>1, <5>2
      <4>3. CASE req[g].s # s
        BY <2>1, <2>5, <4>1, <4>3 DEF OffsetsSound
      <4> QED BY <4>2, <4>3
    <3>8. \A f, g \in Handlers : Holder(f)' /\ Holder(g)' /\ f # g /\ req'[f].s = req'[g].s =>
            req'[f].from + req'[f].len <= req'[g].from \/ req'[g].from + req'[g].len <= req'[f].from
      BY <2>5, <3>2 DEF OffsetsSound
    <3>9. \A g \in Handlers : Holder(g)' =>
            \A i \in DOMAIN temp[req'[g].s] : temp[req'[g].s][i] \notin (req'[g].from + 1)..(req'[g].from + req'[g].len)
      BY <2>5, <3>2 DEF OffsetsSound
    <3>10. \A g \in Handlers : req'[g].step = "place" => temp[req'[g].s] = Intact
      BY <2>5, <3>1 DEF OffsetsSound
    <3> QED
      BY <1>1, <2>5, <3>6, <3>7, <3>8, <3>9, <3>10 DEF OffsetsSound, Intact
  <2>6. "torn" \notin slips' => OffsetsSound'
    BY <1>1, <2>5 DEF TransferInv
  <2> QED
    BY <1>1, <2>2, <2>3, <2>4, <2>6, Handled
<1> QED
  BY <1>5, <1>6

\* The file takes its place in the store: it is whole.
LEMMA PlaceStep ==
  ASSUME TransferInv, NEW h \in Handlers, Place(h)
  PROVE  TransferInv'
<1> DEFINE s == req[h].s
<1>1. req[h].step = "place" /\ UNCHANGED <<received, temp, files, client, kept, slips>>
  BY DEF Place, At
<1>2. req[h].step \in FinishSteps /\ req[h].step # "free" /\ s \in Sessions /\ place[s] # "none"
  BY <1>1, CallFields DEF FinishSteps
<1>3. place \in [Sessions -> {"none", "temp", "stored", "gone"}]
  BY DEF TransferInv, ServerTypeOK
<1>4. CASE place' = place /\ (Answer(h, "403") \/ Answer(h, "500"))
  <2>1. Quiet({}) /\ "403" \in Codes /\ "500" \in Codes
    BY <1>1, <1>4 DEF Quiet, Codes
  <2> QED
    BY <1>2, <1>4, <2>1, QuietReply
<1>5. ASSUME Goto(h, "insert"), NEW at \in {"stored", "gone"}, place' = [place EXCEPT ![s] = at] \/ place' = place,
             Stored'
      PROVE TransferInv'
  <2>1. /\ place' \in [Sessions -> {"none", "temp", "stored", "gone"}]
        /\ \A t \in Sessions : place'[t] = place[t] \/ (t = s /\ place'[t] = at)
    BY <1>2, <1>3, <1>5
  <2>2. GoesOn
    <3>1. \A t \in Sessions : place[t] # "none" => place'[t] # "none"
      BY <2>1
    <3>2. received' = received /\ slips' = slips /\ (Settled => Settled') /\ Stored'
      BY <1>1, <1>5 DEF Settled
    <3> QED
      BY <3>1, <3>2 DEF GoesOn
  <2>3. ServerTypeOK' /\ ServerSound'
    <3>1. \A t \in Sessions : place'[t] = "none" => place[t] = "none"
      BY <2>1
    <3> QED
      BY <1>1, <1>5, <2>1, <3>1 DEF TransferInv, ServerTypeOK, ServerSound, RowsHaveBytes
  <2>4. PICK q \in Call : /\ req' = [req EXCEPT ![h] = q] /\ CallSound(q)' /\ WaitSound(q)'
                          /\ q.awaited => req[h].awaited
                          /\ q.step = "insert" /\ q.s = s /\ q.from = req[h].from /\ q.len = req[h].len
    <3>1. /\ "insert" \in AppendSteps \cup FinishSteps /\ "insert" \notin AppendSteps /\ req[h].step \notin AppendSteps
          /\ "ok" \in Codes /\ req' = [req EXCEPT ![h].step = "insert"]
      BY <1>1, <1>5 DEF AppendSteps, FinishSteps, Codes, Goto
    <3> QED
      BY <1>1, <1>2, <1>5, <2>2, <3>1, Moved
  <2>5. ASSUME OffsetsSound PROVE OffsetsSound'
    <3>1. temp[s] = Intact
      BY <1>1, <2>5 DEF OffsetsSound
    <3>2. /\ req \in [Handlers -> Call] /\ ~Holder(h)' /\ req'[h].step # "place"
          /\ \A g \in Handlers : g # h => req'[g] = req[g]
      BY <2>4 DEF TransferInv, CallsTypeOK, Holder, Holding
    <3>3. \A g \in Handlers : Holder(g)' => g # h /\ Holder(g) /\ req'[g] = req[g]
      BY <3>2 DEF Holder
    <3>4. \A t \in Sessions : place'[t] = "stored" => temp[t] = Intact
      BY <2>1, <2>5, <3>1 DEF OffsetsSound
    <3>5. \A f, g \in Handlers : Holder(f)' /\ Holder(g)' /\ f # g /\ req'[f].s = req'[g].s =>
            req'[f].from + req'[f].len <= req'[g].from \/ req'[g].from + req'[g].len <= req'[f].from
      BY <2>5, <3>3 DEF OffsetsSound
    <3>6. \A g \in Handlers : Holder(g)' =>
            /\ \A i \in DOMAIN temp[req'[g].s] : temp[req'[g].s][i] \notin (req'[g].from + 1)..(req'[g].from + req'[g].len)
            /\ received[req'[g].s] # -1 => req'[g].from + req'[g].len <= received[req'[g].s]
      BY <2>5, <3>3 DEF OffsetsSound
    <3>7. \A g \in Handlers : req'[g].step = "place" => temp[req'[g].s] = Intact
      BY <2>5, <3>2 DEF OffsetsSound
    <3> QED
      BY <1>1, <2>5, <3>4, <3>5, <3>6, <3>7 DEF OffsetsSound, Intact
  <2>6. "torn" \notin slips' => OffsetsSound'
    BY <1>1, <2>5 DEF TransferInv
  <2> QED
    BY <1>1, <2>2, <2>3, <2>4, <2>6, Handled
<1>6. CASE Stored /\ Goto(h, "insert") /\ place' = [place EXCEPT ![s] = IF place[s] = "temp" THEN "gone" ELSE place[s]]
  <2>1. place' = [place EXCEPT ![s] = "gone"] \/ place' = place
    BY <1>2, <1>3, <1>6
  <2>2. Stored'
    BY <1>2, <1>3, <1>6 DEF Stored
  <2> QED
    BY <1>5, <1>6, <2>1, <2>2
<1>7. CASE place[s] = "temp" /\ Goto(h, "insert") /\ place' = [place EXCEPT ![s] = "stored"]
  <2>1. Stored'
    BY <1>2, <1>3, <1>7 DEF Stored
  <2> QED
    BY <1>5, <1>7, <2>1
<1> QED
  BY <1>4, <1>6, <1>7 DEF Place

LEMMA InsertFileStep ==
  ASSUME TransferInv, NEW h \in Handlers, InsertFile(h)
  PROVE  TransferInv'
<1>1. req[h].step = "insert" /\ UNCHANGED <<received, temp, place, client, kept, slips>>
  BY DEF InsertFile, At
<1>2. req[h].step \in FinishSteps /\ req[h].step # "free" /\ Stored
  <2>1. CallSound(req[h])
    BY DEF TransferInv, CallsSound
  <2> QED
    BY <1>1, <2>1 DEF CallSound, FinishSteps
<1>3. CASE Answer(h, "500") /\ UNCHANGED files
  <2>1. Quiet({}) /\ "500" \in Codes
    BY <1>1, <1>3 DEF Quiet, Codes
  <2> QED
    BY <1>2, <1>3, <2>1, QuietReply
<1>4. CASE files' = Append(files, "mine") /\ req' = [req EXCEPT ![h].step = "drop", ![h].code = "ok"]
  <2>1. files \in Seq({"mine", "older"}) /\ "mine" \in {"mine", "older"}
    BY DEF TransferInv, ServerTypeOK
  <2>2. files' \in Seq({"mine", "older"}) /\ files' # <<>> /\ Len(files') = Len(files) + 1 /\ files'[Len(files) + 1] = "mine"
    BY <1>4, <2>1, AppendProperties
  <2>3. Settled'
    BY <2>2 DEF Settled, Last
  <2>4. Stored'
    BY <1>1, <1>2 DEF Stored
  <2>5. GoesOn
    BY <1>1, <2>3, <2>4 DEF GoesOn
  <2>6. ServerTypeOK' /\ ServerSound'
    BY <1>1, <2>2, <2>4 DEF TransferInv, ServerTypeOK, ServerSound, RowsHaveBytes
  <2>7. PICK q \in Call : /\ req' = [req EXCEPT ![h] = q] /\ CallSound(q)' /\ WaitSound(q)'
                          /\ q.awaited => req[h].awaited
                          /\ q.step = "drop" /\ q.s = req[h].s /\ q.from = req[h].from /\ q.len = req[h].len
    <3>1. /\ "drop" \in AppendSteps \cup FinishSteps /\ "drop" \notin AppendSteps /\ req[h].step \notin AppendSteps
          /\ "ok" \in Codes
      BY <1>1 DEF AppendSteps, FinishSteps, Codes
    <3> QED
      BY <1>1, <1>2, <1>4, <2>3, <2>5, <3>1, Moved
  <2>8. ASSUME OffsetsSound PROVE OffsetsSound'
    <3>1. /\ received' \in [Sessions -> -1..Size] /\ ~Holding(q) /\ q.step # "place"
      BY <1>1, <2>7 DEF TransferInv, ServerTypeOK, Holding
    <3> QED
      BY <1>1, <2>7, <2>8, <3>1, OffsetsKept
  <2>9. "torn" \notin slips' => OffsetsSound'
    BY <1>1, <2>8 DEF TransferInv
  <2> QED
    BY <1>1, <2>5, <2>6, <2>7, <2>9, Handled
<1> QED
  BY <1>3, <1>4 DEF InsertFile

LEMMA DropFileStep ==
  ASSUME TransferInv, NEW h \in Handlers, DropFile(h)
  PROVE  TransferInv'
<1> DEFINE s == req[h].s
<1>1. /\ req[h].step = "drop" /\ UNCHANGED <<received, temp, files, client, kept, slips>> /\ Goto(h, "delete")
      /\ place' = [place EXCEPT ![s] = IF place[s] = "temp" THEN "gone" ELSE place[s]]
  BY DEF DropFile, At
<1>2. req[h].step \in FinishSteps /\ req[h].step # "free" /\ s \in Sessions /\ place[s] # "none" /\ Settled
  <2>1. CallSound(req[h])
    BY DEF TransferInv, CallsSound
  <2> QED
    BY <1>1, <2>1, CallFields DEF CallSound, FinishSteps
<1>3. /\ place' \in [Sessions -> {"none", "temp", "stored", "gone"}]
      /\ \A t \in Sessions : place'[t] = place[t] \/ (place[t] = "temp" /\ place'[t] = "gone")
  BY <1>1, <1>2 DEF TransferInv, ServerTypeOK
<1>4. Settled' /\ (Stored => Stored')
  BY <1>1, <1>2, <1>3 DEF Settled, Stored
<1>5. GoesOn
  BY <1>1, <1>3, <1>4 DEF GoesOn
<1>6. ServerTypeOK' /\ ServerSound'
  <2>1. \A t \in Sessions : place'[t] = "none" => place[t] = "none"
    BY <1>3
  <2> QED
    BY <1>1, <1>3, <1>4, <2>1 DEF TransferInv, ServerTypeOK, ServerSound, RowsHaveBytes
<1>7. PICK q \in Call : /\ req' = [req EXCEPT ![h] = q] /\ CallSound(q)' /\ WaitSound(q)'
                        /\ q.awaited => req[h].awaited
                        /\ q.step = "delete" /\ q.s = s /\ q.from = req[h].from /\ q.len = req[h].len
  <2>1. /\ "delete" \in AppendSteps \cup FinishSteps /\ "delete" \notin AppendSteps /\ req[h].step \notin AppendSteps
        /\ "ok" \in Codes /\ req' = [req EXCEPT ![h].step = "delete"]
    BY <1>1 DEF AppendSteps, FinishSteps, Codes, Goto
  <2> QED
    BY <1>1, <1>2, <1>4, <1>5, <2>1, Moved
<1>8. ASSUME OffsetsSound PROVE OffsetsSound'
  <2>1. /\ received' \in [Sessions -> -1..Size] /\ ~Holding(q) /\ q.step # "place"
        /\ \A t \in Sessions : place'[t] = "stored" => place[t] = "stored"
    BY <1>1, <1>3, <1>7 DEF TransferInv, ServerTypeOK, Holding
  <2> QED
    BY <1>1, <1>7, <1>8, <2>1, OffsetsKept
<1>9. "torn" \notin slips' => OffsetsSound'
  BY <1>1, <1>8 DEF TransferInv
<1> QED
  BY <1>1, <1>5, <1>6, <1>7, <1>9, Handled

LEMMA DeleteRowStep ==
  ASSUME TransferInv, NEW h \in Handlers, DeleteRow(h)
  PROVE  TransferInv'
<1> DEFINE s == req[h].s
<1>1. /\ req[h].step = "delete" /\ UNCHANGED <<temp, place, files, client, kept, slips>> /\ Answer(h, req[h].code)
      /\ received' = [received EXCEPT ![s] = -1]
  BY DEF DeleteRow, At
<1>2. req[h].step # "free" /\ s \in Sessions /\ Settled /\ req[h].code \in Codes
  <2>1. CallSound(req[h]) /\ req[h] \in Call
    BY DEF TransferInv, CallsSound, CallsTypeOK
  <2> QED
    BY <1>1, <2>1, CallFields DEF CallSound, Call
<1>3. /\ received' \in [Sessions -> -1..Size]
      /\ \A t \in Sessions : received'[t] = received[t] \/ received'[t] = -1
  BY <1>1, <1>2, UploadsAssumption DEF TransferInv, ServerTypeOK
<1>4. Settled' /\ (Stored => Stored')
  BY <1>1, <1>2 DEF Settled, Stored
<1>5. GoesOn
  BY <1>1, <1>4 DEF GoesOn
<1>6. ServerTypeOK' /\ ServerSound'
  BY <1>1, <1>3, <1>4 DEF TransferInv, ServerTypeOK, ServerSound, RowsHaveBytes, Stored
<1>7. PICK q \in Call : /\ req' = [req EXCEPT ![h] = q] /\ CallSound(q)' /\ WaitSound(q)'
                        /\ q.awaited => req[h].awaited
                        /\ q.step \in {"free", "answered"}
  <2>1. PICK code \in Codes : code = req[h].code
    BY <1>2
  <2> QED
    BY <1>1, <1>2, <1>4, <1>5, <2>1, Replied
<1>8. ASSUME OffsetsSound PROVE OffsetsSound'
  <2>1. ~Holding(q) /\ q.step # "place"
    BY <1>7 DEF Holding
  <2> QED
    BY <1>1, <1>3, <1>7, <1>8, <2>1, OffsetsKept
<1>9. "torn" \notin slips' => OffsetsSound'
  BY <1>1, <1>8 DEF TransferInv
<1> QED
  BY <1>1, <1>5, <1>6, <1>7, <1>9, Handled

LEMMA SweepStep ==
  ASSUME TransferInv, NEW s \in Sessions, Sweep(s)
  PROVE  TransferInv'
<1>1. /\ received[s] # -1 /\ UNCHANGED <<received, temp, place, files, client, kept>> /\ Sweeper \in Handlers
      /\ slips' = slips \cup {"discarded"}
      /\ req' = [req EXCEPT ![Sweeper] = [Idle EXCEPT !.step = "drop", !.s = s]]
  BY DEF Sweep, server, Handlers
<1>2. Quiet({"discarded"}) /\ {"discarded"} \in SUBSET (Slips \ {"torn"})
  BY <1>1 DEF Quiet, Slips
<1>3. /\ GoesOn /\ ServerTypeOK' /\ ServerSound' /\ client' = client /\ kept' = kept
      /\ "torn" \notin slips' => OffsetsSound
  BY <1>2, QuietServer
<1>4. PICK q \in {[Idle EXCEPT !.step = "drop", !.s = s]} : TRUE
  OBVIOUS
<1>5. q \in Call /\ q.step = "drop" /\ q.s = s /\ q.from = 0 /\ q.len = 0 /\ q.awaited = FALSE
  <2>1. q = [step |-> "drop", s |-> s, from |-> 0, len |-> 0, code |-> "ok", awaited |-> FALSE]
    BY <1>4 DEF Idle
  <2>2. "drop" \in FinishSteps /\ 0 \in 0..Size /\ "ok" \in Codes
    BY UploadsAssumption DEF FinishSteps, Codes
  <2> QED
    BY <2>1, <2>2 DEF Call
<1>6. Settled' /\ Begun(s)'
  BY <1>1 DEF Settled, Begun, Created, TransferInv, ServerSound
<1>7. CallSound(q)' /\ WaitSound(q)' /\ (q.awaited => req[Sweeper].awaited)
  BY <1>5, <1>6, UploadsAssumption DEF CallSound, WaitSound, AppendSteps
<1>8. ASSUME OffsetsSound PROVE OffsetsSound'
  <2>1. ~Holding(q) /\ q.step # "place" /\ received' \in [Sessions -> -1..Size]
    BY <1>1, <1>5 DEF Holding, TransferInv, ServerTypeOK
  <2> QED
    BY <1>1, <1>4, <1>5, <1>8, <2>1, OffsetsKept
<1> QED
  BY <1>1, <1>3, <1>4, <1>5, <1>7, <1>8, Handled

LEMMA CancelStep ==
  ASSUME TransferInv, NEW h \in Handlers, Cancel(h)
  PROVE  TransferInv'
<1>1. UNCHANGED <<received, temp, place, files, client, kept, slips>> /\ req' = [req EXCEPT ![h] = Idle]
  BY DEF Cancel, server
<1>2. Quiet({}) /\ {} \in SUBSET (Slips \ {"torn"})
  BY <1>1 DEF Quiet
<1>3. /\ GoesOn /\ ServerTypeOK' /\ ServerSound' /\ client' = client /\ kept' = kept
      /\ "torn" \notin slips' => OffsetsSound
  BY <1>2, QuietServer
<1>4. CallSound(Idle)' /\ WaitSound(Idle)' /\ Idle \in Call /\ ~Idle.awaited
  BY <1>3, IdleCall, IdleSound, CallKept, WaitKept DEF GoesOn
<1>5. ASSUME OffsetsSound PROVE OffsetsSound'
  <2>1. ~Holding(Idle) /\ Idle.step # "place" /\ received' \in [Sessions -> -1..Size]
    BY <1>1, IdleCall DEF Holding, TransferInv, ServerTypeOK
  <2> QED
    BY <1>1, <1>4, <1>5, <2>1, OffsetsKept
<1> QED
  BY <1>1, <1>3, <1>4, <1>5, Handled

\* Nothing of the transfer changes.
LEMMA TransferRests ==
  ASSUME TransferInv, UNCHANGED <<received, temp, place, files, req, client, kept, slips>>
  PROVE  TransferInv'
<1>1. ServerTypeOK' /\ ClientTypeOK' /\ CallsTypeOK'
  BY DEF TransferInv, ServerTypeOK, ClientTypeOK, CallsTypeOK
<1>2. Settled' = Settled /\ Stored' = Stored
  BY DEF Settled, Stored
<1>3. ServerSound' /\ ClientSound'
  BY <1>2 DEF TransferInv, ServerSound, RowsHaveBytes, ClientSound, Begun, Created, DoneIsMine
<1>4. CallsSound'
  BY <1>2 DEF TransferInv, CallsSound, CallSound, WaitSound, Begun, Created
<1>5. OffsetsSound => OffsetsSound'
  BY DEF OffsetsSound, Holder, Holding, Intact
<1> QED
  BY <1>1, <1>3, <1>4, <1>5 DEF TransferInv

-----------------------------------------------------------------------------
(***************************************************************************)
(* The steps of the client.                                                 *)
(***************************************************************************)
LEMMA ClientGoes ==
  ASSUME TransferInv, UNCHANGED <<received, place, files, slips>>, NEW c \in Transfer, client' = c,
         c.pc \in Active => Begun(c.s), kept' \in Sessions \cup {None}, kept' = None \/ Created(kept'),
         c.pc = "done" /\ "discarded" \notin slips => c.got = "mine"
  PROVE  ClientTypeOK' /\ ClientSound'
<1>1. ClientTypeOK'
  BY DEF ClientTypeOK
<1>2. (client.pc \in Active => Begun(client.s))'
  BY DEF Begun, Created, Settled
<1>3. (kept # None => Created(kept))'
  BY DEF Created
<1>4. DoneIsMine'
  BY DEF DoneIsMine
<1> QED
  BY <1>1, <1>2, <1>3, <1>4 DEF ClientSound

\* The client moves on while it waits for nothing.
LEMMA Unhurried ==
  ASSUME TransferInv, client.pc \notin {"appending", "finishing"},
         UNCHANGED <<received, temp, place, files, req, slips>>, ClientTypeOK', ClientSound'
  PROVE  TransferInv'
<1>1. \A h \in Handlers : req[h] \in Call /\ CallSound(req[h]) /\ ~req[h].awaited
  BY DEF TransferInv, CallsSound, CallsTypeOK, WaitSound
<1>2. ServerTypeOK' /\ ServerSound' /\ CallsTypeOK'
  BY DEF TransferInv, ServerTypeOK, ServerSound, RowsHaveBytes, Stored, CallsTypeOK
<1>3. CallsSound'
  BY <1>1 DEF CallsSound, CallSound, WaitSound, Begun, Created, Settled, Stored
<1>4. OffsetsSound => OffsetsSound'
  BY DEF OffsetsSound, Holder, Holding, Intact
<1> QED
  BY <1>2, <1>3, <1>4 DEF TransferInv

\* The client sends a request, or ends its wait for one.
LEMMA Asked ==
  ASSUME TransferInv, UNCHANGED <<received, temp, place, files, slips>>, ClientTypeOK', ClientSound',
         NEW h \in Handlers, NEW q \in Call, req' = [req EXCEPT ![h] = q], CallSound(q), WaitSound(q)',
         \A g \in Handlers : g # h => ~req[g].awaited,
         Holding(q) => Holder(h) /\ q.s = req[h].s /\ q.from = req[h].from /\ q.len = req[h].len,
         q.step = "place" => req[h].step = "place" /\ q.s = req[h].s
  PROVE  TransferInv'
<1>1. \A g \in Handlers : g # h => req'[g] = req[g] /\ req[g] \in Call /\ CallSound(req[g]) /\ ~req[g].awaited
  BY DEF TransferInv, CallsSound, CallsTypeOK
<1>2. ServerTypeOK' /\ ServerSound' /\ CallsTypeOK' /\ req'[h] = q
  BY DEF TransferInv, ServerTypeOK, ServerSound, RowsHaveBytes, Stored, CallsTypeOK
<1>3. \A g \in Handlers : (CallSound(req[g]) /\ WaitSound(req[g]))'
  <2> SUFFICES ASSUME NEW g \in Handlers PROVE (CallSound(req[g]) /\ WaitSound(req[g]))'
    OBVIOUS
  <2>1. CASE g = h
    BY <1>2, <2>1 DEF CallSound, WaitSound, Begun, Created, Settled, Stored
  <2>2. CASE g # h
    BY <1>1, <2>2 DEF CallSound, WaitSound, Begun, Created, Settled, Stored
  <2> QED BY <2>1, <2>2
<1>4. CallsSound'
  BY <1>1, <1>3 DEF CallsSound
<1>5. OffsetsSound => OffsetsSound'
  <2> SUFFICES ASSUME OffsetsSound PROVE OffsetsSound'
    OBVIOUS
  <2>1. received' \in [Sessions -> -1..Size] /\ (q.step = "place" => temp[q.s] = Intact)
    BY DEF TransferInv, ServerTypeOK, OffsetsSound
  <2> QED
    BY <2>1, OffsetsKept
<1> QED
  BY <1>2, <1>4, <1>5 DEF TransferInv

\* What is known of the client.
LEMMA ClientFields ==
  ASSUME TransferInv
  PROVE  /\ client \in Transfer /\ client.offset \in 0..Size /\ client.chunk \in MinChunk..Ceiling
         /\ client.tries \in Nat /\ client.attempt \in Nat /\ client.s \in Sessions \cup {None}
         /\ kept \in Sessions \cup {None} /\ (kept = None \/ Created(kept))
         /\ client.pc \in Active => Begun(client.s) /\ client.s \in Sessions /\ received[client.s] \in -1..Size
         /\ client.pc = "done" /\ "discarded" \notin slips => client.got = "mine"
<1>1. client \in Transfer /\ kept \in Sessions \cup {None} /\ ClientSound /\ received \in [Sessions -> -1..Size]
  BY DEF TransferInv, ClientTypeOK, ServerTypeOK
<1>2. /\ client.offset \in 0..Size /\ client.chunk \in MinChunk..Ceiling
      /\ client.tries \in Nat /\ client.attempt \in Nat /\ client.s \in Sessions \cup {None}
  BY <1>1 DEF Transfer
<1>3. client.pc \in Active => Begun(client.s) /\ client.s \in Sessions /\ received[client.s] \in -1..Size
  BY <1>1 DEF ClientSound, Begun, Created
<1> QED
  BY <1>1, <1>2, <1>3 DEF ClientSound, DoneIsMine

LEMMA ChunkSizes ==
  ASSUME TransferInv
  PROVE  Double \in MinChunk..Ceiling /\ Halve \in MinChunk..Ceiling /\ MinChunk \in MinChunk..Ceiling
<1>1. client.chunk \in MinChunk..Ceiling
  BY ClientFields
<1>2. Double \in MinChunk..Ceiling
  BY <1>1, UploadsAssumption DEF Double
<1>3. Halve \in MinChunk..Ceiling
  <2>1. client.chunk \in Nat /\ client.chunk \div 2 \in Nat /\ client.chunk \div 2 <= client.chunk
    BY <1>1, UploadsAssumption
  <2> QED
    BY <1>1, <2>1, UploadsAssumption DEF Halve
<1> QED
  BY <1>2, <1>3, UploadsAssumption

\* What remains of the server's state when only the client acts.
ServerRests == UNCHANGED <<received, temp, place, files, slips>>
KeptOrForgotten == kept' \in {kept, None}

LEMMA ClientActs ==
  ASSUME TransferInv, ServerRests, KeptOrForgotten, NEW c \in Transfer, client' = c,
         c.pc \in Active => Begun(c.s), c.pc = "done" /\ "discarded" \notin slips => c.got = "mine"
  PROVE  ClientTypeOK' /\ ClientSound'
<1>1. kept' \in Sessions \cup {None} /\ (kept' = None \/ Created(kept'))
  BY ClientFields DEF KeptOrForgotten
<1>2. UNCHANGED <<received, place, files, slips>>
  BY DEF ServerRests
<1> QED
  BY <1>1, <1>2, ClientGoes

\* What the client's assignments leave of it.
LEMMA TurnShape ==
  ASSUME NEW c0 \in Transfer, NEW pc \in Active \cup {"idle", "begin", "failed"}
  PROVE  LET c == [c0 EXCEPT !.pc = pc] IN c \in Transfer /\ c.pc = pc /\ c.s = c0.s
BY DEF Transfer

Sending(c0, s, offset, chunk) ==
    [c0 EXCEPT !.pc = "send", !.s = s, !.offset = offset, !.chunk = chunk, !.tries = 0, !.lost = FALSE]
LEMMA FromShape ==
  ASSUME NEW c0 \in Transfer, NEW s \in Sessions, NEW offset \in 0..Size, NEW chunk \in MinChunk..Ceiling
  PROVE  /\ Sending(c0, s, offset, chunk) \in Transfer
         /\ Sending(c0, s, offset, chunk).pc = "send" /\ Sending(c0, s, offset, chunk).s = s
<1>1. 0 \in Nat /\ FALSE \in BOOLEAN /\ s \in Sessions \cup {None} /\ "send" \in Active
  BY DEF Active
<1> QED
  BY <1>1 DEF Transfer, Sending

LEMMA AskShape ==
  ASSUME NEW c0 \in Transfer, NEW chunk \in MinChunk..Ceiling
  PROVE  LET c == [c0 EXCEPT !.pc = "recover", !.tries = 0, !.chunk = chunk]
         IN  c \in Transfer /\ c.pc = "recover" /\ c.s = c0.s
<1>1. 0 \in Nat /\ "recover" \in Active
  BY DEF Active
<1> QED
  BY <1>1 DEF Transfer

Finished(c0, got) == [c0 EXCEPT !.pc = "done", !.got = got]
LEMMA DoneShape ==
  ASSUME NEW c0 \in Transfer, NEW got \in {"mine", "older"}
  PROVE  Finished(c0, got) \in Transfer /\ Finished(c0, got).pc = "done" /\ Finished(c0, got).got = got
BY DEF Transfer, Finished

LEMMA AttachShape ==
  ASSUME NEW c0 \in Transfer
  PROVE  LET c == [c0 EXCEPT !.pc = "idle", !.attempt = c0.attempt + 1, !.s = None]
         IN  c \in Transfer /\ c.pc = "idle"
<1>1. c0.attempt + 1 \in Nat
  BY DEF Transfer
<1> QED
  BY <1>1 DEF Transfer

LEMMA AgainShape ==
  ASSUME NEW c0 \in Transfer
  PROVE  LET c == [c0 EXCEPT !.tries = c0.tries + 1] IN c \in Transfer /\ c.pc = c0.pc /\ c.s = c0.s
<1>1. c0.tries + 1 \in Nat
  BY DEF Transfer
<1> QED
  BY <1>1 DEF Transfer

LEMMA CommitShape ==
  ASSUME NEW c0 \in Transfer
  PROVE  LET c == [c0 EXCEPT !.pc = "commit", !.tries = c0.tries + 1, !.lost = TRUE]
         IN  c \in Transfer /\ c.pc = "commit" /\ c.s = c0.s
<1>1. c0.tries + 1 \in Nat /\ "commit" \in Active
  BY DEF Transfer, Active
<1> QED
  BY <1>1 DEF Transfer

LEMMA TurnSound ==
  ASSUME TransferInv, ServerRests, KeptOrForgotten, NEW pc \in Active \cup {"idle", "begin", "failed"}, Turn(pc),
         pc \in Active => client.pc \in Active
  PROVE  ClientTypeOK' /\ ClientSound'
<1>0. client \in Transfer
  BY ClientFields
<1>1. PICK c \in Transfer : client' = c /\ c.pc = pc /\ c.s = client.s
  <2>1. client' \in Transfer /\ client'.pc = pc /\ client'.s = client.s
    BY <1>0, TurnShape DEF Turn
  <2> QED
    BY <2>1
<1>2. c.pc \in Active => Begun(c.s)
  BY <1>1, ClientFields
<1>3. c.pc # "done"
  BY <1>1 DEF Active
<1> QED
  BY <1>1, <1>2, <1>3, ClientActs

LEMMA FromSound ==
  ASSUME TransferInv, ServerRests, KeptOrForgotten, NEW s \in Sessions, Begun(s), NEW offset \in 0..Size,
         NEW chunk \in MinChunk..Ceiling, From(s, offset, chunk)
  PROVE  ClientTypeOK' /\ ClientSound'
<1>0. client \in Transfer
  BY ClientFields
<1>1. PICK c \in Transfer : client' = c /\ c.pc = "send" /\ c.s = s
  <2>1. client' = Sending(client, s, offset, chunk)
    BY DEF From, Sending
  <2> QED
    BY <1>0, <2>1, FromShape
<1> QED
  BY <1>1, ClientActs

LEMMA AskSound ==
  ASSUME TransferInv, ServerRests, KeptOrForgotten, client.pc \in Active,
         NEW chunk \in MinChunk..Ceiling, Ask(chunk)
  PROVE  ClientTypeOK' /\ ClientSound'
<1>0. client \in Transfer
  BY ClientFields
<1>1. PICK c \in Transfer : client' = c /\ c.pc = "recover" /\ c.s = client.s
  <2>1. client' \in Transfer /\ client'.pc = "recover" /\ client'.s = client.s
    BY <1>0, AskShape DEF Ask
  <2> QED
    BY <2>1
<1>2. c.pc \in Active => Begun(c.s)
  BY <1>1, ClientFields
<1> QED
  BY <1>1, <1>2, ClientActs

LEMMA DoneSound ==
  ASSUME TransferInv, ServerRests, KeptOrForgotten, NEW got \in {"mine", "older"}, Done(got),
         "discarded" \notin slips => got = "mine"
  PROVE  ClientTypeOK' /\ ClientSound'
<1>0. client \in Transfer
  BY ClientFields
<1>1. PICK c \in Transfer : client' = c /\ c.pc = "done" /\ c.got = got
  <2>1. client' = Finished(client, got)
    BY DEF Done, Finished
  <2> QED
    BY <1>0, <2>1, DoneShape
<1>2. c.pc \notin Active
  BY <1>1 DEF Active
<1> QED
  BY <1>1, <1>2, ClientActs

LEMMA ResumeStep ==
  ASSUME TransferInv, Resume
  PROVE  TransferInv'
<1>1. client.pc = "idle" /\ ServerRests /\ UNCHANGED <<received, temp, place, files, req, slips>>
  BY DEF Resume, server, ServerRests
<1>2. ClientTypeOK' /\ ClientSound'
  <2>1. CASE kept # None /\ received[kept] # -1 /\ From(kept, received[kept], MinChunk) /\ UNCHANGED kept
    <3>1. PICK s \in Sessions, offset \in 0..Size : s = kept /\ offset = received[kept]
      <4>1. kept \in Sessions /\ received \in [Sessions -> -1..Size]
        BY <2>1, ClientFields DEF TransferInv, ServerTypeOK
      <4>2. received[kept] \in 0..Size
        BY <2>1, <4>1, UploadsAssumption
      <4> QED BY <4>1, <4>2
    <3>2. Begun(s) /\ KeptOrForgotten
      BY <2>1, <3>1, ClientFields DEF Begun, KeptOrForgotten
    <3>3. From(s, offset, MinChunk) /\ MinChunk \in MinChunk..Ceiling
      BY <2>1, <3>1, ChunkSizes
    <3> QED
      BY <1>1, <3>2, <3>3, FromSound
  <2>2. CASE Turn("begin") /\ kept' = None
    <3>1. KeptOrForgotten /\ "begin" \notin Active
      BY <2>2 DEF KeptOrForgotten, Active
    <3> QED
      BY <1>1, <2>2, <3>1, TurnSound
  <2> QED
    BY <2>1, <2>2 DEF Resume
<1> QED
  BY <1>1, <1>2, Unhurried

LEMMA RecoverStep ==
  ASSUME TransferInv, Recover
  PROVE  TransferInv'
<1>1. /\ client.pc = "recover" /\ client.pc \in Active /\ ServerRests /\ KeptOrForgotten
      /\ UNCHANGED <<received, temp, place, files, req, slips>>
  BY DEF Recover, server, ServerRests, KeptOrForgotten, Active
<1>2. ClientTypeOK' /\ ClientSound'
  <2>1. CASE received[client.s] # -1 /\ From(client.s, received[client.s], client.chunk)
    <3>1. PICK s \in Sessions, offset \in 0..Size, chunk \in MinChunk..Ceiling :
            s = client.s /\ offset = received[client.s] /\ chunk = client.chunk
      <4>1. client.s \in Sessions /\ received[client.s] \in 0..Size /\ client.chunk \in MinChunk..Ceiling
        BY <1>1, <2>1, ClientFields, UploadsAssumption
      <4> QED BY <4>1
    <3>2. Begun(s) /\ From(s, offset, chunk)
      BY <1>1, <2>1, <3>1, ClientFields
    <3> QED
      BY <1>1, <3>2, FromSound
  <2>2. CASE Fail
    BY <1>1, <2>2, TurnSound DEF Fail, Active
  <2>3. CASE client' = [client EXCEPT !.tries = client.tries + 1]
    <3>1. PICK c \in Transfer : client' = c /\ c.pc = client.pc /\ c.s = client.s
      <4>1. client \in Transfer
        BY ClientFields
      <4>2. client' \in Transfer /\ client'.pc = client.pc /\ client'.s = client.s
        BY <2>3, <4>1, AgainShape
      <4> QED
        BY <4>2
    <3>2. Begun(c.s) /\ c.pc # "done"
      BY <1>1, <3>1, ClientFields
    <3> QED
      BY <1>1, <3>1, <3>2, ClientActs
  <2> QED
    BY <2>1, <2>2, <2>3 DEF Recover
<1> QED
  BY <1>1, <1>2, Unhurried

LEMMA ReattachStep ==
  ASSUME TransferInv, Reattach
  PROVE  TransferInv'
<1>1. /\ client.pc = "failed" /\ ServerRests /\ KeptOrForgotten
      /\ UNCHANGED <<received, temp, place, files, req, slips>>
  BY DEF Reattach, server, ServerRests, KeptOrForgotten
<1>2. PICK c \in Transfer : client' = c /\ c.pc = "idle"
  <2>1. client \in Transfer
    BY ClientFields
  <2>2. client' \in Transfer /\ client'.pc = "idle"
    BY <2>1, AttachShape DEF Reattach
  <2> QED
    BY <2>2
<1>3. c.pc \notin Active /\ c.pc # "done"
  BY <1>2 DEF Active
<1> QED
  BY <1>1, <1>2, <1>3, ClientActs, Unhurried

\* A wait that ends: the answer is taken, or the request goes on unawaited.
Released(h) == IF req[h].step = "answered" THEN Idle ELSE [req[h] EXCEPT !.awaited = FALSE]

LEMMA Released_Sound ==
  ASSUME TransferInv, NEW h \in Handlers, req[h].awaited, ServerRests, ClientTypeOK', ClientSound',
         req' = [req EXCEPT ![h] = Released(h)] \/ (req[h].step = "answered" /\ req' = [req EXCEPT ![h] = Idle])
  PROVE  TransferInv'
<1>1. PICK q \in {Released(h)} : req' = [req EXCEPT ![h] = q]
  BY DEF Released
<1>2. req[h] \in Call /\ CallSound(req[h])
  BY DEF TransferInv, CallsTypeOK, CallsSound
<1>3. \A g \in Handlers : g # h => ~req[g].awaited
  BY DEF TransferInv, CallsSound
<1>4. CASE req[h].step = "answered"
  <2>1. q = Idle
    BY <1>1, <1>4 DEF Released
  <2>2. q \in Call /\ CallSound(q) /\ ~q.awaited /\ ~Holding(q) /\ q.step # "place"
    BY <2>1, IdleCall, IdleSound DEF Holding
  <2>3. WaitSound(q)'
    BY <2>2 DEF WaitSound
  <2> QED
    BY <1>1, <1>3, <2>2, <2>3, Asked DEF ServerRests
<1>5. CASE req[h].step # "answered"
  <2>1. q = [req[h] EXCEPT !.awaited = FALSE]
    BY <1>1, <1>5 DEF Released
  <2>2. /\ q \in Call /\ q.step = req[h].step /\ q.s = req[h].s /\ q.from = req[h].from /\ q.len = req[h].len
        /\ q.awaited = FALSE
    BY <1>2, <2>1 DEF Call
  <2>3. CallSound(q)
    BY <1>2, <1>5, <2>2 DEF CallSound
  <2>4. WaitSound(q)' /\ (Holding(q) => Holder(h))
    BY <2>2 DEF WaitSound, Holding, Holder
  <2> QED
    BY <1>1, <1>3, <2>2, <2>3, <2>4, Asked DEF ServerRests
<1> QED
  BY <1>4, <1>5

LEMMA UnansweredStep ==
  ASSUME TransferInv, NEW h \in Slots, Unanswered(h)
  PROVE  TransferInv'
<1>1. /\ h \in Handlers /\ req[h].awaited /\ ServerRests /\ KeptOrForgotten
      /\ req' = [req EXCEPT ![h] = Released(h)]
  BY DEF Unanswered, Awaited, Handlers, server, ServerRests, KeptOrForgotten, Released
<1>2. client.pc \in {"appending", "finishing"} /\ client.pc \in Active
  BY <1>1 DEF TransferInv, CallsSound, WaitSound, Active
<1>3. ClientTypeOK' /\ ClientSound'
  <2>1. CASE \E chunk \in {client.chunk, Halve} : Ask(chunk)
    <3>1. PICK chunk \in {client.chunk, Halve} : Ask(chunk)
      BY <2>1
    <3>2. chunk \in MinChunk..Ceiling
      BY ClientFields, ChunkSizes
    <3> QED
      BY <1>1, <1>2, <3>1, <3>2, AskSound
  <2>2. CASE client' = [client EXCEPT !.pc = "commit", !.tries = client.tries + 1, !.lost = TRUE]
    <3>1. client \in Transfer /\ client.tries + 1 \in Nat /\ Begun(client.s)
      BY <1>2, ClientFields
    <3>2. PICK c \in Transfer : client' = c /\ c.pc = "commit" /\ c.s = client.s
      <4>1. client' \in Transfer /\ client'.pc = "commit" /\ client'.s = client.s
        BY <2>2, <3>1, CommitShape
      <4> QED
        BY <4>1
    <3> QED
      BY <1>1, <3>1, <3>2, ClientActs
  <2>3. CASE Fail
    BY <1>1, <2>3, TurnSound DEF Fail, Active
  <2> QED
    BY <2>1, <2>2, <2>3 DEF Unanswered
<1> QED
  BY <1>1, <1>3, Released_Sound

LEMMA ProbeAppendStep ==
  ASSUME TransferInv, NEW h \in Slots, ProbeAppend(h)
  PROVE  TransferInv'
<1>1. /\ h \in Handlers /\ req[h].awaited /\ ServerRests /\ KeptOrForgotten
      /\ req' = [req EXCEPT ![h] = Released(h)]
  BY DEF ProbeAppend, Awaited, Handlers, server, ServerRests, KeptOrForgotten, Released
<1>2. /\ client.pc \in Active /\ From(client.s, received[client.s], client.chunk)
      /\ received[client.s] >= req[h].from + req[h].len
  BY DEF ProbeAppend, Active
<1>3. PICK s \in Sessions, offset \in 0..Size, chunk \in MinChunk..Ceiling :
        s = client.s /\ offset = received[client.s] /\ chunk = client.chunk
  <2>1. client.s \in Sessions /\ received[client.s] \in -1..Size /\ client.chunk \in MinChunk..Ceiling
    BY <1>2, ClientFields
  <2>2. req[h].from \in 0..Size /\ req[h].len \in 0..Size
    BY <1>1 DEF TransferInv, CallsTypeOK, Call
  <2>3. received[client.s] \in 0..Size
    BY <1>2, <2>1, <2>2, UploadsAssumption
  <2> QED
    BY <2>1, <2>3
<1>4. Begun(s) /\ From(s, offset, chunk)
  BY <1>2, <1>3, ClientFields
<1>5. ClientTypeOK' /\ ClientSound'
  BY <1>1, <1>4, FromSound
<1> QED
  BY <1>1, <1>5, Released_Sound

\* adopt_committed finds the file where the session is settled.
LEMMA AdoptSound ==
  ASSUME TransferInv, ServerRests, Adopt, Settled
  PROVE  ClientTypeOK' /\ ClientSound'
<1>1. CASE files = <<>>
  <2>1. Turn("failed") /\ KeptOrForgotten /\ "failed" \notin Active
    BY <1>1 DEF Adopt, Fail, KeptOrForgotten, Active
  <2> QED
    BY <2>1, TurnSound
<1>2. CASE files # <<>>
  <2>1. PICK got \in {"mine", "older"} : got = Last(files)
    <3>1. files \in Seq({"mine", "older"}) /\ Len(files) \in 1..Len(files)
      BY <1>2 DEF TransferInv, ServerTypeOK
    <3> QED
      BY <3>1, ElementOfSeq DEF Last
  <2>2. Done(got) /\ KeptOrForgotten
    BY <1>2, <2>1 DEF Adopt, KeptOrForgotten
  <2>3. "discarded" \notin slips => got = "mine"
    BY <2>1 DEF Settled
  <2> QED
    BY <2>2, <2>3, DoneSound
<1> QED
  BY <1>1, <1>2

LEMMA ProbeFinishStep ==
  ASSUME TransferInv, NEW h \in Slots, ProbeFinish(h)
  PROVE  TransferInv'
<1>1. /\ h \in Handlers /\ req[h].awaited /\ ServerRests /\ Adopt
      /\ req' = [req EXCEPT ![h] = Released(h)]
  BY DEF ProbeFinish, Awaited, Handlers, server, ServerRests, Released
<1>2. Settled
  <2>1. client.pc \in Active /\ received[client.s] = -1
    BY DEF ProbeFinish, Active
  <2>2. Begun(client.s)
    BY <2>1, ClientFields
  <2> QED
    BY <2>1, <2>2 DEF Begun
<1>3. ClientTypeOK' /\ ClientSound'
  BY <1>1, <1>2, AdoptSound
<1> QED
  BY <1>1, <1>3, Released_Sound

LEMMA FinishAnsweredStep ==
  ASSUME TransferInv, NEW h \in Slots, FinishAnswered(h)
  PROVE  TransferInv'
<1>1. /\ h \in Handlers /\ req[h].step = "answered" /\ ServerRests /\ client.pc = "finishing"
      /\ req' = [req EXCEPT ![h] = Idle]
  BY DEF FinishAnswered, At, Handlers, server, ServerRests
<1>2. req[h].awaited /\ (req[h].code = "404" => Settled)
  BY <1>1 DEF TransferInv, CallsSound, CallSound, WaitSound, FinishSteps
<1>3. ClientTypeOK' /\ ClientSound'
  <2>1. CASE Done("mine") /\ kept' = None
    BY <1>1, <2>1, DoneSound DEF KeptOrForgotten
  <2>2. CASE req[h].code = "404" /\ Adopt
    BY <1>1, <1>2, <2>2, AdoptSound
  <2>3. CASE Fail /\ UNCHANGED kept
    <3>1. Turn("failed") /\ KeptOrForgotten /\ "failed" \notin Active
      BY <2>3 DEF Fail, KeptOrForgotten, Active
    <3> QED
      BY <1>1, <3>1, TurnSound
  <2> QED
    BY <2>1, <2>2, <2>3 DEF FinishAnswered
<1> QED
  BY <1>1, <1>2, <1>3, Released_Sound

LEMMA AppendAnsweredStep ==
  ASSUME TransferInv, NEW h \in Slots, AppendAnswered(h)
  PROVE  TransferInv'
<1>1. /\ h \in Handlers /\ req[h].step = "answered" /\ ServerRests /\ KeptOrForgotten /\ client.pc \in Active
      /\ req' = [req EXCEPT ![h] = Idle]
  BY DEF AppendAnswered, At, Handlers, server, ServerRests, KeptOrForgotten, Active
<1>2. req[h].awaited
  BY <1>1 DEF TransferInv, CallsSound, CallSound
<1>3. ClientTypeOK' /\ ClientSound'
  <2>1. CASE From(client.s, req[h].from + req[h].len, Double)
    <3>1. PICK s \in Sessions, offset \in 0..Size, chunk \in MinChunk..Ceiling :
            s = client.s /\ offset = req[h].from + req[h].len /\ chunk = Double
      <4>1. client.s \in Sessions /\ Double \in MinChunk..Ceiling
        BY <1>1, ClientFields, ChunkSizes
      <4>2. req[h].from \in 0..Size /\ req[h].len \in 0..Size /\ req[h].from + req[h].len <= Size
        BY <1>1, CallFields
      <4>3. req[h].from + req[h].len \in 0..Size
        BY <4>2, UploadsAssumption
      <4> QED
        BY <4>1, <4>3
    <3>2. Begun(s) /\ From(s, offset, chunk)
      BY <1>1, <2>1, <3>1, ClientFields
    <3> QED
      BY <1>1, <3>2, FromSound
  <2>2. CASE Ask(client.chunk)
    <3>1. PICK chunk \in MinChunk..Ceiling : chunk = client.chunk
      BY ClientFields
    <3> QED
      BY <1>1, <2>2, <3>1, AskSound
  <2> QED
    BY <2>1, <2>2 DEF AppendAnswered
<1> QED
  BY <1>1, <1>2, <1>3, Released_Sound

LEMMA SendStep ==
  ASSUME TransferInv, NEW h \in Slots, Send(h)
  PROVE  TransferInv'
<1> DEFINE last == client.offset >= Size
<1> DEFINE pc == IF last THEN "finishing" ELSE "appending"
<1> DEFINE len == IF last THEN 0
                  ELSE IF client.chunk < Size - client.offset THEN client.chunk ELSE Size - client.offset
<1> DEFINE new == [step |-> IF last THEN "finish" ELSE "append", s |-> client.s, from |-> client.offset,
                   len |-> len, code |-> "ok", awaited |-> TRUE]
<1>1. /\ h \in Handlers /\ ServerRests /\ KeptOrForgotten /\ client.pc \in Active
      /\ client.pc \notin {"appending", "finishing"} /\ Turn(pc) /\ req' = [req EXCEPT ![h] = new]
  BY DEF Send, Handlers, server, ServerRests, KeptOrForgotten, Active
<1>2. /\ client.offset \in 0..Size /\ client.chunk \in MinChunk..Ceiling /\ client.s \in Sessions
      /\ Begun(client.s) /\ Size \in Nat
  BY <1>1, ClientFields, UploadsAssumption
<1>3. len \in 0..Size /\ client.offset + len <= Size /\ (~last => len >= 1)
  BY <1>2, UploadsAssumption
<1>4. ClientTypeOK' /\ ClientSound'
  <2>1. pc \in Active
    BY DEF Active
  <2> QED
    BY <1>1, <2>1, TurnSound
<1>5. client'.pc = pc
  BY <1>1, ClientFields DEF Turn, Transfer
<1> HIDE DEF len
<1>6. PICK q \in {new} : q = new
  OBVIOUS
<1>7. /\ q \in Call /\ q.step = (IF last THEN "finish" ELSE "append") /\ q.s = client.s
      /\ q.from = client.offset /\ q.len = len /\ q.code = "ok"
  BY <1>2, <1>3, <1>6 DEF Call, AppendSteps, FinishSteps, Codes
<1>8. CallSound(q)
  <2>1. Begun(q.s) /\ q.from + q.len <= Size /\ (q.step \in AppendSteps => q.len >= 1)
    BY <1>2, <1>3, <1>7 DEF AppendSteps
  <2>2. q.step # "insert" /\ q.step \notin {"drop", "delete"} /\ q.step # "free" /\ q.step # "answered"
    BY <1>7
  <2> QED
    BY <2>1, <2>2 DEF CallSound
<1>9. WaitSound(q)'
  BY <1>5, <1>7 DEF WaitSound, FinishSteps
<1>10. ~Holding(q) /\ q.step # "place" /\ \A g \in Handlers : ~req[g].awaited
  BY <1>1, <1>7 DEF Holding, TransferInv, CallsSound, WaitSound
<1> HIDE DEF new
<1> QED
  BY <1>1, <1>4, <1>6, <1>7, <1>8, <1>9, <1>10, Asked DEF ServerRests

\* A session is begun: its temp file, then, unless the handler was dropped, its row.
LEMMA BeginStep ==
  ASSUME TransferInv, Begin
  PROVE  TransferInv'
<1>1. client.pc = "begin" /\ req' = req /\ UNCHANGED <<temp, files>>
  BY DEF Begin, server
<1>2. CASE Fail /\ UNCHANGED <<server, kept, faults, slips>>
  <2>1. /\ ServerRests /\ KeptOrForgotten /\ Turn("failed") /\ "failed" \notin Active
        /\ UNCHANGED <<received, temp, place, files, req, slips>>
    BY <1>1, <1>2 DEF Fail, server, ServerRests, KeptOrForgotten, Active
  <2>2. ClientTypeOK' /\ ClientSound'
    BY <2>1, TurnSound
  <2> QED
    BY <1>1, <2>1, <2>2, Unhurried
<1>3. ASSUME NEW s \in Sessions, place[s] = "none", place' = [place EXCEPT ![s] = "temp"],
             received' = received \/ received' = [received EXCEPT ![s] = 0],
             slips \subseteq slips', slips' \subseteq slips \cup {"leaked"},
             \/ Fail /\ kept' = kept
             \/ From(s, 0, MinChunk) /\ kept' = s /\ received' = [received EXCEPT ![s] = 0]
      PROVE  TransferInv'
  <2>1. /\ received \in [Sessions -> -1..Size] /\ place \in [Sessions -> {"none", "temp", "stored", "gone"}]
        /\ received[s] = -1 /\ temp[s] = <<>> /\ Size \in Nat
    BY <1>3, UploadsAssumption DEF TransferInv, ServerTypeOK, ServerSound
  <2>2. /\ received' \in [Sessions -> -1..Size] /\ place' \in [Sessions -> {"none", "temp", "stored", "gone"}]
        /\ place'[s] = "temp" /\ \A t \in Sessions : t # s => place'[t] = place[t] /\ received'[t] = received[t]
        /\ received'[s] \in {-1, 0}
    BY <1>3, <2>1
  <2>3. Stored' = Stored /\ Settled' = Settled /\ ("torn" \in slips' <=> "torn" \in slips)
    BY <1>1, <1>3, <2>2 DEF Stored, Settled
  <2>4. GoesOn
    BY <1>3, <2>1, <2>2, <2>3 DEF GoesOn
  <2>5. ServerTypeOK' /\ ServerSound'
    BY <1>1, <1>3, <2>2, <2>3 DEF TransferInv, ServerTypeOK, ServerSound, RowsHaveBytes
  <2>6. \A h \in Handlers : req[h] \in Call /\ CallSound(req[h]) /\ ~req[h].awaited /\ (req[h].step # "free" => req[h].s # s)
    BY <1>1, <1>3 DEF TransferInv, CallsSound, CallsTypeOK, CallSound, WaitSound, Begun, Created
  <2>7. CallsTypeOK' /\ CallsSound'
    <3>1. ASSUME NEW h \in Handlers PROVE (CallSound(req[h]) /\ WaitSound(req[h]))'
      <4>1. PICK c \in Call : c = req[h] /\ CallSound(c) /\ ~c.awaited
        BY <2>6
      <4>2. CallSound(c)' /\ req'[h] = c
        BY <1>1, <2>4, <4>1, CallKept
      <4> QED
        BY <4>1, <4>2 DEF CallSound, WaitSound
    <3> QED
      BY <1>1, <2>6, <3>1 DEF CallsSound, CallsTypeOK, TransferInv
  <2>8. ClientTypeOK' /\ ClientSound'
    <3>1. client \in Transfer /\ kept \in Sessions \cup {None} /\ (kept = None \/ Created(kept))
      BY ClientFields
    <3>2. CASE Fail /\ kept' = kept
      <4>1. client' \in Transfer /\ client'.pc = "failed"
        BY <3>1, <3>2, TurnShape DEF Fail, Turn
      <4>2. kept # None => Created(kept)'
        BY <2>4, <3>1, <3>2 DEF Created, GoesOn
      <4> QED
        BY <3>1, <3>2, <4>1, <4>2 DEF ClientTypeOK, ClientSound, DoneIsMine, Active, Created
    <3>3. CASE From(s, 0, MinChunk) /\ kept' = s /\ received' = [received EXCEPT ![s] = 0]
      <4>1. MinChunk \in MinChunk..Ceiling /\ 0 \in 0..Size
        BY ChunkSizes, <2>1
      <4>2. client' \in Transfer /\ client'.pc = "send" /\ client'.s = s
        <5>1. client' = Sending(client, s, 0, MinChunk)
          BY <3>3 DEF From, Sending
        <5> QED
          BY <3>1, <4>1, <5>1, FromShape
      <4>3. received'[s] = 0
        BY <2>1, <3>3
      <4> QED
        BY <2>2, <3>3, <4>2, <4>3 DEF ClientTypeOK, ClientSound, DoneIsMine, Begun, Created
    <3> QED
      BY <1>3, <3>2, <3>3
  <2>9. ASSUME OffsetsSound PROVE OffsetsSound'
    <3>1. \A h \in Handlers : (Holder(h)' <=> Holder(h)) /\ (Holder(h) => req[h].s \in Sessions \ {s})
      BY <1>1, <2>6 DEF Holder, Holding, CallSound, Begun, Created
    <3>2. \A t \in Sessions : received'[t] # -1 => \A i \in DOMAIN temp[t] : temp[t][i] <= received'[t]
      BY <2>1, <2>2, <2>9 DEF OffsetsSound
    <3>3. \A h \in Handlers : Holder(h) /\ received'[req[h].s] # -1 => req[h].from + req[h].len <= received'[req[h].s]
      BY <2>2, <2>9, <3>1 DEF OffsetsSound
    <3>4. \A t \in Sessions : place'[t] = "stored" => temp[t] = Intact
      BY <2>2, <2>9 DEF OffsetsSound
    <3> QED
      BY <1>1, <2>9, <3>1, <3>2, <3>3, <3>4 DEF OffsetsSound, Intact
  <2> QED
    BY <2>3, <2>5, <2>7, <2>8, <2>9 DEF TransferInv
<1>4. ASSUME NEW s \in Sessions, s = Unused, \E t \in Sessions : place[t] = "none" PROVE place[s] = "none"
  BY <1>4 DEF Unused
<1>5. CASE \E t \in Sessions : /\ t = Unused /\ (\E u \in Sessions : place[u] = "none")
                              /\ place' = [place EXCEPT ![t] = "temp"]
                              /\ \/ create(t) /\ kept' = t /\ From(t, 0, MinChunk) /\ slips' = slips
                                 \/ create(t) /\ Fail /\ kept' = kept /\ slips' = slips
                                 \/ Fail /\ slips' = slips \cup {"leaked"} /\ received' = received /\ kept' = kept
  <2>1. PICK s \in Sessions : /\ s = Unused /\ (\E u \in Sessions : place[u] = "none")
                              /\ place' = [place EXCEPT ![s] = "temp"]
                              /\ \/ create(s) /\ kept' = s /\ From(s, 0, MinChunk) /\ slips' = slips
                                 \/ create(s) /\ Fail /\ kept' = kept /\ slips' = slips
                                 \/ Fail /\ slips' = slips \cup {"leaked"} /\ received' = received /\ kept' = kept
    BY <1>5
  <2>2. place[s] = "none"
    BY <1>4, <2>1
  <2> QED
    BY <1>3, <2>1, <2>2 DEF create
<1> QED
  BY <1>2, <1>5 DEF Begin

-----------------------------------------------------------------------------
LEMMA TransferStarts == Init => TransferInv
<1> SUFFICES ASSUME Init PROVE TransferInv
  OBVIOUS
<1>1. ServerTypeOK
  <2>1. -1 \in -1..Size /\ <<>> \in Seq(1..Size)
    BY UploadsAssumption
  <2>2. received \in [Sessions -> -1..Size] /\ temp \in [Sessions -> Seq(1..Size)]
    BY <2>1 DEF Init
  <2>3. place \in [Sessions -> {"none", "temp", "stored", "gone"}] /\ slips \subseteq {"torn", "leaked", "discarded"}
    BY DEF Init
  <2>4. files \in Seq({"mine", "older"})
    <3>1. files = <<"older">> \/ files = <<>>
      BY DEF Init
    <3>2. <<>> \in Seq({"mine", "older"}) /\ "older" \in {"mine", "older"}
      OBVIOUS
    <3>3. Append(<<>>, "older") \in Seq({"mine", "older"}) /\ Append(<<>>, "older") = <<"older">>
      BY <3>2, AppendProperties
    <3> QED
      BY <3>1, <3>2, <3>3
  <2> QED
    BY <2>2, <2>3, <2>4 DEF ServerTypeOK
<1>2. ClientTypeOK
  <2>1. MinChunk \in MinChunk..Ceiling /\ 0 \in 0..Size /\ 0 \in Nat /\ 1 \in Nat /\ FALSE \in BOOLEAN
    BY UploadsAssumption
  <2> QED
    BY <2>1 DEF Init, ClientTypeOK, Transfer
<1>3. CallsTypeOK
  BY IdleCall DEF Init, CallsTypeOK
<1>4. ServerSound /\ ClientSound
  BY DEF Init, ServerSound, RowsHaveBytes, ClientSound, DoneIsMine, Active
<1>5. CallsSound
  BY IdleCall, IdleSound DEF Init, CallsSound
<1>6. OffsetsSound
  BY IdleCall DEF Init, OffsetsSound, IsInjective, Holder, Holding
<1> QED
  BY <1>1, <1>2, <1>3, <1>4, <1>5, <1>6 DEF TransferInv

LEMMA TransferStep ==
  ASSUME TransferInv, Next PROVE TransferInv'
<1>1. ASSUME NEW h \in Handlers, HandlerStep(h) PROVE TransferInv'
  BY <1>1, AppendCheckStep, ClaimStep, OpenStep, WriteStep, RollbackStep, FinishCheckStep, HashStep, PlaceStep,
     InsertFileStep, DropFileStep, DeleteRowStep DEF HandlerStep
<1>2. ASSUME NEW h \in Handlers, WriteFails(h) \/ Cancel(h) PROVE TransferInv'
  BY <1>2, WriteFailsStep, CancelStep
<1>3. ASSUME NEW s \in Sessions, Sweep(s) PROVE TransferInv'
  BY <1>3, SweepStep
<1>4. ASSUME Leave PROVE TransferInv'
  BY <1>4, TransferRests DEF Leave, server
<1>5. ASSUME ClientStep PROVE TransferInv'
  BY <1>5, ResumeStep, BeginStep, RecoverStep, SendStep, AppendAnsweredStep, FinishAnsweredStep DEF ClientStep
<1>6. ASSUME Reattach PROVE TransferInv'
  BY <1>6, ReattachStep
<1>7. ASSUME NEW h \in Slots, Unanswered(h) \/ ProbeAppend(h) \/ ProbeFinish(h) PROVE TransferInv'
  BY <1>7, UnansweredStep, ProbeAppendStep, ProbeFinishStep
<1> QED
  BY <1>1, <1>2, <1>3, <1>4, <1>5, <1>6, <1>7 DEF Next

LEMMA TransferHolds == Spec => []TransferInv
<1>1. ASSUME TransferInv, UNCHANGED vars PROVE TransferInv'
  BY <1>1, TransferRests DEF vars
<1> QED
  BY TransferStarts, TransferStep, <1>1, PTL DEF Spec

\* However the requests of a resumable upload cross, time out, fail and are retried, the
\* server holds each byte of the file once, in its session, and what lies in the store
\* is the file (append and its claim, finish), unless a write was torn.
THEOREM BytesStayIntact == Spec => []BytesIntact
<1>1. TransferInv => BytesIntact
  <2> SUFFICES ASSUME TransferInv PROVE BytesIntact
    OBVIOUS
  <2>1. TypeOK
    BY ClientFields DEF TransferInv, ServerTypeOK, Transfer, TypeOK, Active
  <2>2. OnceOnly /\ StoreHonest
    BY DEF TransferInv, OffsetsSound, OnceOnly, StoreHonest
  <2> QED
    BY <2>1, <2>2 DEF BytesIntact
<1> QED
  BY TransferHolds, <1>1, PTL

\* A row of the room has its bytes, and an upload that reports success hands back the
\* file uploaded, adopted after a lost answer or not (adopt_committed), unless a session
\* was discarded uncommitted.
THEOREM UploadsAreKept == Spec => []UploadKept
<1>1. TransferInv => UploadKept
  BY DEF TransferInv, ServerSound, ClientSound, UploadKept
<1> QED
  BY TransferHolds, <1>1, PTL
=============================================================================
