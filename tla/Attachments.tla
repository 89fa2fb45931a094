---------------------------- MODULE Attachments ----------------------------
(***************************************************************************)
(* One content in one of the two content-addressed stores (data/files,        *)
(* data/images; they share no name and no row) and what names its bytes:      *)
(* uploads and their thumbnails, the rows and messages that point at them,     *)
(* and purge::destroy_room, which gathers what a room was showing, deletes     *)
(* the room, and unlinks what nothing else names.  Handlers interleave at      *)
(* their awaits; a crash may end a purge.                                    *)
(***************************************************************************)
EXTENDS Naturals, FiniteSets

CONSTANTS
    Rooms,
    Posters      \* uploads and thumbnail posts that may be in flight at once

Profile == "profile"   \* an avatar or a taught note: never purged with a room
ASSUME AttachmentsAssumption == Profile \notin Rooms

VARIABLES
    store,   \* which store: "files" or "images"
    rooms,   \* the rooms that exist
    disk,    \* whether the bytes are there
    thumb,   \* whether their thumbnail sidecar is
    refs,    \* which rooms (or the profile) name the bytes
    post,    \* per poster: step and room
    purge,   \* per room: destroy_room's step, and whether it gathered the name
    loose    \* history: "crossed" (posted while a purge that has the name was under
             \* way), "let_go" (a reference dropped without a purge), "died"

attVars == <<store, rooms, disk, thumb, refs, post, purge, loose>>

NoPost == [step |-> "free", room |-> Profile]
AttInit ==
    /\ store \in {"files", "images"} /\ rooms = Rooms
    /\ disk = FALSE /\ thumb = FALSE /\ refs = {} /\ loose = {}
    /\ post = [p \in Posters |-> NoPost]
    /\ purge = [r \in Rooms |-> [step |-> "none", named |-> FALSE]]

Unlinking == \E r \in Rooms : purge[r].step \in {"check", "unlink", "sidecar"} /\ purge[r].named
Posting == \E p \in Posters : post[p].step # "free"
Slip(what, happens) == loose' = loose \cup {x \in {what} : happens}

-----------------------------------------------------------------------------
(***************************************************************************)
(* Uploads.                                                                 *)
(***************************************************************************)

\* files::upload or finalize_upload (membership, path.exists), images::store.
Upload(p, r) ==
    /\ post[p].step = "free" /\ (store = "files" => r \in rooms)
    /\ post' = [post EXCEPT ![p] = [step |-> IF disk THEN "thumb" ELSE "rename", room |-> r]]
    /\ Slip("crossed", Unlinking)
    /\ UNCHANGED <<store, rooms, disk, thumb, refs, purge>>

\* The finished temp file takes its name.
Rename(p) ==
    /\ post[p].step = "rename"
    /\ disk' = TRUE
    /\ post' = [post EXCEPT ![p].step = "thumb"]
    /\ UNCHANGED <<store, rooms, thumb, refs, purge, loose>>

\* thumbs::accompany: nothing to do where there is one or nothing decodes, else
\* render ...
Accompany(p) ==
    /\ post[p].step = "thumb"
    /\ \/ post' = [post EXCEPT ![p].step = "row"]
       \/ ~thumb /\ post' = [post EXCEPT ![p].step = "render"]
    /\ UNCHANGED <<store, rooms, disk, thumb, refs, purge, loose>>

\* ... and thumbs::store, the first writer winning.
StoreThumb(p) ==
    /\ post[p].step = "render"
    /\ thumb' = TRUE
    /\ post' = [post EXCEPT ![p] = IF @.room = Profile THEN NoPost ELSE [@ EXCEPT !.step = "row"]]
    /\ UNCHANGED <<store, rooms, disk, refs, purge, loose>>

\* accept_thumbnail: a frame captured for bytes that are there and have none.
PostThumb(p) ==
    /\ post[p].step = "free" /\ disk /\ ~thumb
    /\ post' = [post EXCEPT ![p] = [step |-> "render", room |-> Profile]]
    /\ Slip("crossed", Unlinking)
    /\ UNCHANGED <<store, rooms, disk, thumb, refs, purge>>

\* files::create, refused by its foreign key once the room is gone; or the message
\* that shows the picture, if anybody sends it.  Bytes no row came to name stay.
FileRow(p) ==
    /\ post[p].step = "row"
    /\ \/ /\ post[p].room \in rooms
          /\ refs' = refs \cup {post[p].room} /\ UNCHANGED loose
       \/ /\ store = "images" \/ post[p].room \notin rooms
          /\ Slip("let_go", TRUE) /\ UNCHANGED refs
    /\ post' = [post EXCEPT ![p] = NoPost]
    /\ UNCHANGED <<store, rooms, disk, thumb, purge>>

\* files::delete, or an edit or deletion that stops showing the picture.
DropRef(r) ==
    /\ r \in refs
    /\ refs' = refs \ {r} /\ Slip("let_go", TRUE)
    /\ UNCHANGED <<store, rooms, disk, thumb, post, purge>>

\* A profile or a taught note names a picture that is being served.
SetProfile ==
    /\ store = "images" /\ disk /\ Profile \notin refs
    /\ refs' = refs \cup {Profile}
    /\ Slip("crossed", Unlinking)
    /\ UNCHANGED <<store, rooms, disk, thumb, post, purge>>

-----------------------------------------------------------------------------
(***************************************************************************)
(* destroy_room.                                                            *)
(***************************************************************************)

\* stored_names_for_room and names_for_room, while the rows still exist.
Gather(r) ==
    /\ r \in rooms /\ purge[r].step = "none"
    /\ purge' = [purge EXCEPT ![r] = [step |-> "delete", named |-> r \in refs]]
    /\ UNCHANGED <<store, rooms, disk, thumb, refs, post, loose>>

\* rooms::delete_room, the cascade taking the rows.  What was posted since the
\* names were gathered goes with them, its bytes unnamed.
DeleteRoom(r) ==
    /\ purge[r].step = "delete"
    /\ rooms' = rooms \ {r} /\ refs' = refs \ {r}
    /\ purge' = [purge EXCEPT ![r].step = "check"]
    /\ loose' = loose \cup {x \in {"let_go"} : r \in refs /\ ~purge[r].named}
                      \cup {x \in {"crossed"} : purge[r].named /\ Posting}
    /\ UNCHANGED <<store, disk, thumb, post>>

\* Faulty variant: everything gathered goes.
Orphaned_Always(r) == purge[r].named
\* orphan_candidates and media::unreferenced, asked after the delete.
Orphaned(r) == purge[r].named /\ refs = {}

CheckRefs(r) ==
    /\ purge[r].step = "check"
    /\ purge' = [purge EXCEPT ![r].step = IF Orphaned(r) THEN "unlink" ELSE "done"]
    /\ UNCHANGED <<store, rooms, disk, thumb, refs, post, loose>>

UnlinkBytes(r) ==
    /\ purge[r].step = "unlink"
    /\ disk' = FALSE /\ purge' = [purge EXCEPT ![r].step = "sidecar"]
    /\ UNCHANGED <<store, rooms, thumb, refs, post, loose>>

unlink_sidecar(r) ==
    /\ purge[r].step = "sidecar"
    /\ thumb' = FALSE /\ purge' = [purge EXCEPT ![r].step = "done"]
    /\ UNCHANGED <<store, rooms, disk, refs, post, loose>>

\* The process dies between the delete and the last unlink; nothing remembers.
PurgeDies(r) ==
    /\ purge[r].step \in {"check", "unlink", "sidecar"}
    /\ purge' = [purge EXCEPT ![r].step = "done"]
    /\ Slip("died", purge[r].named)
    /\ UNCHANGED <<store, rooms, disk, thumb, refs, post>>

AttNext ==
    \/ \E p \in Posters : \/ \E r \in Rooms : Upload(p, r)
                          \/ Rename(p) \/ Accompany(p) \/ StoreThumb(p) \/ PostThumb(p) \/ FileRow(p)
    \/ \E r \in Rooms \cup {Profile} : DropRef(r)
    \/ SetProfile
    \/ \E r \in Rooms : \/ Gather(r) \/ DeleteRoom(r) \/ CheckRefs(r)
                        \/ UnlinkBytes(r) \/ unlink_sidecar(r) \/ PurgeDies(r)

AttSpec == AttInit /\ [][AttNext]_attVars

-----------------------------------------------------------------------------
\* Whatever names the bytes finds them on disk, however many rooms share them and
\* are destroyed, unless it was posted while a purge was already unlinking them
\* (db/files.rs, "a row with no file is a broken download every client has to handle").
NamedBytesExist == refs # {} /\ "crossed" \notin loose => disk

\* Once the last room that showed the bytes has been destroyed, neither they nor
\* their thumbnail are on disk (purge.rs, "asking to be forgotten"), unless an upload
\* crossed the purge, a reference had been dropped before, or the process died.
Forgotten ==
    /\ \E r \in Rooms : purge[r].step = "done" /\ purge[r].named
    /\ \A r \in Rooms : purge[r].step \in {"none", "done"}
    /\ refs = {} /\ loose = {} /\ ~Posting
    => ~disk /\ ~thumb

\* The store and the rows agree, both ways: nothing named is missing, nothing
\* forgotten is kept.
StoreMatchesRows == NamedBytesExist /\ Forgotten
=============================================================================
