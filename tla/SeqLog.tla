------------------------------- MODULE SeqLog -------------------------------
(***************************************************************************)
(* What the event log promises its readers: a sequence of numbered records  *)
(* that only grows, without a gap and without a number used twice, from      *)
(* which only the oldest records ever disappear (docs/REALTIME.md 10.3:      *)
(* "never - gapless by construction").                                      *)
(***************************************************************************)
EXTENDS Naturals, Sequences

VARIABLES
    base,    \* how many of the oldest records are gone
    entries, \* the sequence numbers of the records retained, oldest first
    intact   \* whether the promise still stands

Init == base = 0 /\ entries = <<>> /\ intact = TRUE

\* n records are appended, numbered on from everything appended before.
Grow(n) ==
    /\ entries' = entries \o [i \in 1..n |-> base + Len(entries) + i]
    /\ UNCHANGED <<base, intact>>

\* The n oldest records are dropped.
Drop(n) ==
    /\ entries' = SubSeq(entries, n + 1, Len(entries))
    /\ base' = base + n
    /\ UNCHANGED intact

\* A mishap the log does not cover: from here on anything may be read.
Void == intact' = FALSE

\* An append writes its own record, behind a rotation record on a new day.
Next == Void \/ Grow(1) \/ Grow(2) \/ (\E n \in 1..Len(entries) : Drop(n))

Spec == Init /\ [][Next]_<<base, entries, intact>>
=============================================================================
