--------------------------- MODULE EventLogProofs ---------------------------
(***************************************************************************)
(* What holds of EventLog for any number of appenders, days and records, any *)
(* batch and replay bound, and any run of mishaps.                           *)
(***************************************************************************)
EXTENDS EventLog, SequenceTheorems, WellFoundedInduction, TLAPS

\* A record number is vouched for by the marker, or by a line of the newest file, the only
\* one recovery scans.
Vouched(n) ==
    \/ n < marker
    \/ \E d \in present :
          /\ \A e \in present : e <= d
          /\ \E i \in DOMAIN files[d] : files[d][i].text = "whole" /\ n <= files[d][i].seq

\* It is backed by a durable line of some file.
Backed(n) == \E d \in present : \E i \in 1..synced[d] : files[d][i].seq >= n

\* Stamps and files are of days that have come; a day without a file has no lines; the
\* newest file is the open one, and until the log rotates back it has the last lines.
DaysInOrder ==
    /\ cur <= day /\ (\A a \in Appenders : stamp[a] <= day) /\ (\A d \in present : d <= day)
    /\ \A d \in Days : d \notin present => files[d] = <<>>
    /\ present = {} \/ cur \in present
    /\ proc # "down" => present # {}
    /\ "midnight" \notin struck /\ proc # "down" => \A d \in present : d <= cur
    /\ "midnight" \notin struck => \A d \in Days : d > cur => files[d] = <<>>

\* A power loss is what cuts a line short; a failing disk is what leaves one in the buffer,
\* and it has the number the next record gets.
LinesIntact ==
    /\ "power" \notin struck => \A d \in Days : \A i \in DOMAIN files[d] : files[d][i].text = "whole"
    /\ proc = "opening" => buf = <<>>
    /\ proc = "up" => buf = <<>> \/ (buf = <<Whole(next_seq)>> /\ "disk" \in struck)
    /\ proc # "down" => marker <= next_seq /\ FIRST_SEQ <= next_seq

\* Every number handed out is below the next one, and below the one recovery would find.
NumbersFresh ==
    Only({"prune", "prune_all", "disk"}) =>
        /\ \A i, j \in DOMAIN issued : i < j => issued[i] < issued[j]
        /\ proc # "down" => \A i \in DOMAIN issued : issued[i] < next_seq
        /\ proc # "opening" => \A i \in DOMAIN issued : Vouched(issued[i])

\* What the next sync vouches for is in the file it syncs, or durable already.
CounterBacked ==
    Only({"kill_opening", "power", "disk"}) /\ proc = "up" /\ next_seq > FIRST_SEQ =>
        Backed(next_seq - 1) \/ \E i \in DOMAIN files[cur] : files[cur][i].seq >= next_seq - 1

\* What this process logged is a line of a file.
LoggedOnDisk ==
    "power" \notin struck =>
        \A s \in logged : \E d \in Days : \E i \in DOMAIN files[d] : files[d][i].seq = s

\* A run of n records from number a on.
Run(a, n) == [i \in 1..n |-> Whole(a + i - 1)]

\* The files continue one another: from[d] is the number file d starts at.
Chain(from) ==
    /\ from[1] = lost + 1 /\ from[MaxDay + 1] = Len(issued) + 1
    /\ \A d \in Days : from[d] <= from[d + 1] /\ files[d] = Run(from[d], from[d + 1] - from[d])
FilesChained ==
    Only({"prune"}) => \E from \in [1..(MaxDay + 1) -> 1..(Len(issued) + 1)] : Chain(from)

\* The counter is one past the records, and recovery would find it there.
CounterExact ==
    Only({"prune"}) =>
        /\ proc # "down" => next_seq = Len(issued) + 1
        /\ marker <= Len(issued) + 1
        /\ proc # "opening" => Len(issued) = 0 \/ Vouched(Len(issued))
        /\ lost > 0 => lost < Len(issued)

LogInv ==
    /\ TypeOK /\ DaysInOrder /\ LinesIntact /\ NumbersFresh /\ MarkerNeverAhead
    /\ CounterBacked /\ LoggedOnDisk /\ FilesChained /\ CounterExact
-----------------------------------------------------------------------------
(***************************************************************************)
(* Sets of naturals: a least element, a greatest one, induction.            *)
(***************************************************************************)
LEMMA LeastElement ==
  ASSUME NEW S \in SUBSET Nat, S # {}
  PROVE  \E m \in S : \A y \in S : m <= y
<1> DEFINE R == {ss \in Nat \X Nat : ss[1] < ss[2]}
<1>0. IsWellFoundedOn(R, Nat)
  BY NatLessThanWellFounded, Zenon DEF OpToRel
<1> HIDE DEF R
<1>1. PICK m \in S : \A y \in S : ~(<<y, m>> \in R)
  BY <1>0, WFMin
<1>2. ASSUME NEW y \in S PROVE m <= y
  <2>1. <<y, m>> \in Nat \X Nat /\ <<y, m>>[1] = y /\ <<y, m>>[2] = m
    OBVIOUS
  <2>2. ~(<<y, m>>[1] < <<y, m>>[2])
    BY <1>1, <2>1, Zenon DEF R
  <2> QED
    BY <2>1, <2>2
<1> QED
  BY <1>2

\* Induction up to n, over the set of numbers a claim holds of.
LEMMA Climb ==
  ASSUME NEW n \in Nat, NEW T \in SUBSET (0..n), 0 \in T,
         \A i \in 1..n : i - 1 \in T => i \in T
  PROVE  T = 0..n
<1> SUFFICES ASSUME T # 0..n PROVE FALSE
  OBVIOUS
<1>1. (0..n) \ T \in SUBSET Nat /\ (0..n) \ T # {}
  <2>1. \E x \in 0..n : x \notin T
    BY Zenon
  <2> QED
    BY <2>1
<1>2. PICK m \in (0..n) \ T : \A y \in (0..n) \ T : m <= y
  BY <1>1, LeastElement
<1>3. m \in 1..n /\ m - 1 \in 0..n /\ ~(m <= m - 1)
  BY <1>2
<1> QED
  BY <1>2, <1>3

\* A nonempty, bounded set of naturals has a greatest element, and MaxOf is it.
LEMMA MaxOfIsMax ==
  ASSUME NEW S \in SUBSET Nat, S # {}, NEW b \in Nat, \A y \in S : y <= b
  PROVE  MaxOf(S) \in S /\ \A y \in S : y <= MaxOf(S)
<1> DEFINE U == {n \in Nat : \A y \in S : y <= n}
<1>1. U \in SUBSET Nat /\ U # {}
  OBVIOUS
<1>2. PICK m \in U : \A n \in U : m <= n
  BY <1>1, LeastElement
<1>3. m \in S
  <2> SUFFICES ASSUME m \notin S PROVE FALSE
    OBVIOUS
  <2>1. PICK x \in S : TRUE
    OBVIOUS
  <2>2. x <= m /\ x # m /\ m \in Nat /\ x \in Nat
    BY <1>2, <2>1
  <2>3. m - 1 \in Nat
    BY <2>2
  <2>4. \A y \in S : y <= m - 1
    BY <1>2, <2>3
  <2> QED
    BY <1>2, <2>3, <2>4
<1>4. \E x \in S : \A y \in S : y <= x
  BY <1>2, <1>3
<1> QED
  BY <1>4, Zenon DEF MaxOf

-----------------------------------------------------------------------------
(***************************************************************************)
(* What the folds over files yield.                                         *)
(***************************************************************************)

\* FlattenSeq is the last of the partial concatenations.
LEMMA Flattening ==
  ASSUME NEW S, NEW seqs \in Seq(Seq(S))
  PROVE  \E f \in [0..Len(seqs) -> Seq(S)] :
            /\ f[0] = <<>> /\ \A i \in 1..Len(seqs) : f[i] = f[i - 1] \o seqs[i]
            /\ FlattenSeq(seqs) = f[Len(seqs)]
<1> DEFINE n == Len(seqs)
           Cat(x, i) == x \o seqs[i]
           Partial(f, m) == /\ f \in [0..m -> Seq(S)] /\ f[0] = <<>>
                            /\ \A i \in 1..m : f[i] = Cat(f[i - 1], i)
           T == {m \in 0..n : \E f \in [0..m -> Seq(S)] : Partial(f, m)}
<1>0. n \in Nat /\ <<>> \in Seq(S)
  OBVIOUS
<1>1. ASSUME NEW i \in 1..n PROVE seqs[i] \in Seq(S) /\ Cat(<<>>, i) = seqs[i]
  OBVIOUS
<1>2. ASSUME NEW i \in 1..n, NEW x \in Seq(S) PROVE Cat(x, i) \in Seq(S)
  BY <1>1
<1>3. n = 0 => FlattenSeq(seqs) = <<>>
  BY DEF FlattenSeq
<1> DEFINE Def(h) == h = [i \in 1..n |-> IF i = 1 THEN seqs[i] ELSE Cat(h[i - 1], i)]
           flat == CHOOSE h : Def(h)
<1>4. n # 0 => FlattenSeq(seqs) = flat[n]
  BY DEF FlattenSeq
<1>5. SUFFICES \E f \in [0..n -> Seq(S)] : Partial(f, n) /\ FlattenSeq(seqs) = f[n]
  BY Zenon
<1> HIDE DEF n, Cat, flat
<1>6. n \in T
  <2>1. 0 \in T
    <3>1. [i \in 0..0 |-> <<>>] \in [0..0 -> Seq(S)] /\ Partial([i \in 0..0 |-> <<>>], 0)
      BY <1>0
    <3> HIDE DEF Partial
    <3>2. \E f \in [0..0 -> Seq(S)] : Partial(f, 0)
      BY <3>1, Zenon
    <3> QED
      BY <1>0, <3>2
  <2>2. ASSUME NEW m \in 1..n, m - 1 \in T PROVE m \in T
    <3>1. PICK f \in [0..(m - 1) -> Seq(S)] : Partial(f, m - 1)
      BY <2>2
    <3> DEFINE g == [i \in 0..m |-> IF i = m THEN Cat(f[m - 1], m) ELSE f[i]]
    <3>2. g \in [0..m -> Seq(S)]
      BY <1>0, <1>2, <3>1
    <3>3. g[0] = <<>>
      BY <1>0, <3>1
    <3>4. \A i \in 1..m : g[i] = Cat(g[i - 1], i)
      BY <1>0, <3>1
    <3>5. Partial(g, m)
      <4> HIDE DEF g
      <4> QED
        BY <3>2, <3>3, <3>4, Zenon
    <3> HIDE DEF g, Partial
    <3>6. \E h \in [0..m -> Seq(S)] : Partial(h, m)
      BY <3>2, <3>5, Zenon
    <3> QED
      BY <1>0, <3>6
  <2>3. T \in SUBSET (0..n)
    OBVIOUS
  <2> HIDE DEF T
  <2>4. T = 0..n
    BY <1>0, <2>1, <2>2, <2>3, Climb
  <2> QED
    BY <1>0, <2>4
<1>7. PICK f \in [0..n -> Seq(S)] : Partial(f, n)
  BY <1>6
<1>8. CASE n = 0
  BY <1>3, <1>7, <1>8
<1>9. CASE n # 0
  <2> DEFINE h0 == [i \in 1..n |-> f[i]]
  <2>1. Def(h0)
    <3>1. ASSUME NEW i \in 1..n
          PROVE  h0[i] = IF i = 1 THEN seqs[i] ELSE Cat(h0[i - 1], i)
      <4>1. CASE i = 1
        BY <1>0, <1>1, <1>7, <4>1
      <4>2. CASE i # 1
        <5>1. i - 1 \in 1..n /\ i \in 1..n
          BY <1>0, <4>2
        <5>2. h0[i] = f[i] /\ h0[i - 1] = f[i - 1]
          BY <5>1
        <5>3. f[i] = Cat(f[i - 1], i)
          BY <1>7
        <5> QED
          BY <4>2, <5>2, <5>3
      <4> QED
        BY <4>1, <4>2
    <3> QED
      BY <3>1
  <2>2. Def(flat)
    <3> HIDE DEF Def, h0
    <3> QED
      BY <2>1, Zenon DEF flat
  <2>3. \A i \in 1..n : flat[i] = IF i = 1 THEN seqs[i] ELSE Cat(flat[i - 1], i)
    BY <2>2
  <2> DEFINE V == {m \in 0..n : m = 0 \/ flat[m] = f[m]}
  <2>4. ASSUME NEW m \in 1..n, m - 1 \in V PROVE m \in V
    <3>1. CASE m = 1
      <4>1. f[1] = Cat(f[0], 1) /\ f[0] = <<>>
        BY <1>0, <1>7, <3>1
      <4>2. Cat(<<>>, 1) = seqs[1] /\ flat[1] = seqs[1]
        BY <1>1, <2>3, <3>1
      <4> QED
        BY <3>1, <4>1, <4>2
    <3>2. CASE m # 1
      BY <1>0, <1>7, <2>3, <2>4, <3>2
    <3> QED
      BY <3>1, <3>2
  <2>5. 0 \in V /\ V \in SUBSET (0..n)
    BY <1>0
  <2>6. n \in V
    <3> HIDE DEF V
    <3>1. V = 0..n
      BY <1>0, <2>4, <2>5, Climb
    <3> QED
      BY <1>0, <3>1
  <2>7. FlattenSeq(seqs) = f[n]
    BY <1>4, <2>6, <1>9
  <2> QED
    BY <1>7, <2>7
<1> QED
  BY <1>8, <1>9

\* What it yields is a sequence, and has the elements of its parts.
Has(s, x) == \E k \in DOMAIN s : s[k] = x

\* What a concatenation has, one of its parts has.
LEMMA HasCat ==
  ASSUME NEW S, NEW s \in Seq(S), NEW t \in Seq(S), NEW x
  PROVE  Has(s \o t, x) <=> Has(s, x) \/ Has(t, x)
<1>1. s \o t \in Seq(S) /\ DOMAIN s = 1..Len(s) /\ DOMAIN t = 1..Len(t)
      /\ DOMAIN (s \o t) = 1..(Len(s) + Len(t)) /\ Len(s) \in Nat /\ Len(t) \in Nat
  OBVIOUS
<1>2. \A k \in 1..Len(s) : (s \o t)[k] = s[k]
  OBVIOUS
<1>3. \A k \in 1..Len(t) : (s \o t)[Len(s) + k] = t[k]
  OBVIOUS
<1> DEFINE st == s \o t
<1> HIDE DEF st
<1>4. ASSUME Has(st, x) PROVE Has(s, x) \/ Has(t, x)
  <2>1. PICK k \in 1..(Len(s) + Len(t)) : st[k] = x
    BY <1>1, <1>4 DEF Has, st
  <2>2. CASE k <= Len(s)
    <3>1. k \in 1..Len(s) /\ s[k] = x
      BY <1>1, <1>2, <2>1, <2>2 DEF st
    <3> QED
      BY <1>1, <3>1 DEF Has
  <2>3. CASE ~(k <= Len(s))
    <3>1. k - Len(s) \in 1..Len(t) /\ Len(s) + (k - Len(s)) = k
      BY <1>1, <2>3
    <3>2. t[k - Len(s)] = x
      BY <1>3, <2>1, <3>1 DEF st
    <3> QED
      BY <1>1, <3>1, <3>2 DEF Has
  <2> QED
    BY <2>2, <2>3
<1>5. ASSUME Has(s, x) PROVE Has(st, x)
  <2>1. PICK k \in 1..Len(s) : s[k] = x
    BY <1>1, <1>5 DEF Has
  <2>2. k \in DOMAIN st /\ st[k] = x
    BY <1>1, <1>2, <2>1 DEF st
  <2> QED
    BY <2>2 DEF Has
<1>6. ASSUME Has(t, x) PROVE Has(st, x)
  <2>1. PICK k \in 1..Len(t) : t[k] = x
    BY <1>1, <1>6 DEF Has
  <2>2. Len(s) + k \in DOMAIN st /\ st[Len(s) + k] = x
    BY <1>1, <1>3, <2>1 DEF st
  <2> QED
    BY <2>2 DEF Has
<1> QED
  BY <1>4, <1>5, <1>6 DEF st

\* What a flattening has, one of its parts has.
LEMMA FlattenHas ==
  ASSUME NEW S, NEW seqs \in Seq(Seq(S)), NEW x
  PROVE  /\ FlattenSeq(seqs) \in Seq(S)
         /\ Has(FlattenSeq(seqs), x) <=> \E i \in 1..Len(seqs) : Has(seqs[i], x)
<1>1. PICK f \in [0..Len(seqs) -> Seq(S)] :
         /\ f[0] = <<>> /\ \A i \in 1..Len(seqs) : f[i] = f[i - 1] \o seqs[i]
         /\ FlattenSeq(seqs) = f[Len(seqs)]
  BY Flattening
<1> DEFINE n == Len(seqs)
           T == {m \in 0..n : Has(f[m], x) <=> \E i \in 1..m : Has(seqs[i], x)}
<1>2. n \in Nat /\ \A i \in 1..n : seqs[i] \in Seq(S)
  OBVIOUS
<1> HIDE DEF n
<1>3. 0 \in T /\ T \in SUBSET (0..n)
  <2>1. ~Has(f[0], x)
    BY <1>1 DEF Has
  <2> QED
    BY <1>2, <2>1
<1>4. ASSUME NEW m \in 1..n, m - 1 \in T PROVE m \in T
  <2>1. f[m] = f[m - 1] \o seqs[m] /\ f[m - 1] \in Seq(S) /\ seqs[m] \in Seq(S)
    <3>1. m \in 1..Len(seqs) /\ m - 1 \in 0..Len(seqs)
      BY <1>2 DEF n
    <3>2. f[m] = f[m - 1] \o seqs[m]
      BY <1>1, <3>1, Zenon
    <3>3. f[m - 1] \in Seq(S)
      BY <1>1, <3>1
    <3> QED
      BY <1>2, <3>2, <3>3
  <2>2. Has(f[m], x) <=> Has(f[m - 1], x) \/ Has(seqs[m], x)
    BY <2>1, HasCat
  <2>3. (\E i \in 1..m : Has(seqs[i], x)) <=> (\E i \in 1..(m - 1) : Has(seqs[i], x)) \/ Has(seqs[m], x)
    BY <1>2
  <2> QED
    BY <1>2, <1>4, <2>2, <2>3
<1>5. n \in T
  <2> HIDE DEF T
  <2>1. T = 0..n
    BY <1>2, <1>3, <1>4, Climb
  <2> QED
    BY <1>2, <2>1
<1> QED
  BY <1>1, <1>2, <1>5 DEF n

\* A line is parsed when it is one of the file's, and whole.
LEMMA ParsedHas ==
  ASSUME NEW file \in Seq(Line), NEW l
  PROVE  /\ Parsed(file) \in Seq(Line)
         /\ Has(Parsed(file), l) <=> Has(file, l) /\ l.text = "whole"
<1> DEFINE parts == [i \in DOMAIN file |-> IF file[i].text = "whole" THEN <<file[i]>> ELSE <<>>]
<1>1. DOMAIN file = 1..Len(file) /\ Len(file) \in Nat /\ \A i \in 1..Len(file) : file[i] \in Line
  OBVIOUS
<1>2. ASSUME NEW i \in 1..Len(file)
      PROVE  (IF file[i].text = "whole" THEN <<file[i]>> ELSE <<>>) \in Seq(Line)
  BY <1>1
<1>3. parts \in Seq(Seq(Line)) /\ Len(parts) = Len(file)
  <2>1. parts \in [1..Len(file) -> Seq(Line)]
    BY <1>1, <1>2
  <2> QED
    BY <1>1, <2>1
<1>4. ASSUME NEW i \in 1..Len(file)
      PROVE  Has(parts[i], l) <=> file[i].text = "whole" /\ file[i] = l
  <2>1. parts[i] = IF file[i].text = "whole" THEN <<file[i]>> ELSE <<>>
    BY <1>1
  <2>2. Has(<<file[i]>>, l) <=> file[i] = l
    BY DEF Has
  <2>3. ~Has(<<>>, l)
    BY DEF Has
  <2> QED
    BY <2>1, <2>2, <2>3
<1>5. Parsed(file) = FlattenSeq(parts)
  BY DEF Parsed
<1> HIDE DEF parts
<1>6. Has(FlattenSeq(parts), l) <=> \E i \in 1..Len(file) : Has(parts[i], l)
  BY <1>3, FlattenHas
<1>7. Has(file, l) <=> \E i \in 1..Len(file) : file[i] = l
  BY <1>1 DEF Has
<1>8. FlattenSeq(parts) \in Seq(Line)
  BY <1>3, FlattenHas
<1> QED
  BY <1>4, <1>5, <1>6, <1>7, <1>8

\* The lines of a sequence picked one by one: picking all of them changes nothing.
LEMMA ParsedWhole ==
  ASSUME NEW file \in Seq(Line), \A i \in DOMAIN file : file[i].text = "whole"
  PROVE  Parsed(file) = file
<1> DEFINE n == Len(file)
           parts == [i \in DOMAIN file |-> IF file[i].text = "whole" THEN <<file[i]>> ELSE <<>>]
<1>1. DOMAIN file = 1..n /\ n \in Nat /\ file \in [1..n -> Line]
  OBVIOUS
<1>2. ASSUME NEW i \in 1..n PROVE parts[i] = <<file[i]>>
  BY <1>1
<1>3. parts \in Seq(Seq(Line)) /\ Len(parts) = n
  <2>1. parts \in [1..n -> Seq(Line)]
    <3>1. ASSUME NEW i \in 1..n PROVE <<file[i]>> \in Seq(Line)
      BY <1>1
    <3> QED
      BY <1>1, <3>1
  <2> QED
    BY <1>1, <2>1
<1>4. Parsed(file) = FlattenSeq(parts)
  BY DEF Parsed
<1> HIDE DEF parts, n
<1>5. PICK f \in [0..n -> Seq(Line)] :
         /\ f[0] = <<>> /\ \A i \in 1..n : f[i] = f[i - 1] \o parts[i]
         /\ FlattenSeq(parts) = f[n]
  BY <1>3, Flattening
<1> DEFINE T == {m \in 0..n : f[m] = [i \in 1..m |-> file[i]]}
<1>6. 0 \in T /\ T \in SUBSET (0..n)
  BY <1>1, <1>5
<1>7. ASSUME NEW m \in 1..n, m - 1 \in T PROVE m \in T
  <2>1. f[m] = f[m - 1] \o <<file[m]>>
    <3>1. f[m] = f[m - 1] \o parts[m]
      BY <1>5
    <3> QED
      BY <1>2, <3>1, Zenon
  <2>2. f[m - 1] = [i \in 1..(m - 1) |-> file[i]]
    BY <1>7
  <2> DEFINE s == [i \in 1..(m - 1) |-> file[i]]
  <2>3. s \in Seq(Line) /\ Len(s) = m - 1 /\ file[m] \in Line
    BY <1>1
  <2>4. s \o <<file[m]>> = [i \in 1..m |-> file[i]]
    BY <1>1, <2>3
  <2>5. m \in 0..n
    BY <1>1
  <2> QED
    BY <2>1, <2>2, <2>4, <2>5, Zenon
<1>8. n \in T
  <2> HIDE DEF T
  <2>1. T = 0..n
    BY <1>1, <1>6, <1>7, Climb
  <2> QED
    BY <1>1, <2>1
<1>9. [i \in 1..n |-> file[i]] = file
  BY <1>1
<1> QED
  BY <1>4, <1>5, <1>8, <1>9

\* A run, and a run continued by another.
LEMMA RunTyped ==
  ASSUME NEW a \in Nat, NEW n \in Nat
  PROVE  /\ Run(a, n) \in Seq(Line) /\ Len(Run(a, n)) = n /\ DOMAIN Run(a, n) = 1..n
         /\ \A i \in 1..n : Run(a, n)[i] = Whole(a + i - 1) /\ Run(a, n)[i].seq = a + i - 1
                            /\ Run(a, n)[i].text = "whole"
<1>1. \A i \in 1..n : Whole(a + i - 1) \in Line
  BY DEF Whole, Line
<1>2. Run(a, n) \in [1..n -> Line]
  BY <1>1 DEF Run
<1>3. Run(a, n) \in Seq(Line) /\ Len(Run(a, n)) = n /\ DOMAIN Run(a, n) = 1..n
  BY <1>2
<1>4. \A i \in 1..n : Run(a, n)[i] = Whole(a + i - 1)
  BY DEF Run
<1>5. \A s \in Nat : Whole(s).seq = s /\ Whole(s).text = "whole"
  BY DEF Whole
<1> QED
  BY <1>3, <1>4, <1>5

\* A run continued by the run behind it is one run.
LEMMA RunCat ==
  ASSUME NEW a \in Nat, NEW n \in Nat, NEW m \in Nat
  PROVE  Run(a, n) \o Run(a + n, m) = Run(a, n + m)
<1> DEFINE s == Run(a, n)
           t == Run(a + n, m)
           u == Run(a, n + m)
<1>1. s \in Seq(Line) /\ Len(s) = n /\ \A i \in 1..n : s[i] = Whole(a + i - 1)
  BY RunTyped
<1>2. t \in Seq(Line) /\ Len(t) = m /\ \A i \in 1..m : t[i] = Whole((a + n) + i - 1)
  <2>1. a + n \in Nat
    OBVIOUS
  <2> QED
    BY <2>1, RunTyped
<1>3. u \in Seq(Line) /\ Len(u) = n + m /\ \A i \in 1..(n + m) : u[i] = Whole(a + i - 1)
  <2>1. n + m \in Nat
    OBVIOUS
  <2> QED
    BY <2>1, RunTyped
<1> HIDE DEF s, t, u
<1>4. /\ s \o t \in Seq(Line) /\ Len(s \o t) = n + m
      /\ \A i \in 1..(n + m) : (s \o t)[i] = IF i <= n THEN s[i] ELSE t[i - n]
  BY <1>1, <1>2, ConcatProperties
<1>5. ASSUME NEW i \in 1..(n + m) PROVE (s \o t)[i] = u[i]
  <2>1. CASE i <= n
    BY <1>1, <1>3, <1>4, <2>1
  <2>2. CASE ~(i <= n)
    <3>1. i - n \in 1..m /\ (a + n) + (i - n) - 1 = a + i - 1
      BY <2>2
    <3>2. (s \o t)[i] = t[i - n] /\ t[i - n] = Whole((a + n) + (i - n) - 1)
      BY <1>2, <1>4, <2>2, <3>1
    <3> QED
      BY <1>3, <3>1, <3>2
  <2> QED
    BY <2>1, <2>2
<1>6. s \o t = u
  BY <1>3, <1>4, <1>5, SeqEqual
<1> QED
  BY <1>6 DEF s, t, u

\* A file that is a run has nothing to skip.
LEMMA ParsedRun ==
  ASSUME NEW a \in Nat, NEW n \in Nat
  PROVE  Parsed(Run(a, n)) = Run(a, n)
BY RunTyped, ParsedWhole

\* Files that continue one another are read as one run.
LEMMA FilesJoined ==
  ASSUME NEW fs \in [Days -> Seq(Line)], NEW from \in [1..(MaxDay + 1) -> Nat],
         \A d \in Days : from[d] <= from[d + 1] /\ fs[d] = Run(from[d], from[d + 1] - from[d])
  PROVE  /\ from[1] <= from[MaxDay + 1]
         /\ FlattenSeq([d \in Days |-> Parsed(fs[d])]) = Run(from[1], from[MaxDay + 1] - from[1])
<1> DEFINE parts == [d \in Days |-> Parsed(fs[d])]
<1>0. MaxDay \in Nat /\ MaxDay # 0 /\ Days = 1..MaxDay
  BY EventLogAssumption DEF Days
<1>1. ASSUME NEW d \in Days
      PROVE  /\ from[d] \in Nat /\ from[d + 1] \in Nat /\ from[d + 1] - from[d] \in Nat
             /\ parts[d] = Run(from[d], from[d + 1] - from[d])
             /\ parts[d] \in Seq(Line)
  <2>1. from[d] \in Nat /\ from[d + 1] \in Nat /\ from[d + 1] - from[d] \in Nat
    <3>1. d \in 1..(MaxDay + 1) /\ d + 1 \in 1..(MaxDay + 1)
      BY <1>0
    <3>2. from[d] \in Nat /\ from[d + 1] \in Nat /\ from[d] <= from[d + 1]
      BY <3>1
    <3> QED
      BY <3>2
  <2>2. parts[d] = Run(from[d], from[d + 1] - from[d])
    <3>1. parts[d] = Parsed(fs[d])
      OBVIOUS
    <3> QED
      BY <2>1, <3>1, ParsedRun
  <2>3. Run(from[d], from[d + 1] - from[d]) \in Seq(Line)
    BY <2>1, RunTyped
  <2> QED
    BY <2>1, <2>2, <2>3
<1>2. parts \in Seq(Seq(Line)) /\ Len(parts) = MaxDay
  <2>1. parts \in [1..MaxDay -> Seq(Line)]
    BY <1>0, <1>1
  <2> QED
    BY <1>0, <2>1
<1> HIDE DEF parts
<1>3. PICK f \in [0..MaxDay -> Seq(Line)] :
         /\ f[0] = <<>> /\ \A i \in 1..MaxDay : f[i] = f[i - 1] \o parts[i]
         /\ FlattenSeq(parts) = f[MaxDay]
  BY <1>2, Flattening
<1> DEFINE T == {m \in 0..MaxDay : from[1] <= from[m + 1] /\ f[m] = Run(from[1], from[m + 1] - from[1])}
<1>4. 0 \in T /\ T \in SUBSET (0..MaxDay)
  <2>1. from[1] \in Nat /\ from[1] - from[1] = 0
    BY <1>0
  <2>2. Run(from[1], 0) = <<>>
    BY DEF Run
  <2>3. f[0] = Run(from[1], from[0 + 1] - from[1])
    <3>1. from[0 + 1] = from[1]
      OBVIOUS
    <3> QED
      BY <1>3, <2>1, <2>2, <3>1, Zenon
  <2>4. from[1] <= from[0 + 1] /\ 0 \in 0..MaxDay
    BY <1>0, <2>1
  <2> QED
    BY <2>3, <2>4
<1>5. ASSUME NEW m \in 1..MaxDay, m - 1 \in T PROVE m \in T
  <2> DEFINE a == from[1]
             b == from[m]
             c == from[m + 1]
  <2>1. a \in Nat /\ b \in Nat /\ c \in Nat /\ a <= b /\ b <= c
    BY <1>0, <1>1, <1>5
  <2>2. f[m - 1] = Run(a, b - a)
    BY <1>0, <1>5
  <2>3. parts[m] = Run(b, c - b)
    BY <1>0, <1>1
  <2>4. f[m] = f[m - 1] \o parts[m]
    BY <1>3
  <2> HIDE DEF a, b, c
  <2>5. b - a \in Nat /\ c - b \in Nat /\ a + (b - a) = b /\ (b - a) + (c - b) = c - a
    BY <2>1
  <2>6. Run(a, b - a) \o Run(b, c - b) = Run(a, c - a)
    <3>1. Run(a, b - a) \o Run(a + (b - a), c - b) = Run(a, (b - a) + (c - b))
      BY <2>1, <2>5, RunCat
    <3> QED
      BY <2>5, <3>1, Zenon
  <2>7. f[m] = Run(a, c - a)
    BY <2>2, <2>3, <2>4, <2>6, Zenon
  <2>8. a <= c /\ m \in 0..MaxDay
    BY <1>0, <2>1
  <2> QED
    BY <2>7, <2>8 DEF a, c
<1>6. MaxDay \in T
  <2> HIDE DEF T
  <2>1. T = 0..MaxDay
    BY <1>0, <1>4, <1>5, Climb
  <2> QED
    BY <1>0, <2>1
<1> QED
  BY <1>3, <1>6 DEF parts

\* The records of a run after a number it reaches back to.
LEMMA AfterRun ==
  ASSUME NEW a \in Nat, NEW n \in Nat, NEW after \in Nat, a <= after + 1, after + 1 <= a + n
  PROVE  After(Run(a, n), after) = Run(after + 1, (a + n) - (after + 1))
<1> DEFINE lines == Run(a, n)
           parts == [i \in DOMAIN lines |-> IF lines[i].seq > after THEN <<lines[i]>> ELSE <<>>]
           tail(i) == IF a + i <= after + 1 THEN 0 ELSE (a + i) - (after + 1)
<1>1. /\ DOMAIN lines = 1..n
      /\ \A i \in 1..n : lines[i] \in Line /\ lines[i] = Whole(a + i - 1) /\ lines[i].seq = a + i - 1
  <2>1. \A i \in 1..n : a + i - 1 \in Nat
    OBVIOUS
  <2>2. lines \in Seq(Line) /\ Len(lines) = n /\ DOMAIN lines = 1..n
        /\ \A i \in 1..n : lines[i] = Whole(a + i - 1) /\ lines[i].seq = a + i - 1
    BY RunTyped
  <2> HIDE DEF lines
  <2>3. \A i \in 1..n : lines[i] \in Line
    BY <2>2
  <2> QED
    BY <2>2, <2>3
<1>2. After(lines, after) = FlattenSeq(parts)
  BY DEF After
<1> HIDE DEF lines
<1>3. ASSUME NEW i \in 1..n
      PROVE  /\ parts[i] = IF a + i - 1 > after THEN <<Whole(a + i - 1)>> ELSE <<>>
             /\ parts[i] \in Seq(Line)
  <2>1. parts[i] = IF lines[i].seq > after THEN <<lines[i]>> ELSE <<>>
    BY <1>1
  <2>2. <<lines[i]>> \in Seq(Line) /\ <<>> \in Seq(Line)
    BY <1>1
  <2> QED
    BY <1>1, <2>1, <2>2
<1>4. parts \in Seq(Seq(Line)) /\ Len(parts) = n
  <2>1. parts \in [1..n -> Seq(Line)]
    BY <1>1, <1>3
  <2> QED
    BY <2>1
<1> HIDE DEF parts
<1>5. PICK f \in [0..n -> Seq(Line)] :
         /\ f[0] = <<>> /\ \A i \in 1..n : f[i] = f[i - 1] \o parts[i]
         /\ FlattenSeq(parts) = f[n]
  BY <1>4, Flattening
<1>6. Run(after + 1, 0) = <<>>
  BY DEF Run
<1> DEFINE T == {m \in 0..n : f[m] = Run(after + 1, tail(m))}
<1>7. 0 \in T /\ T \in SUBSET (0..n)
  BY <1>5, <1>6
<1>8. ASSUME NEW m \in 1..n, m - 1 \in T PROVE m \in T
  <2>1. f[m] = f[m - 1] \o parts[m] /\ f[m - 1] = Run(after + 1, tail(m - 1)) /\ m \in 0..n
    <3>1. f[m] = f[m - 1] \o parts[m]
      BY <1>5, Zenon
    <3>2. f[m - 1] = Run(after + 1, tail(m - 1))
      BY <1>8, Zenon
    <3> QED
      BY <3>1, <3>2
  <2>2. CASE a + m - 1 > after
    <3>1. parts[m] = <<Whole(a + m - 1)>>
      BY <1>3, <2>2
    <3>2. tail(m - 1) \in Nat /\ tail(m) = tail(m - 1) + 1 /\ (after + 1) + tail(m - 1) = a + m - 1
      BY <2>2
    <3> HIDE DEF tail
    <3>3. Run(a + m - 1, 1) = <<Whole(a + m - 1)>>
      <4>1. Run(a + m - 1, 1) = [i \in 1..1 |-> Whole((a + m - 1) + i - 1)]
        BY DEF Run
      <4>2. \A i \in 1..1 : (a + m - 1) + i - 1 = a + m - 1
        OBVIOUS
      <4> QED
        BY <4>1, <4>2
    <3>4. after + 1 \in Nat /\ 1 \in Nat
      OBVIOUS
    <3>5. Run(after + 1, tail(m - 1)) \o Run((after + 1) + tail(m - 1), 1)
            = Run(after + 1, tail(m - 1) + 1)
      BY <3>2, <3>4, RunCat, ZenonT(30)
    <3>6. f[m] = Run(after + 1, tail(m))
      BY <2>1, <3>1, <3>2, <3>3, <3>5, Zenon
    <3> QED
      BY <2>1, <3>6, Zenon
  <2>3. CASE ~(a + m - 1 > after)
    <3>1. parts[m] = <<>>
      BY <1>3, <2>3
    <3>2. tail(m - 1) = tail(m)
      BY <2>3
    <3> HIDE DEF tail
    <3>3. f[m - 1] \in Seq(Line)
      BY <1>5
    <3>4. f[m - 1] \o <<>> = f[m - 1]
      BY <3>3, ConcatEmptySeq
    <3> QED
      BY <2>1, <3>1, <3>2, <3>4, Zenon
  <2> QED
    BY <2>2, <2>3
<1>9. n \in T
  <2> HIDE DEF T
  <2>1. T = 0..n
    BY <1>7, <1>8, Climb
  <2> QED
    BY <2>1
<1>10. f[n] = Run(after + 1, tail(n)) /\ tail(n) = (a + n) - (after + 1)
  BY <1>9
<1> QED
  BY <1>2, <1>5, <1>10 DEF lines

\* The log is read from every file, and every whole line of it.
LEMMA LinesRead ==
  ASSUME TypeOK, NEW l
  PROVE  /\ AllLines \in Seq(Line)
         /\ Has(AllLines, l) <=> \E d \in Days : Has(files[d], l) /\ l.text = "whole"
<1> DEFINE parts == [d \in Days |-> Parsed(files[d])]
<1>0. MaxDay \in Nat /\ Days = 1..MaxDay
  BY EventLogAssumption DEF Days
<1>1. ASSUME NEW d \in Days
      PROVE  parts[d] \in Seq(Line) /\ (Has(parts[d], l) <=> Has(files[d], l) /\ l.text = "whole")
  <2>1. files[d] \in Seq(Line)
    BY DEF TypeOK
  <2>2. parts[d] = Parsed(files[d])
    OBVIOUS
  <2>3. Parsed(files[d]) \in Seq(Line)
        /\ (Has(Parsed(files[d]), l) <=> Has(files[d], l) /\ l.text = "whole")
    BY <2>1, ParsedHas
  <2> QED
    BY <2>2, <2>3
<1>2. parts \in Seq(Seq(Line)) /\ Len(parts) = MaxDay
  <2>1. parts \in [1..MaxDay -> Seq(Line)]
    BY <1>0, <1>1
  <2> QED
    BY <1>0, <2>1
<1>3. AllLines = FlattenSeq(parts)
  BY DEF AllLines
<1> HIDE DEF parts
<1>4. FlattenSeq(parts) \in Seq(Line)
      /\ (Has(FlattenSeq(parts), l) <=> \E i \in 1..Len(parts) : Has(parts[i], l))
  BY <1>2, FlattenHas
<1> QED
  BY <1>0, <1>1, <1>2, <1>3, <1>4

-----------------------------------------------------------------------------
(***************************************************************************)
(* Appending to a file, and recovery.                                       *)
(***************************************************************************)

\* Appended lines go behind the file's; a torn last line takes the first of them in.
LEMMA Extending ==
  ASSUME NEW file \in Seq(Line), NEW lines \in Seq(Line)
  PROVE  /\ Extend(file, lines) \in Seq(Line) /\ Len(file) <= Len(Extend(file, lines))
         /\ \A i \in 1..Len(file) :
               \/ Extend(file, lines)[i] = file[i]
               \/ lines # <<>> /\ file[i].text = "torn" /\ Extend(file, lines)[i].seq = lines[1].seq
         /\ lines # <<>> => /\ Len(Extend(file, lines)) > 0
                            /\ Extend(file, lines)[Len(Extend(file, lines))].seq = lines[Len(lines)].seq
         /\ lines = <<>> => Extend(file, lines) = file
         /\ (\A i \in DOMAIN file : file[i].text = "whole") => Extend(file, lines) = file \o lines
<1> DEFINE ext == Extend(file, lines)
           n == Len(file)
           m == Len(lines)
           Torn == file # <<>> /\ lines # <<>> /\ Last(file).text = "torn"
<1>0. /\ n \in Nat /\ DOMAIN file = 1..n /\ m \in Nat
      /\ \A i \in 1..n : file[i] \in Line
      /\ \A i \in 1..m : lines[i] \in Line
      /\ file # <<>> => n # 0
      /\ lines # <<>> => m # 0
      /\ lines = <<>> => m = 0
  OBVIOUS
<1>1. CASE ~Torn
  <2>1. ext = file \o lines
    BY <1>1 DEF Extend
  <2>2. /\ ext \in Seq(Line) /\ Len(ext) = n + m
        /\ \A i \in 1..(n + m) : ext[i] = IF i <= n THEN file[i] ELSE lines[i - n]
    BY <2>1, ConcatProperties
  <2>3. lines = <<>> => ext = file
    BY <2>1, ConcatEmptySeq
  <2> HIDE DEF ext, n, m
  <2>4. \A i \in 1..n : ext[i] = file[i]
    BY <1>0, <2>2
  <2>5. m # 0 => Len(ext) > 0 /\ ext[Len(ext)] = lines[m]
    <3> HAVE m # 0
    <3>1. n + m \in 1..(n + m) /\ ~(n + m <= n) /\ (n + m) - n = m
      BY <1>0
    <3> QED
      BY <1>0, <2>2, <3>1
  <2>6. n <= Len(ext)
    BY <1>0, <2>2
  <2> QED
    BY <1>0, <2>1, <2>2, <2>3, <2>4, <2>5, <2>6 DEF ext, n, m
<1>2. CASE Torn
  <2> DEFINE front == Front(file)
             head == [Head(lines) EXCEPT !.text = "glued"]
             tail == Tail(lines)
  <2>1. ext = front \o <<head>> \o tail
    BY <1>2 DEF Extend
  <2>2. lines # <<>> /\ n # 0 /\ m # 0 /\ file[n].text = "torn"
    BY <1>0, <1>2 DEF Last
  <2>3. front \in Seq(Line) /\ Len(front) = n - 1 /\ \A i \in 1..(n - 1) : front[i] = file[i]
    <3>1. front = SubSeq(file, 1, n - 1)
      BY DEF Front
    <3>2. 1 \in Int /\ n - 1 \in Int /\ \A i \in 1..(n - 1) : file[i] \in Line
      BY <1>0
    <3>3. /\ SubSeq(file, 1, n - 1) \in Seq(Line)
          /\ Len(SubSeq(file, 1, n - 1)) = IF 1 <= n - 1 THEN n - 1 - 1 + 1 ELSE 0
          /\ \A i \in 1..(n - 1 - 1 + 1) : SubSeq(file, 1, n - 1)[i] = file[1 + i - 1]
      BY <3>2, SubSeqProperties
    <3> HIDE DEF front, n
    <3> QED
      BY <1>0, <2>2, <3>1, <3>3
  <2>4. head \in Line /\ head.seq = lines[1].seq
    <3>1. Head(lines) = lines[1] /\ lines[1] \in Line
      BY <1>0, <2>2
    <3> QED
      BY <3>1 DEF Line
  <2>5. tail \in Seq(Line) /\ Len(tail) = m - 1 /\ \A i \in 1..(m - 1) : tail[i] = lines[i + 1]
    BY <2>2, HeadTailProperties
  <2> HIDE DEF front, head, tail
  <2>6. <<head>> \in Seq(Line) /\ Len(<<head>>) = 1 /\ <<head>>[1] = head
    BY <2>4
  <2> DEFINE fh == front \o <<head>>
             one == <<head>>
  <2>7. fh \in Seq(Line) /\ Len(fh) = n
        /\ \A i \in 1..n : fh[i] = IF i <= n - 1 THEN file[i] ELSE head
    <3> HIDE DEF one
    <3>1. /\ front \o one \in Seq(Line) /\ Len(front \o one) = Len(front) + Len(one)
          /\ \A i \in 1..(Len(front) + Len(one)) :
                (front \o one)[i] = IF i <= Len(front) THEN front[i] ELSE one[i - Len(front)]
      BY <2>3, <2>6, ConcatProperties DEF one
    <3>2. Len(front) + Len(one) = n
      BY <1>0, <2>3, <2>6 DEF one
    <3>3. ASSUME NEW i \in 1..n PROVE (front \o one)[i] = IF i <= n - 1 THEN file[i] ELSE head
      <4>1. CASE i <= n - 1
        BY <1>0, <2>3, <3>1, <3>2, <4>1
      <4>2. CASE ~(i <= n - 1)
        <5>1. i - Len(front) = 1 /\ ~(i <= Len(front))
          BY <1>0, <2>3, <4>2
        <5>2. (front \o one)[i] = one[1]
          BY <3>1, <3>2, <5>1
        <5> QED
          BY <2>6, <4>2, <5>2 DEF one
      <4> QED
        BY <4>1, <4>2
    <3> QED
      BY <3>1, <3>2, <3>3 DEF one
  <2>8. ext = fh \o tail
    BY <2>1
  <2> HIDE DEF fh, one, ext, n, m
  <2>9. /\ ext \in Seq(Line) /\ Len(ext) = n + (m - 1)
        /\ \A i \in 1..(n + (m - 1)) : ext[i] = IF i <= n THEN fh[i] ELSE tail[i - n]
    <3>1. /\ fh \o tail \in Seq(Line) /\ Len(fh \o tail) = Len(fh) + Len(tail)
          /\ \A i \in 1..(Len(fh) + Len(tail)) :
                (fh \o tail)[i] = IF i <= Len(fh) THEN fh[i] ELSE tail[i - Len(fh)]
      BY <2>5, <2>7, ConcatProperties
    <3>2. Len(fh) = n /\ Len(tail) = m - 1
      BY <2>5, <2>7
    <3> QED
      BY <2>8, <3>1, <3>2, Zenon
  <2>10. \A i \in 1..n : ext[i] = file[i] \/ (i = n /\ ext[i] = head)
    BY <1>0, <2>2, <2>7, <2>9
  <2>11. Len(ext) > 0 /\ ext[Len(ext)].seq = lines[m].seq
    <3>1. CASE m = 1
      <4>1. Len(ext) = n /\ n \in 1..(n + (m - 1)) /\ n \in 1..n /\ ~(n <= n - 1)
        BY <1>0, <2>2, <2>9, <3>1
      <4>2. ext[n] = fh[n] /\ fh[n] = head
        BY <2>7, <2>9, <4>1
      <4> QED
        BY <1>0, <2>2, <2>4, <3>1, <4>1, <4>2
    <3>2. CASE m # 1
      <4>1. n + (m - 1) \in 1..(n + (m - 1)) /\ ~(n + (m - 1) <= n) /\ (n + (m - 1)) - n = m - 1
            /\ m - 1 \in 1..(m - 1) /\ (m - 1) + 1 = m
        BY <1>0, <2>2, <3>2
      <4>2. ext[Len(ext)] = tail[m - 1] /\ tail[m - 1] = lines[m]
        BY <2>5, <2>9, <4>1
      <4> QED
        BY <1>0, <2>2, <2>9, <4>2
    <3> QED
      BY <3>1, <3>2
  <2>12. n <= Len(ext)
    BY <1>0, <2>2, <2>9
  <2>13. ~(\A i \in DOMAIN file : file[i].text = "whole")
    <3>1. n \in DOMAIN file
      BY <1>0, <2>2
    <3> QED
      BY <2>2, <3>1
  <2> QED
    BY <2>2, <2>4, <2>9, <2>10, <2>11, <2>12, <2>13 DEF ext, n, m
<1> QED
  BY <1>1, <1>2

\* The numbers in a file have a bound.
LEMMA NumbersBounded ==
  ASSUME NEW file \in Seq(Line)
  PROVE  \E b \in Nat : \A i \in DOMAIN file : file[i].seq <= b
<1> DEFINE n == Len(file)
           T == {m \in 0..n : \E b \in Nat : \A i \in 1..m : file[i].seq <= b}
<1>1. n \in Nat /\ DOMAIN file = 1..n
  OBVIOUS
<1>2. ASSUME NEW i \in 1..n PROVE file[i].seq \in Nat
  <2>1. file[i] \in Line
    OBVIOUS
  <2> QED
    BY <2>1 DEF Line
<1> HIDE DEF n
<1>3. 0 \in T /\ T \in SUBSET (0..n)
  BY <1>1
<1>4. ASSUME NEW m \in 1..n, m - 1 \in T PROVE m \in T
  <2>1. PICK b \in Nat : \A i \in 1..(m - 1) : file[i].seq <= b
    BY <1>4
  <2>2. file[m].seq \in Nat
    BY <1>2
  <2>3. PICK c \in Nat : b <= c /\ file[m].seq <= c
    <3>1. CASE b <= file[m].seq
      BY <2>2, <3>1
    <3>2. CASE file[m].seq <= b
      BY <3>2
    <3> QED
      BY <2>2, <3>1, <3>2
  <2>4. \A i \in 1..m : file[i].seq <= c
    <3>1. ASSUME NEW i \in 1..m PROVE file[i].seq <= c
      <4>1. CASE i = m
        BY <2>3, <4>1
      <4>2. CASE i # m
        <5>1. i \in 1..(m - 1) /\ i \in 1..n
          BY <1>1, <4>2
        <5>2. file[i].seq <= b /\ file[i].seq \in Nat
          BY <1>2, <2>1, <5>1
        <5> QED
          BY <2>3, <5>2
      <4> QED
        BY <4>1, <4>2
    <3> QED
      BY <3>1
  <2> QED
    BY <1>1, <2>4
<1>5. n \in T
  <2> HIDE DEF T
  <2>1. T = 0..n
    BY <1>1, <1>3, <1>4, Climb
  <2> QED
    BY <1>1, <2>1
<1> QED
  BY <1>1, <1>5

\* What recovery finds: the marker, or one past the newest file's last whole line.
LEMMA Recovery ==
  ASSUME TypeOK
  PROVE  /\ recover_next_seq \in Nat /\ from_files \in Nat
         /\ marker <= recover_next_seq /\ FIRST_SEQ <= recover_next_seq /\ from_files <= recover_next_seq
         /\ recover_next_seq \in {marker, from_files, FIRST_SEQ}
         /\ \A d \in present : (\A e \in present : e <= d) =>
               \A i \in DOMAIN files[d] : files[d][i].text = "whole" => files[d][i].seq + 1 <= from_files
         /\ \/ from_files = 0
            \/ \E d \in present : /\ \A e \in present : e <= d
                                  /\ \E i \in DOMAIN files[d] : /\ files[d][i].text = "whole"
                                                                /\ from_files = files[d][i].seq + 1
<1>0. /\ MaxDay \in Nat /\ Days = 1..MaxDay /\ present \subseteq Days /\ marker \in Nat
      /\ \A d \in Days : files[d] \in Seq(Line)
  BY EventLogAssumption DEF TypeOK, Days
<1>1. /\ from_files \in Nat
      /\ \A d \in present : (\A e \in present : e <= d) =>
               \A i \in DOMAIN files[d] : files[d][i].text = "whole" => files[d][i].seq + 1 <= from_files
      /\ \/ from_files = 0
         \/ \E d \in present : /\ \A e \in present : e <= d
                               /\ \E i \in DOMAIN files[d] : /\ files[d][i].text = "whole"
                                                             /\ from_files = files[d][i].seq + 1
  <2>1. CASE present = {}
    <3>1. from_files = 0
      BY <2>1 DEF from_files
    <3> QED
      BY <2>1, <3>1
  <2>2. CASE present # {}
    <3>1. present \in SUBSET Nat /\ \A d \in present : d <= MaxDay
      BY <1>0
    <3>2. newest \in present /\ \A e \in present : e <= newest
      <4>1. MaxOf(present) \in present /\ \A e \in present : e <= MaxOf(present)
        BY <1>0, <2>2, <3>1, MaxOfIsMax
      <4> QED
        BY <4>1, Zenon DEF newest
    <3>3. \A d \in present : (\A e \in present : e <= d) => d = newest
      BY <3>1, <3>2
    <3> DEFINE file == files[newest]
               S == {0} \cup {l.seq + 1 : l \in Range(Parsed(file))}
    <3>4. from_files = MaxOf(S)
      BY <2>2 DEF from_files
    <3>5. file \in Seq(Line)
      BY <1>0, <3>2
    <3> HIDE DEF file
    <3>6. ASSUME NEW l
          PROVE  l \in Range(Parsed(file)) <=> \E i \in DOMAIN file : file[i] = l /\ l.text = "whole"
      <4>1. Has(Parsed(file), l) <=> Has(file, l) /\ l.text = "whole"
        BY <3>5, ParsedHas
      <4>2. l \in Range(Parsed(file)) <=> Has(Parsed(file), l)
        BY DEF Range, Has
      <4> QED
        BY <4>1, <4>2 DEF Has
    <3>7. PICK b \in Nat : \A i \in DOMAIN file : file[i].seq <= b
      BY <3>5, NumbersBounded
    <3>8. \A i \in DOMAIN file : file[i].seq \in Nat
      <4>1. \A i \in DOMAIN file : file[i] \in Line
        BY <3>5
      <4> QED
        BY <4>1 DEF Line
    <3>9. ASSUME NEW x
          PROVE  x \in S <=> x = 0 \/ \E i \in DOMAIN file : file[i].text = "whole" /\ x = file[i].seq + 1
      BY <3>6, Zenon
    <3> HIDE DEF S
    <3>10. S \in SUBSET Nat /\ S # {} /\ b + 1 \in Nat /\ \A y \in S : y <= b + 1
      <4>1. ASSUME NEW y \in S PROVE y \in Nat /\ y <= b + 1
        BY <3>7, <3>8, <3>9
      <4>2. 0 \in S
        BY <3>9
      <4> QED
        BY <3>7, <4>1, <4>2
    <3>11. MaxOf(S) \in S /\ \A y \in S : y <= MaxOf(S)
      BY <3>10, MaxOfIsMax
    <3>12. from_files \in Nat /\ from_files \in S
      BY <3>4, <3>10, <3>11
    <3>13. ASSUME NEW i \in DOMAIN file, file[i].text = "whole" PROVE file[i].seq + 1 <= from_files
      <4>1. file[i].seq + 1 \in S
        BY <3>9, <3>13
      <4> QED
        BY <3>4, <3>11, <4>1
    <3>14. from_files = 0 \/ \E i \in DOMAIN file : file[i].text = "whole" /\ from_files = file[i].seq + 1
      BY <3>9, <3>12
    <3> QED
      BY <3>2, <3>3, <3>12, <3>13, <3>14 DEF file
  <2> QED
    BY <2>1, <2>2
<1> DEFINE S == {marker, from_files, FIRST_SEQ}
<1>2. \E b \in Nat : \A y \in S : y <= b
  <2>1. marker + from_files + 1 \in Nat /\ \A y \in S : y <= marker + from_files + 1
    BY <1>0, <1>1 DEF FIRST_SEQ
  <2> QED
    BY <2>1
<1>3. S \in SUBSET Nat /\ S # {}
  BY <1>0, <1>1 DEF FIRST_SEQ
<1>4. MaxOf(S) \in S /\ \A y \in S : y <= MaxOf(S)
  <2> HIDE DEF S
  <2> QED
    BY <1>2, <1>3, MaxOfIsMax
<1>5. recover_next_seq = MaxOf(S)
  BY DEF recover_next_seq
<1>6. recover_next_seq \in Nat
  BY <1>3, <1>4, <1>5
<1>7. /\ marker <= recover_next_seq /\ FIRST_SEQ <= recover_next_seq /\ from_files <= recover_next_seq
      /\ recover_next_seq \in {marker, from_files, FIRST_SEQ}
  BY <1>4, <1>5, Zenon
<1> QED
  BY <1>1, <1>6, <1>7

-----------------------------------------------------------------------------
(***************************************************************************)
(* What an append does.                                                     *)
(***************************************************************************)

\* The lines an append adds to its file, behind what a failed flush left in the buffer.
Added(d) == IF d = cur THEN buf \o <<Whole(next_seq)>> ELSE <<Whole(next_seq), Whole(next_seq + 1)>>
LastAdded(d) == IF d = cur THEN next_seq ELSE next_seq + 1

\* Two singletons make a pair.
LEMMA TwoInARow ==
  ASSUME NEW S, NEW a \in S, NEW b \in S
  PROVE  <<a>> \o <<b>> = <<a, b>>
<1> DEFINE s == <<a>>
           t == <<b>>
           u == <<a, b>>
<1>1. /\ s \in Seq(S) /\ t \in Seq(S) /\ u \in Seq(S) /\ Len(s) = 1 /\ Len(t) = 1 /\ Len(u) = 2
      /\ s[1] = a /\ t[1] = b /\ u[1] = a /\ u[2] = b
  OBVIOUS
<1> HIDE DEF s, t, u
<1>2. /\ s \o t \in Seq(S) /\ Len(s \o t) = 2
      /\ \A i \in 1..2 : (s \o t)[i] = IF i <= 1 THEN s[i] ELSE t[i - 1]
  <2>1. /\ s \o t \in Seq(S) /\ Len(s \o t) = Len(s) + Len(t)
        /\ \A i \in 1..(Len(s) + Len(t)) : (s \o t)[i] = IF i <= Len(s) THEN s[i] ELSE t[i - Len(s)]
    BY <1>1, ConcatProperties
  <2>2. 1 + 1 = 2
    OBVIOUS
  <2> QED
    BY <1>1, <2>1, <2>2, Zenon
<1>3. \A i \in 1..2 : (s \o t)[i] = u[i]
  BY <1>1, <1>2
<1>4. s \o t = u
  BY <1>1, <1>2, <1>3, SeqEqual
<1> QED
  BY <1>4 DEF s, t, u

\* The lines an append adds are whole, and start with the next number.
LEMMA AddedLines ==
  ASSUME TypeOK, LinesIntact, proc # "down", NEW d \in Days
  PROVE  /\ buf = <<>> \/ (buf = <<Whole(next_seq)>> /\ "disk" \in struck)
         /\ buf \in Seq(Line) /\ (buf # <<>> => buf[1].seq = next_seq)
         /\ \A i \in DOMAIN buf : buf[i].text = "whole"
         /\ Added(d) \in Seq(Line) /\ Added(d) # <<>> /\ Added(d)[1].seq = next_seq
         /\ Added(d)[Len(Added(d))].seq = LastAdded(d)
         /\ \A i \in DOMAIN Added(d) : Added(d)[i].text = "whole"
<1>1. next_seq \in Nat /\ buf \in Seq(Line)
  BY DEF TypeOK
<1>2. buf = <<>> \/ (buf = <<Whole(next_seq)>> /\ "disk" \in struck)
  BY DEF LinesIntact, TypeOK
<1>3. \A s \in Nat : Whole(s) \in Line /\ Whole(s).seq = s /\ Whole(s).text = "whole"
  BY DEF Whole, Line
<1> DEFINE w == Whole(next_seq)
           x == Whole(next_seq + 1)
<1>4. w \in Line /\ w.seq = next_seq /\ w.text = "whole" /\ x \in Line /\ x.seq = next_seq + 1 /\ x.text = "whole"
  BY <1>1, <1>3
<1>5. buf = <<>> \/ buf = <<w>>
  BY <1>2
<1>6. Added(d) = IF d = cur THEN buf \o <<w>> ELSE <<w, x>>
  BY DEF Added
<1> HIDE DEF w, x
<1>7. (buf # <<>> => buf[1].seq = next_seq) /\ \A i \in DOMAIN buf : buf[i].text = "whole"
  BY <1>4, <1>5
<1>8. CASE d = cur /\ buf = <<>>
  <2>1. Added(d) = <<w>>
    BY <1>6, <1>8
  <2> QED
    BY <1>1, <1>2, <1>4, <1>7, <1>8, <2>1 DEF LastAdded
<1>9. CASE d = cur /\ buf = <<w>>
  <2>1. Added(d) = <<w, w>>
    <3>1. <<w>> \o <<w>> = <<w, w>>
      BY <1>4, TwoInARow
    <3> QED
      BY <1>6, <1>9, <3>1
  <2> QED
    BY <1>1, <1>2, <1>4, <1>7, <1>9, <2>1 DEF LastAdded
<1>10. CASE d # cur
  <2>1. Added(d) = <<w, x>>
    BY <1>6, <1>10
  <2> QED
    BY <1>1, <1>2, <1>4, <1>7, <1>10, <2>1 DEF LastAdded
<1> QED
  BY <1>5, <1>8, <1>9, <1>10

\* An append and a rotation in one: both files, the marker and the counter afterwards.
LEMMA WriteEffect ==
  ASSUME TypeOK, NEW d \in Days, NEW due \in BOOLEAN, Write(d, due)
  PROVE  \E sync \in BOOLEAN :
         /\ files' = [e \in Days |-> IF e = d THEN Extend(files[d], Added(d))
                                     ELSE IF e = cur THEN Extend(files[cur], buf) ELSE files[e]]
         /\ synced' = [e \in Days |-> IF (e = cur /\ d # cur) \/ (e = d /\ sync)
                                      THEN Len(files'[e]) ELSE synced[e]]
         /\ marker' = IF sync THEN LastAdded(d) + 1 ELSE IF d # cur THEN next_seq ELSE marker
         /\ next_seq' = LastAdded(d) + 1 /\ cur' = d /\ buf' = <<>> /\ present' = present \cup {d}
         /\ unsynced' \in 0..(SyncEvery - 1)
         /\ issued' = issued \o IF d = cur THEN <<next_seq>> ELSE <<next_seq, next_seq + 1>>
         /\ logged' = logged \cup {LastAdded(d)}
<1>0. /\ next_seq \in Nat /\ files \in [Days -> Seq(Line)] /\ cur \in Days /\ issued \in Seq(Nat)
      /\ unsynced \in 0..(SyncEvery - 1) /\ SyncEvery \in Nat \ {0} /\ buf \in Seq(Line)
  BY EventLogAssumption DEF TypeOK
<1>1. Len(<<>>) = 0 /\ <<>> \o <<Whole(next_seq)>> = <<Whole(next_seq)>>
  OBVIOUS
<1>2. CASE d = cur
  <2> DEFINE sync == BatchFull(unsynced + 1) \/ due
  <2>1. rotation(d) = <<>>
    BY <1>2 DEF rotation
  <2>2. next_seq + Len(rotation(d)) = next_seq
    BY <1>0, <1>1, <2>1
  <2>3. /\ files' = [files EXCEPT ![d] = Extend(@, buf \o <<Whole(next_seq)>>)]
        /\ synced' = [e \in Days |-> IF e = d /\ sync THEN Len(files'[d]) ELSE synced[e]]
        /\ marker' = IF sync THEN next_seq + 1 ELSE marker
        /\ next_seq' = next_seq + 1 /\ cur' = d /\ buf' = <<>> /\ present' = present \cup {d}
        /\ unsynced' = IF sync THEN 0 ELSE unsynced + 1
        /\ logged' = logged \cup {next_seq}
        /\ issued' = issued \o Seqs(<<>>) \o <<next_seq>>
    <3>1. files' = [files EXCEPT ![d] = Extend(@, buf \o <<Whole(next_seq)>>)]
      BY <1>2, <2>1, <2>2, Zenon DEF Write
    <3>2. synced' = [e \in Days |-> IF e = d /\ sync THEN Len(files'[d]) ELSE synced[e]]
      BY <1>2, <2>1, <2>2, <3>1 DEF Write
    <3> QED
      BY <2>1, <2>2, <3>1, <3>2 DEF Write
  <2>4. issued' = issued \o <<next_seq>>
    <3>1. Seqs(<<>>) = <<>>
      BY DEF Seqs
    <3>2. issued \o <<>> = issued
      BY <1>0
    <3> QED
      BY <2>3, <3>1, <3>2
  <2>5. unsynced' \in 0..(SyncEvery - 1)
    BY <1>0, <2>3 DEF BatchFull
  <2>6. files' = [e \in Days |-> IF e = d THEN Extend(files[d], Added(d))
                                 ELSE IF e = cur THEN Extend(files[cur], buf) ELSE files[e]]
    <3>1. Added(d) = buf \o <<Whole(next_seq)>>
      BY <1>2 DEF Added
    <3> QED
      BY <1>0, <1>2, <2>3, <3>1
  <2>7. sync \in BOOLEAN
    BY DEF BatchFull
  <2>8. synced' = [e \in Days |-> IF (e = cur /\ d # cur) \/ (e = d /\ sync)
                                  THEN Len(files'[e]) ELSE synced[e]]
    BY <1>2, <2>3
  <2> HIDE DEF sync
  <2> QED
    BY <1>2, <2>3, <2>4, <2>5, <2>6, <2>7, <2>8 DEF LastAdded
<1>3. CASE d # cur
  <2> DEFINE sync == BatchFull(0 + 1) \/ due
  <2>1. rotation(d) = <<Whole(next_seq)>> /\ rotation(d) # <<>> /\ Len(rotation(d)) = 1
    BY <1>3 DEF rotation
  <2>2. next_seq + Len(rotation(d)) = next_seq + 1
    BY <2>1
  <2> DEFINE old == [files EXCEPT ![cur] = Extend(@, buf)]
             lines == <<Whole(next_seq)>> \o <<Whole(next_seq + 1)>>
  <2>3. /\ files' = [old EXCEPT ![d] = Extend(@, lines)]
        /\ synced' = [e \in Days |-> IF e = cur \/ (e = d /\ sync)
                                     THEN Len(IF e = d THEN [old EXCEPT ![d] = Extend(@, lines)][e] ELSE old[e])
                                     ELSE synced[e]]
        /\ marker' = IF sync THEN next_seq + 1 + 1 ELSE next_seq
        /\ next_seq' = next_seq + 1 + 1 /\ cur' = d /\ buf' = <<>> /\ present' = present \cup {d}
        /\ unsynced' = IF sync THEN 0 ELSE 0 + 1
        /\ logged' = logged \cup {next_seq + 1}
        /\ issued' = issued \o Seqs(<<Whole(next_seq)>>) \o <<next_seq + 1>>
    <3>1. files' = [old EXCEPT ![d] = Extend(@, lines)]
      BY <2>1, <2>2, Zenon DEF Write
    <3>2. synced' = [e \in Days |-> IF e = cur \/ (e = d /\ sync)
                                    THEN Len(IF e = d THEN [old EXCEPT ![d] = Extend(@, lines)][e] ELSE old[e])
                                    ELSE synced[e]]
      <4> DEFINE rot == rotation(d)
                 old1 == IF rot = <<>> THEN files ELSE [files EXCEPT ![cur] = Extend(@, buf)]
                 lines1 == (IF rot = <<>> THEN buf ELSE rot) \o <<Whole(next_seq + Len(rot))>>
                 sync1 == BatchFull((IF rot = <<>> THEN unsynced ELSE 0) + 1) \/ due
                 new1 == [old1 EXCEPT ![d] = Extend(@, lines1)]
      <4>1. synced' = [e \in Days |-> IF (e = cur /\ rot # <<>>) \/ (e = d /\ sync1)
                                      THEN Len(IF e = d THEN new1[e] ELSE old1[e]) ELSE synced[e]]
        BY Zenon DEF Write
      <4>2. old1 = old /\ lines1 = lines /\ rot # <<>>
        BY <2>1, <2>2, Zenon
      <4>3. (IF rot = <<>> THEN unsynced ELSE 0) = 0
        BY <2>1
      <4>4. sync1 <=> sync
        BY <4>3, Zenon
      <4>5. new1 = [old EXCEPT ![d] = Extend(@, lines)]
        BY <4>2, Zenon
      <4> HIDE DEF rot, old, lines, sync, old1, lines1, sync1, new1
      <4> QED
        BY <4>1, <4>2, <4>4, <4>5
    <3> HIDE DEF old, lines
    <3> QED
      BY <2>1, <2>2, <3>1, <3>2, Zenon DEF Write
  <2>4. lines = <<Whole(next_seq), Whole(next_seq + 1)>>
    <3>1. Whole(next_seq) \in Line /\ Whole(next_seq + 1) \in Line
      BY <1>0 DEF Whole, Line
    <3> QED
      BY <3>1, TwoInARow
  <2>5. old = [e \in Days |-> IF e = cur THEN Extend(files[cur], buf) ELSE files[e]]
    BY <1>0
  <2>6. files' = [e \in Days |-> IF e = d THEN Extend(files[d], Added(d))
                                 ELSE IF e = cur THEN Extend(files[cur], buf) ELSE files[e]]
    <3>1. Added(d) = lines
      BY <1>3, <2>4 DEF Added
    <3>2. old[d] = files[d]
      BY <1>3, <2>5
    <3> HIDE DEF lines, old
    <3> QED
      BY <2>3, <2>5, <3>1, <3>2
  <2>7. synced' = [e \in Days |-> IF (e = cur /\ d # cur) \/ (e = d /\ sync)
                                  THEN Len(files'[e]) ELSE synced[e]]
    <3>1. \A e \in Days : (IF e = d THEN [old EXCEPT ![d] = Extend(@, lines)][e] ELSE old[e]) = files'[e]
      <4> HIDE DEF lines
      <4> QED
        BY <2>3, <2>5
    <3> HIDE DEF lines, old, sync
    <3> QED
      BY <1>3, <2>3, <3>1
  <2>8. issued' = issued \o <<next_seq, next_seq + 1>>
    <3>1. Seqs(<<Whole(next_seq)>>) = <<next_seq>>
      BY DEF Seqs, Whole
    <3>2. <<next_seq>> \in Seq(Nat) /\ <<next_seq + 1>> \in Seq(Nat)
          /\ <<next_seq>> \o <<next_seq + 1>> = <<next_seq, next_seq + 1>>
      <4>1. next_seq \in Nat /\ next_seq + 1 \in Nat
        BY <1>0
      <4>2. <<next_seq>> \o <<next_seq + 1>> = <<next_seq, next_seq + 1>>
        BY <4>1, TwoInARow
      <4> QED
        BY <4>1, <4>2
    <3>3. (issued \o <<next_seq>>) \o <<next_seq + 1>> = issued \o (<<next_seq>> \o <<next_seq + 1>>)
      BY <1>0, <3>2, ConcatAssociative
    <3> QED
      BY <2>3, <3>1, <3>2, <3>3, Zenon
  <2>9. unsynced' \in 0..(SyncEvery - 1)
    BY <1>0, <2>3 DEF BatchFull
  <2>10. sync \in BOOLEAN
    BY DEF BatchFull
  <2> HIDE DEF sync, old, lines
  <2> QED
    BY <1>3, <2>3, <2>6, <2>7, <2>8, <2>9, <2>10 DEF LastAdded
<1> QED
  BY <1>2, <1>3

\* Every file keeps its lines, the log's new last line is in file d, and none of the new
\* lines is cut short.
LEMMA Written ==
  ASSUME TypeOK, LinesIntact, proc # "down", NEW d \in Days, NEW due \in BOOLEAN, Write(d, due)
  PROVE  /\ files' \in [Days -> Seq(Line)] /\ synced' \in [Days -> Nat]
         /\ \A e \in Days : synced[e] <= synced'[e] /\ synced'[e] <= Len(files'[e])
         /\ \A e \in Days : \A i \in 1..Len(files[e]) :
               /\ i \in 1..Len(files'[e])
               /\ \/ files'[e][i] = files[e][i]
                  \/ files[e][i].text = "torn" /\ files'[e][i].seq = next_seq
         /\ Len(files'[d]) > 0 /\ files'[d][Len(files'[d])].seq = LastAdded(d)
         /\ \A e \in Days \ {d, cur} : files'[e] = files[e]
         /\ "power" \notin struck => \A e \in Days : \A i \in DOMAIN files'[e] : files'[e][i].text = "whole"
         /\ struck \subseteq {"prune"} =>
               /\ buf = <<>> /\ files'[d] = files[d] \o Added(d)
               /\ \A e \in Days \ {d} : files'[e] = files[e]
<1>0. /\ files \in [Days -> Seq(Line)] /\ cur \in Days /\ synced \in [Days -> Nat]
      /\ \A e \in Days : synced[e] <= Len(files[e])
  BY DEF TypeOK
<1>1. /\ buf = <<>> \/ (buf = <<Whole(next_seq)>> /\ "disk" \in struck)
      /\ buf \in Seq(Line) /\ (buf # <<>> => buf[1].seq = next_seq)
      /\ \A i \in DOMAIN buf : buf[i].text = "whole"
      /\ Added(d) \in Seq(Line) /\ Added(d) # <<>> /\ Added(d)[1].seq = next_seq
      /\ Added(d)[Len(Added(d))].seq = LastAdded(d)
      /\ \A i \in DOMAIN Added(d) : Added(d)[i].text = "whole"
  BY AddedLines
<1>2. PICK sync \in BOOLEAN :
         /\ files' = [e \in Days |-> IF e = d THEN Extend(files[d], Added(d))
                                     ELSE IF e = cur THEN Extend(files[cur], buf) ELSE files[e]]
         /\ synced' = [e \in Days |-> IF (e = cur /\ d # cur) \/ (e = d /\ sync)
                                      THEN Len(files'[e]) ELSE synced[e]]
  BY WriteEffect
<1> DEFINE tail(e) == IF e = d THEN Added(d) ELSE IF e = cur THEN buf ELSE <<>>
<1>3. ASSUME NEW e \in Days
      PROVE  /\ tail(e) \in Seq(Line) /\ (tail(e) # <<>> => tail(e)[1].seq = next_seq)
             /\ \A i \in DOMAIN tail(e) : tail(e)[i].text = "whole"
  <2>1. <<>> \in Seq(Line) /\ DOMAIN <<>> = {}
    OBVIOUS
  <2> QED
    BY <1>1, <2>1
<1>4. ASSUME NEW e \in Days PROVE files'[e] = Extend(files[e], tail(e))
  <2>1. Extend(files[e], <<>>) = files[e]
    <3>1. files[e] \in Seq(Line) /\ <<>> \in Seq(Line)
      BY <1>0
    <3> QED
      BY <3>1, Extending
  <2> QED
    BY <1>2, <2>1
<1>5. tail(d) = Added(d)
  OBVIOUS
<1>6. \A e \in Days \ {d, cur} : tail(e) = <<>>
  OBVIOUS
<1>7. buf = <<>> => \A e \in Days \ {d} : tail(e) = <<>>
  OBVIOUS
<1> HIDE DEF tail
<1>8. ASSUME NEW e \in Days
      PROVE  /\ files'[e] \in Seq(Line) /\ Len(files[e]) <= Len(files'[e])
             /\ \A i \in 1..Len(files[e]) :
                   \/ files'[e][i] = files[e][i]
                   \/ tail(e) # <<>> /\ files[e][i].text = "torn" /\ files'[e][i].seq = tail(e)[1].seq
             /\ tail(e) # <<>> => Len(files'[e]) > 0 /\ files'[e][Len(files'[e])].seq = tail(e)[Len(tail(e))].seq
             /\ tail(e) = <<>> => files'[e] = files[e]
             /\ (\A i \in DOMAIN files[e] : files[e][i].text = "whole") => files'[e] = files[e] \o tail(e)
  <2> DEFINE file == files[e]
             t == tail(e)
             ext == Extend(file, t)
  <2>1. file \in Seq(Line) /\ t \in Seq(Line)
    BY <1>0, <1>3
  <2>2. files'[e] = ext
    BY <1>4
  <2> HIDE DEF file, t
  <2>3. /\ ext \in Seq(Line) /\ Len(file) <= Len(ext)
        /\ \A i \in 1..Len(file) :
              ext[i] = file[i] \/ (t # <<>> /\ file[i].text = "torn" /\ ext[i].seq = t[1].seq)
        /\ t # <<>> => Len(ext) > 0 /\ ext[Len(ext)].seq = t[Len(t)].seq
        /\ t = <<>> => ext = file
        /\ (\A i \in DOMAIN file : file[i].text = "whole") => ext = file \o t
    BY <2>1, Extending, ZenonT(30)
  <2> HIDE DEF ext
  <2> QED
    BY <2>2, <2>3 DEF file, t
<1>9. files' \in [Days -> Seq(Line)]
  BY <1>2, <1>8
<1>10. \A e \in Days : \A i \in 1..Len(files[e]) :
          /\ i \in 1..Len(files'[e])
          /\ \/ files'[e][i] = files[e][i]
             \/ files[e][i].text = "torn" /\ files'[e][i].seq = next_seq
  <2>1. ASSUME NEW e \in Days PROVE Len(files[e]) \in Nat /\ Len(files'[e]) \in Nat
    <3>1. files[e] \in Seq(Line) /\ files'[e] \in Seq(Line)
      BY <1>0, <1>8
    <3> QED
      BY <3>1, LenProperties
  <2> QED
    BY <1>3, <1>8, <2>1, SMTT(20)
<1>11. synced' \in [Days -> Nat] /\ \A e \in Days : synced[e] <= synced'[e] /\ synced'[e] <= Len(files'[e])
  <2>1. ASSUME NEW e \in Days PROVE Len(files'[e]) \in Nat /\ Len(files[e]) \in Nat
    <3>1. files[e] \in Seq(Line) /\ files'[e] \in Seq(Line)
      BY <1>0, <1>8
    <3> QED
      BY <3>1, LenProperties
  <2>2. \A e \in Days : synced'[e] = Len(files'[e]) \/ synced'[e] = synced[e]
    BY <1>2
  <2>3. \A e \in Days : Len(files[e]) <= Len(files'[e])
    BY <1>8
  <2>4. \A e \in Days : synced'[e] \in Nat /\ synced[e] <= synced'[e] /\ synced'[e] <= Len(files'[e])
    BY <1>0, <2>1, <2>2, <2>3
  <2> QED
    BY <1>2, <2>4
<1>12. "power" \notin struck => \A e \in Days : \A i \in DOMAIN files'[e] : files'[e][i].text = "whole"
  <2> SUFFICES ASSUME "power" \notin struck, NEW e \in Days
               PROVE  \A i \in DOMAIN files'[e] : files'[e][i].text = "whole"
    BY Zenon
  <2> DEFINE file == files[e]
             t == tail(e)
  <2>1. file \in Seq(Line) /\ t \in Seq(Line) /\ \A i \in DOMAIN t : t[i].text = "whole"
    BY <1>0, <1>3
  <2>2. \A i \in DOMAIN file : file[i].text = "whole"
    BY DEF LinesIntact
  <2>3. files'[e] = file \o t
    BY <1>8, <2>2
  <2> HIDE DEF file, t
  <2>4. /\ file \o t \in Seq(Line) /\ Len(file \o t) = Len(file) + Len(t)
        /\ \A i \in 1..(Len(file) + Len(t)) : (file \o t)[i] = IF i <= Len(file) THEN file[i] ELSE t[i - Len(file)]
    BY <2>1, ConcatProperties
  <2>5. DOMAIN (file \o t) = 1..(Len(file) + Len(t)) /\ DOMAIN file = 1..Len(file) /\ DOMAIN t = 1..Len(t)
        /\ Len(file) \in Nat /\ Len(t) \in Nat
    BY <2>1, <2>4, LenProperties
  <2>6. ASSUME NEW i \in 1..(Len(file) + Len(t)) PROVE (file \o t)[i].text = "whole"
    <3>1. CASE i <= Len(file)
      BY <2>2, <2>4, <2>5, <3>1
    <3>2. CASE ~(i <= Len(file))
      <4>1. i - Len(file) \in 1..Len(t)
        BY <2>5, <3>2
      <4> QED
        BY <2>1, <2>4, <2>5, <3>2, <4>1
    <3> QED
      BY <3>1, <3>2
  <2> QED
    BY <2>3, <2>5, <2>6
<1>13. struck \subseteq {"prune"} =>
          /\ buf = <<>> /\ files'[d] = files[d] \o Added(d)
          /\ \A e \in Days \ {d} : files'[e] = files[e]
  <2> SUFFICES ASSUME struck \subseteq {"prune"}
               PROVE  /\ buf = <<>> /\ files'[d] = files[d] \o Added(d)
                      /\ \A e \in Days \ {d} : files'[e] = files[e]
    OBVIOUS
  <2>1. "power" \notin struck /\ "disk" \notin struck
    OBVIOUS
  <2>2. buf = <<>>
    BY <1>1, <2>1
  <2>3. \A i \in DOMAIN files[d] : files[d][i].text = "whole"
    BY <2>1 DEF LinesIntact
  <2>4. files'[d] = files[d] \o Added(d)
    BY <1>5, <1>8, <2>3, Zenon
  <2>5. \A e \in Days \ {d} : files'[e] = files[e]
    BY <1>7, <1>8, <2>2
  <2> QED
    BY <2>2, <2>4, <2>5
<1>14. Len(files'[d]) > 0 /\ files'[d][Len(files'[d])].seq = LastAdded(d)
  BY <1>1, <1>5, <1>8
<1>15. \A e \in Days \ {d, cur} : files'[e] = files[e]
  BY <1>6, <1>8
<1> QED
  BY <1>9, <1>10, <1>11, <1>12, <1>13, <1>14, <1>15

\* An append, of a record or of the one that ends a recovery.
Appending(d, due) ==
    /\ Write(d, due) /\ d <= day /\ proc # "down" /\ proc' = "up" /\ UNCHANGED <<day, lost>>
    /\ stamp' \in [Appenders -> 0..MaxDay] /\ \A a \in Appenders : stamp'[a] <= day
    /\ struck \subseteq struck' /\ struck' \subseteq struck \cup {"midnight"}
    /\ "midnight" \notin struck' => cur <= d /\ (proc = "opening" => d = cur)

\* An append keeps every variable in its domain.
LEMMA AppendTyped ==
  ASSUME LogInv, NEW d \in Days, NEW due \in BOOLEAN, Appending(d, due)
  PROVE  TypeOK'
<1>0. TypeOK /\ LinesIntact /\ proc # "down" /\ Write(d, due)
  BY DEF LogInv, Appending
<1>1. /\ files' \in [Days -> Seq(Line)] /\ synced' \in [Days -> Nat]
      /\ \A e \in Days : synced'[e] <= Len(files'[e])
  BY <1>0, Written
<1>2. PICK sync \in BOOLEAN :
         /\ marker' = IF sync THEN LastAdded(d) + 1 ELSE IF d # cur THEN next_seq ELSE marker
         /\ next_seq' = LastAdded(d) + 1 /\ cur' = d /\ buf' = <<>> /\ present' = present \cup {d}
         /\ unsynced' \in 0..(SyncEvery - 1)
         /\ issued' = issued \o IF d = cur THEN <<next_seq>> ELSE <<next_seq, next_seq + 1>>
         /\ logged' = logged \cup {LastAdded(d)}
  BY <1>0, WriteEffect
<1>3. next_seq \in Nat /\ marker \in Nat /\ LastAdded(d) \in Nat /\ issued \in Seq(Nat) /\ logged \subseteq Nat
  BY <1>0 DEF TypeOK, LastAdded
<1>4. marker' \in Nat /\ next_seq' \in Nat
  BY <1>2, <1>3
<1>5. issued' \in Seq(Nat)
  <2>1. CASE d = cur
    <3>1. <<next_seq>> \in Seq(Nat) /\ issued' = issued \o <<next_seq>>
      BY <1>2, <1>3, <2>1
    <3> QED
      BY <1>3, <3>1, ConcatProperties
  <2>2. CASE d # cur
    <3>1. <<next_seq, next_seq + 1>> \in Seq(Nat) /\ issued' = issued \o <<next_seq, next_seq + 1>>
      BY <1>2, <1>3, <2>2, SMTT(20)
    <3> QED
      BY <1>3, <3>1, ConcatProperties
  <2> QED
    BY <2>1, <2>2
<1>6. logged' \subseteq Nat /\ present' \subseteq Days /\ cur' \in Days /\ buf' \in Seq(Line)
  <2>1. logged' \subseteq Nat /\ present' \subseteq Days
    BY <1>0, <1>2, <1>3 DEF TypeOK
  <2>2. cur' \in Days /\ buf' \in Seq(Line)
    BY <1>2
  <2> QED
    BY <2>1, <2>2
<1>7. /\ day' \in Days /\ lost' \in Nat /\ proc' \in {"down", "opening", "up"}
      /\ stamp' \in [Appenders -> 0..MaxDay]
      /\ struck' \subseteq {"kill_opening", "power", "disk", "midnight", "prune", "prune_all"}
  BY <1>0 DEF TypeOK, Appending
<1> QED
  BY <1>1, <1>2, <1>4, <1>5, <1>6, <1>7 DEF TypeOK

\* It leaves the newest file the open one, unless the log rotates back over midnight.
LEMMA AppendKeepsDays ==
  ASSUME LogInv, NEW d \in Days, NEW due \in BOOLEAN, Appending(d, due)
  PROVE  DaysInOrder'
<1>0. /\ TypeOK /\ DaysInOrder /\ LinesIntact /\ proc # "down" /\ Write(d, due) /\ cur \in Days
      /\ present \subseteq Days /\ Days \subseteq Nat
  BY DEF LogInv, Appending, TypeOK, Days
<1>1. cur' = d /\ present' = present \cup {d}
  BY <1>0, WriteEffect
<1>2. \A e \in Days \ {d, cur} : files'[e] = files[e]
  <2>1. TypeOK /\ LinesIntact /\ proc # "down" /\ Write(d, due)
    BY <1>0
  <2> QED
    BY <2>1, Written
<1>3. cur \in present /\ d <= day /\ day' = day /\ proc' = "up" /\ \A a \in Appenders : stamp'[a] <= day
  BY <1>0 DEF DaysInOrder, Appending
<1>4. \A e \in present' : e <= day'
  BY <1>0, <1>1, <1>3 DEF DaysInOrder
<1>5. \A e \in Days : e \notin present' => files'[e] = <<>>
  BY <1>0, <1>1, <1>2, <1>3 DEF DaysInOrder
<1>6. "midnight" \notin struck' =>
         (\A e \in present' : e <= cur') /\ \A e \in Days : e > cur' => files'[e] = <<>>
  <2> HAVE "midnight" \notin struck'
  <2>1. "midnight" \notin struck /\ cur <= d
    BY DEF Appending
  <2>2. /\ \A e \in present : e <= cur
        /\ \A e \in Days : e > cur => files[e] = <<>>
    BY <1>0, <2>1 DEF DaysInOrder
  <2>3. \A e \in present' : e <= d
    BY <1>0, <1>1, <2>1, <2>2
  <2>4. ASSUME NEW e \in Days, e > d PROVE files'[e] = <<>>
    <3>1. e \notin {d, cur} /\ e > cur
      BY <1>0, <2>1, <2>4
    <3> QED
      BY <1>2, <2>2, <3>1
  <2> QED
    BY <1>1, <2>3, <2>4
<1> QED
  BY <1>1, <1>3, <1>4, <1>5, <1>6 DEF DaysInOrder

\* It leaves no line in the buffer, and cuts none short.
LEMMA AppendKeepsLines ==
  ASSUME LogInv, NEW d \in Days, NEW due \in BOOLEAN, Appending(d, due)
  PROVE  LinesIntact'
<1>0. TypeOK /\ LinesIntact /\ proc # "down" /\ proc' = "up" /\ Write(d, due) /\ struck \subseteq struck'
  BY DEF LogInv, Appending
<1>1. "power" \notin struck => \A e \in Days : \A i \in DOMAIN files'[e] : files'[e][i].text = "whole"
  BY <1>0, Written
<1>2. PICK sync \in BOOLEAN :
         /\ marker' = IF sync THEN LastAdded(d) + 1 ELSE IF d # cur THEN next_seq ELSE marker
         /\ next_seq' = LastAdded(d) + 1 /\ buf' = <<>>
  BY <1>0, WriteEffect
<1>3. /\ next_seq \in Nat /\ marker \in Nat /\ marker <= next_seq /\ FIRST_SEQ <= next_seq
      /\ LastAdded(d) \in Nat /\ next_seq <= LastAdded(d)
  BY <1>0 DEF TypeOK, LinesIntact, LastAdded
<1>4. marker' <= next_seq' /\ FIRST_SEQ <= next_seq'
  BY <1>2, <1>3 DEF FIRST_SEQ
<1> QED
  BY <1>0, <1>1, <1>2, <1>4 DEF LinesIntact

\* The new last line of the newest file vouches for every number up to its own.
LEMMA AppendVouches ==
  ASSUME LogInv, NEW d \in Days, NEW due \in BOOLEAN, Appending(d, due),
         "midnight" \notin struck', "power" \notin struck', NEW n, n <= LastAdded(d)
  PROVE  Vouched(n)'
<1>0. TypeOK /\ LinesIntact /\ DaysInOrder' /\ proc # "down" /\ proc' = "up" /\ Write(d, due)
  BY AppendKeepsDays DEF LogInv, Appending
<1>1. /\ files' \in [Days -> Seq(Line)]
      /\ Len(files'[d]) > 0 /\ files'[d][Len(files'[d])].seq = LastAdded(d)
      /\ \A i \in DOMAIN files'[d] : files'[d][i].text = "whole"
  BY <1>0, Written DEF Appending
<1>2. cur' = d /\ d \in present'
  BY <1>0, WriteEffect
<1>3. \A e \in present' : e <= d
  BY <1>0, <1>2 DEF DaysInOrder
<1>4. Len(files'[d]) \in DOMAIN files'[d]
  <2>1. files'[d] \in Seq(Line)
    BY <1>1
  <2>2. Len(files'[d]) \in Nat /\ DOMAIN files'[d] = 1..Len(files'[d])
    BY <2>1, LenProperties
  <2> QED
    BY <1>1, <2>2
<1> QED
  BY <1>1, <1>2, <1>3, <1>4 DEF Vouched

\* The numbers of an append are the counter's, one after another.
LEMMA AppendIssues ==
  ASSUME TypeOK, NEW d \in Days, NEW due \in BOOLEAN, Write(d, due)
  PROVE  /\ Len(issued) \in Nat /\ Len(issued') = Len(issued) + (LastAdded(d) - next_seq) + 1
         /\ LastAdded(d) \in {next_seq, next_seq + 1}
         /\ DOMAIN issued = 1..Len(issued) /\ DOMAIN issued' = 1..Len(issued')
         /\ \A i \in 1..Len(issued') :
               issued'[i] = IF i <= Len(issued) THEN issued[i] ELSE next_seq + (i - Len(issued)) - 1
<1>0. next_seq \in Nat /\ issued \in Seq(Nat)
  BY DEF TypeOK
<1>1. issued' = issued \o IF d = cur THEN <<next_seq>> ELSE <<next_seq, next_seq + 1>>
  BY WriteEffect
<1> DEFINE new == IF d = cur THEN <<next_seq>> ELSE <<next_seq, next_seq + 1>>
<1>2. /\ new \in Seq(Nat) /\ Len(new) = (LastAdded(d) - next_seq) + 1
      /\ LastAdded(d) \in {next_seq, next_seq + 1}
      /\ \A i \in 1..Len(new) : new[i] = next_seq + i - 1
  <2>1. CASE d = cur
    <3>1. new = <<next_seq>> /\ LastAdded(d) = next_seq
      BY <2>1 DEF LastAdded
    <3> HIDE DEF new
    <3> QED
      BY <1>0, <3>1
  <2>2. CASE d # cur
    <3>1. new = <<next_seq, next_seq + 1>> /\ LastAdded(d) = next_seq + 1
      BY <2>2 DEF LastAdded
    <3> HIDE DEF new
    <3> QED
      BY <1>0, <3>1
  <2> QED
    BY <2>1, <2>2
<1> HIDE DEF new
<1>3. /\ issued \o new \in Seq(Nat) /\ Len(issued \o new) = Len(issued) + Len(new)
      /\ \A i \in 1..(Len(issued) + Len(new)) :
            (issued \o new)[i] = IF i <= Len(issued) THEN issued[i] ELSE new[i - Len(issued)]
  BY <1>0, <1>2, ConcatProperties
<1>4. issued' = issued \o new
  BY <1>1 DEF new
<1>5. Len(issued) \in Nat /\ DOMAIN issued = 1..Len(issued) /\ DOMAIN issued' = 1..Len(issued') /\ Len(new) \in Nat
  BY <1>0, <1>2, <1>3, <1>4, LenProperties
<1>6. ASSUME NEW i \in 1..Len(issued')
      PROVE  issued'[i] = IF i <= Len(issued) THEN issued[i] ELSE next_seq + (i - Len(issued)) - 1
  <2>1. i \in 1..(Len(issued) + Len(new))
    BY <1>3, <1>4
  <2>2. issued'[i] = IF i <= Len(issued) THEN issued[i] ELSE new[i - Len(issued)]
    BY <1>3, <1>4, <2>1
  <2>3. ~(i <= Len(issued)) => i - Len(issued) \in 1..Len(new)
    BY <1>5, <2>1
  <2> QED
    BY <1>2, <2>2, <2>3
<1>7. Len(issued') = Len(issued) + (LastAdded(d) - next_seq) + 1
  BY <1>0, <1>2, <1>3, <1>4, <1>5
<1> QED
  BY <1>2, <1>5, <1>6, <1>7

\* Its numbers are above those handed out before.
LEMMA AppendKeepsFresh ==
  ASSUME LogInv, NEW d \in Days, NEW due \in BOOLEAN, Appending(d, due)
  PROVE  NumbersFresh'
<1> SUFFICES ASSUME struck' \subseteq {"prune", "prune_all", "disk"}
             PROVE  /\ \A i, j \in DOMAIN issued' : i < j => issued'[i] < issued'[j]
                    /\ \A i \in DOMAIN issued' : issued'[i] < next_seq'
                    /\ \A i \in DOMAIN issued' : Vouched(issued[i])'
  BY Zenon DEF NumbersFresh, Only
<1>0. TypeOK /\ proc # "down" /\ Write(d, due) /\ next_seq \in Nat /\ issued \in Seq(Nat)
  BY DEF LogInv, Appending, TypeOK
<1>1. struck \subseteq {"prune", "prune_all", "disk"}
  BY DEF Appending
<1>2. /\ \A i, j \in DOMAIN issued : i < j => issued[i] < issued[j]
      /\ \A i \in DOMAIN issued : issued[i] < next_seq
  BY <1>0, <1>1 DEF LogInv, NumbersFresh, Only
<1>3. /\ Len(issued) \in Nat /\ Len(issued') = Len(issued) + (LastAdded(d) - next_seq) + 1
      /\ LastAdded(d) \in {next_seq, next_seq + 1}
      /\ DOMAIN issued = 1..Len(issued) /\ DOMAIN issued' = 1..Len(issued')
      /\ \A i \in 1..Len(issued') :
            issued'[i] = IF i <= Len(issued) THEN issued[i] ELSE next_seq + (i - Len(issued)) - 1
  BY <1>0, AppendIssues
<1>4. next_seq' = LastAdded(d) + 1
  BY <1>0, WriteEffect
<1>5. \A i \in DOMAIN issued : issued[i] \in Nat
  BY <1>0
<1>6. ASSUME NEW i \in 1..Len(issued') PROVE issued'[i] \in Nat /\ issued'[i] <= LastAdded(d)
  <2>1. CASE i <= Len(issued)
    <3>1. i \in DOMAIN issued /\ issued'[i] = issued[i]
      BY <1>3, <2>1
    <3>2. issued[i] \in Nat /\ issued[i] < next_seq
      BY <1>2, <1>5, <3>1
    <3> QED
      BY <1>0, <1>3, <3>1, <3>2
  <2>2. CASE ~(i <= Len(issued))
    BY <1>0, <1>3, <2>2
  <2> QED
    BY <2>1, <2>2
<1>7. ASSUME NEW i \in 1..Len(issued'), NEW j \in 1..Len(issued'), i < j PROVE issued'[i] < issued'[j]
  <2>1. CASE j <= Len(issued)
    BY <1>2, <1>3, <1>7, <2>1
  <2>2. CASE i <= Len(issued) /\ ~(j <= Len(issued))
    BY <1>0, <1>2, <1>3, <1>5, <1>7, <2>2, SMTT(20)
  <2>3. CASE ~(i <= Len(issued))
    BY <1>0, <1>3, <1>7, <2>3
  <2> QED
    BY <1>7, <1>3, <2>1, <2>2, <2>3
<1>8. ASSUME NEW i \in 1..Len(issued') PROVE Vouched(issued[i])'
  <2>1. PICK n \in Nat : n = issued'[i] /\ n <= LastAdded(d)
    BY <1>6
  <2>2. "midnight" \notin struck' /\ "power" \notin struck'
    OBVIOUS
  <2>3. Vouched(n)'
    BY <2>1, <2>2, AppendVouches
  <2> QED
    BY <2>1, <2>3 DEF Vouched
<1>9. \A i \in 1..Len(issued') : issued'[i] < next_seq'
  BY <1>0, <1>3, <1>4, <1>6
<1> QED
  BY <1>3, <1>7, <1>8, <1>9

\* What was durable before an append still is.
LEMMA AppendBacks ==
  ASSUME LogInv, NEW d \in Days, NEW due \in BOOLEAN, Appending(d, due), NEW n \in Nat,
         n <= next_seq, Backed(n)
  PROVE  Backed(n)'
<1>0. TypeOK /\ LinesIntact /\ proc # "down" /\ Write(d, due)
  BY DEF LogInv, Appending
<1>1. /\ synced' \in [Days -> Nat] /\ files' \in [Days -> Seq(Line)]
      /\ \A e \in Days : synced[e] <= synced'[e] /\ synced'[e] <= Len(files'[e])
      /\ \A e \in Days : \A i \in 1..Len(files[e]) :
            files'[e][i] = files[e][i] \/ (files[e][i].text = "torn" /\ files'[e][i].seq = next_seq)
  BY <1>0, Written
<1>2. PICK e \in present : \E i \in 1..synced[e] : files[e][i].seq >= n
  BY DEF Backed
<1>3. PICK i \in 1..synced[e] : files[e][i].seq >= n
  BY <1>2
<1>4. /\ e \in Days /\ synced[e] \in Nat /\ synced'[e] \in Nat /\ synced[e] <= Len(files[e])
      /\ files[e] \in Seq(Line) /\ next_seq \in Nat
  BY <1>0, <1>1 DEF TypeOK
<1>5. Len(files[e]) \in Nat
  BY <1>4, LenProperties
<1>6. i \in 1..synced'[e] /\ i \in 1..Len(files[e])
  BY <1>1, <1>3, <1>4, <1>5
<1>7. files'[e][i].seq >= n
  <2>1. CASE files'[e][i] = files[e][i]
    BY <1>3, <2>1
  <2>2. CASE files'[e][i].seq = next_seq
    BY <1>4, <2>2
  <2> QED
    BY <1>1, <1>4, <1>6, <2>1, <2>2
<1>8. e \in present'
  BY <1>0, WriteEffect
<1> QED
  BY <1>6, <1>7, <1>8 DEF Backed

\* The marker and the counter stay behind the lines they vouch for.
LEMMA AppendKeepsMarker ==
  ASSUME LogInv, NEW d \in Days, NEW due \in BOOLEAN, Appending(d, due)
  PROVE  MarkerNeverAhead' /\ CounterBacked'
<1>0. /\ TypeOK /\ LinesIntact /\ DaysInOrder /\ proc # "down" /\ Write(d, due) /\ cur \in present
      /\ proc \in {"opening", "up"}
  BY DEF LogInv, Appending, DaysInOrder, TypeOK
<1>1. /\ synced' \in [Days -> Nat] /\ files' \in [Days -> Seq(Line)]
      /\ \A e \in Days : synced[e] <= synced'[e] /\ synced'[e] <= Len(files'[e])
      /\ \A e \in Days : \A i \in 1..Len(files[e]) :
            /\ i \in 1..Len(files'[e])
            /\ files'[e][i] = files[e][i] \/ (files[e][i].text = "torn" /\ files'[e][i].seq = next_seq)
      /\ Len(files'[d]) > 0 /\ files'[d][Len(files'[d])].seq = LastAdded(d)
  <2>1. TypeOK /\ LinesIntact /\ proc # "down" /\ Write(d, due)
    BY <1>0
  <2> QED
    BY <2>1, Written
<1>2. PICK sync \in BOOLEAN :
         /\ synced' = [e \in Days |-> IF (e = cur /\ d # cur) \/ (e = d /\ sync)
                                      THEN Len(files'[e]) ELSE synced[e]]
         /\ marker' = IF sync THEN LastAdded(d) + 1 ELSE IF d # cur THEN next_seq ELSE marker
         /\ next_seq' = LastAdded(d) + 1 /\ cur' = d /\ present' = present \cup {d}
  <2>1. TypeOK /\ Write(d, due)
    BY <1>0
  <2> QED
    BY <2>1, WriteEffect, ZenonT(30)
<1>3. /\ next_seq \in Nat /\ marker \in Nat /\ marker <= next_seq /\ FIRST_SEQ = 1 /\ cur \in Days
      /\ LastAdded(d) \in Nat
  BY <1>0 DEF TypeOK, LinesIntact, LastAdded, FIRST_SEQ
<1>4. \A e \in Days : Len(files[e]) \in Nat /\ Len(files'[e]) \in Nat /\ DOMAIN files[e] = 1..Len(files[e])
                      /\ DOMAIN files'[e] = 1..Len(files'[e])
  <2>1. ASSUME NEW e \in Days PROVE files[e] \in Seq(Line) /\ files'[e] \in Seq(Line)
    BY <1>0, <1>1 DEF TypeOK
  <2> QED
    BY <2>1, LenProperties
<1>5. CounterBacked'
  <2>1. LastAdded(d) >= next_seq' - 1 /\ Len(files'[d]) \in DOMAIN files'[d]
    BY <1>1, <1>2, <1>3, <1>4
  <2>2. \E i \in DOMAIN files'[cur'] : files'[cur'][i].seq >= next_seq' - 1
    BY <1>1, <1>2, <2>1
  <2> QED
    BY <2>2 DEF CounterBacked
<1>6. ASSUME struck' \subseteq {"kill_opening", "power", "disk"}, marker' > FIRST_SEQ
      PROVE  \E e \in present' : \E i \in 1..synced'[e] : files'[e][i].seq >= marker' - 1
  <2>1. struck \subseteq {"kill_opening", "power", "disk"} /\ "midnight" \notin struck'
    BY <1>6 DEF Appending
  <2>2. CASE sync
    <3>1. synced'[d] = Len(files'[d]) /\ marker' = LastAdded(d) + 1 /\ d \in present'
      BY <1>2, <2>2
    <3>2. Len(files'[d]) \in 1..synced'[d] /\ files'[d][Len(files'[d])].seq >= marker' - 1
      BY <1>1, <1>3, <1>4, <3>1
    <3> QED
      BY <3>1, <3>2
  <2>3. CASE ~sync /\ d # cur
    <3>1. marker' = next_seq /\ synced'[cur] = Len(files'[cur]) /\ cur \in present'
      BY <1>0, <1>2, <1>3, <2>3
    <3>2. proc = "up"
      BY <1>0, <2>1, <2>3 DEF Appending
    <3>3. next_seq > FIRST_SEQ
      BY <1>6, <3>1
    <3>4. Backed(next_seq - 1) \/ \E i \in DOMAIN files[cur] : files[cur][i].seq >= next_seq - 1
      BY <2>1, <3>2, <3>3 DEF LogInv, CounterBacked, Only
    <3>5. CASE Backed(next_seq - 1)
      <4>1. PICK n \in Nat : n = next_seq - 1
        BY <1>3, <3>3
      <4>2. n <= next_seq /\ Backed(n)
        BY <1>3, <3>5, <4>1
      <4>3. Backed(n)'
        BY <4>2, AppendBacks
      <4> QED
        BY <3>1, <4>1, <4>3 DEF Backed
    <3>6. CASE \E i \in DOMAIN files[cur] : files[cur][i].seq >= next_seq - 1
      <4>1. PICK i \in 1..Len(files[cur]) : files[cur][i].seq >= next_seq - 1
        BY <1>3, <1>4, <3>6
      <4>2. i \in 1..synced'[cur]
        BY <1>1, <1>3, <3>1
      <4>3. files'[cur][i].seq >= next_seq - 1
        <5>1. files'[cur][i] = files[cur][i] \/ files'[cur][i].seq = next_seq
          BY <1>1, <1>3
        <5>2. next_seq >= next_seq - 1
          BY <1>3
        <5> QED
          BY <4>1, <5>1, <5>2
      <4> QED
        BY <3>1, <4>2, <4>3
    <3> QED
      BY <3>4, <3>5, <3>6
  <2>4. CASE ~sync /\ d = cur
    <3>1. marker' = marker /\ marker > FIRST_SEQ
      BY <1>2, <1>6, <2>4
    <3>2. \E e \in present : \E i \in 1..synced[e] : files[e][i].seq >= marker - 1
      BY <2>1, <3>1 DEF LogInv, MarkerNeverAhead, Only
    <3>3. PICK n \in Nat : n = marker - 1
      BY <1>3, <3>1
    <3>4. n <= next_seq /\ Backed(n)
      BY <1>3, <3>2, <3>3 DEF Backed
    <3>5. Backed(n)'
      BY <3>4, AppendBacks
    <3> QED
      BY <3>1, <3>3, <3>5 DEF Backed
  <2> QED
    BY <2>2, <2>3, <2>4
<1> QED
  BY <1>5, <1>6 DEF MarkerNeverAhead, Only

\* What was logged stays a line, and what it logs is one.
LEMMA AppendKeepsLogged ==
  ASSUME LogInv, NEW d \in Days, NEW due \in BOOLEAN, Appending(d, due)
  PROVE  LoggedOnDisk'
<1>0. TypeOK /\ LinesIntact /\ proc # "down" /\ Write(d, due)
  BY DEF LogInv, Appending
<1>1. /\ files' \in [Days -> Seq(Line)]
      /\ \A e \in Days : \A i \in 1..Len(files[e]) :
            /\ i \in 1..Len(files'[e])
            /\ files'[e][i] = files[e][i] \/ (files[e][i].text = "torn" /\ files'[e][i].seq = next_seq)
      /\ Len(files'[d]) > 0 /\ files'[d][Len(files'[d])].seq = LastAdded(d)
  BY <1>0, Written
<1>2. logged' = logged \cup {LastAdded(d)}
  BY <1>0, WriteEffect
<1>3. \A e \in Days : Len(files[e]) \in Nat /\ Len(files'[e]) \in Nat /\ DOMAIN files[e] = 1..Len(files[e])
                      /\ DOMAIN files'[e] = 1..Len(files'[e])
  <2>1. ASSUME NEW e \in Days PROVE files[e] \in Seq(Line) /\ files'[e] \in Seq(Line)
    BY <1>0, <1>1 DEF TypeOK
  <2> QED
    BY <2>1, LenProperties
<1>4. ASSUME "power" \notin struck', NEW s \in logged'
      PROVE  \E e \in Days : \E i \in DOMAIN files'[e] : files'[e][i].seq = s
  <2>1. "power" \notin struck
    BY <1>4 DEF Appending
  <2>2. CASE s = LastAdded(d)
    <3>1. Len(files'[d]) \in DOMAIN files'[d]
      BY <1>1, <1>3
    <3> QED
      BY <1>1, <2>2, <3>1
  <2>3. CASE s \in logged
    <3>1. PICK e \in Days : \E i \in DOMAIN files[e] : files[e][i].seq = s
      BY <2>1, <2>3 DEF LogInv, LoggedOnDisk
    <3>2. PICK i \in DOMAIN files[e] : files[e][i].seq = s
      BY <3>1
    <3>3. i \in 1..Len(files[e]) /\ files[e][i].text = "whole"
      BY <1>0, <1>3, <2>1 DEF LinesIntact
    <3>4. i \in DOMAIN files'[e] /\ files'[e][i] = files[e][i]
      BY <1>1, <1>3, <3>3
    <3> QED
      BY <3>2, <3>4
  <2> QED
    BY <1>2, <1>4, <2>2, <2>3
<1> QED
  BY <1>4 DEF LoggedOnDisk

\* Over days without lines the numbering stands still, and it never goes back.
LEMMA Level ==
  ASSUME NEW from \in [1..(MaxDay + 1) -> Nat], NEW lo \in 1..(MaxDay + 1), NEW hi \in 1..(MaxDay + 1),
         lo <= hi, \A e \in lo..(hi - 1) : from[e] = from[e + 1]
  PROVE  from[lo] = from[hi]
<1>0. MaxDay \in Nat
  BY EventLogAssumption
<1> DEFINE n == hi - lo
           T == {k \in 0..n : from[lo + k] = from[lo]}
<1>1. n \in Nat /\ 0 \in T /\ T \in SUBSET (0..n)
  BY <1>0
<1>2. ASSUME NEW k \in 1..n, k - 1 \in T PROVE k \in T
  <2>1. lo + (k - 1) \in lo..(hi - 1) /\ (lo + (k - 1)) + 1 = lo + k /\ k \in 0..n
    BY <1>0
  <2>2. from[lo + (k - 1)] = from[lo + k]
    BY <2>1
  <2> QED
    BY <1>2, <2>1, <2>2
<1>3. n \in T
  <2> HIDE DEF T, n
  <2>1. T = 0..n
    BY <1>1, <1>2, Climb
  <2> QED
    BY <1>1, <2>1
<1>4. lo + n = hi
  BY <1>0
<1> QED
  BY <1>3, <1>4

\* Where no file starts before the one ahead of it, the starts only rise.
LEMMA Rising ==
  ASSUME NEW from \in [1..(MaxDay + 1) -> Nat], NEW lo \in 1..(MaxDay + 1), NEW hi \in 1..(MaxDay + 1),
         lo <= hi, \A e \in Days : from[e] <= from[e + 1]
  PROVE  from[lo] <= from[hi]
<1>0. MaxDay \in Nat /\ Days = 1..MaxDay
  BY EventLogAssumption DEF Days
<1> DEFINE n == hi - lo
           T == {k \in 0..n : from[lo] <= from[lo + k]}
<1>1. n \in Nat /\ 0 \in T /\ T \in SUBSET (0..n)
  <2>1. from[lo] \in Nat /\ lo + 0 = lo
    BY <1>0
  <2> QED
    BY <1>0, <2>1
<1>2. ASSUME NEW k \in 1..n, k - 1 \in T PROVE k \in T
  <2>1. lo + (k - 1) \in Days /\ (lo + (k - 1)) + 1 = lo + k /\ k \in 0..n
        /\ lo + (k - 1) \in 1..(MaxDay + 1) /\ lo + k \in 1..(MaxDay + 1)
    BY <1>0
  <2>2. from[lo + (k - 1)] <= from[lo + k]
    BY <2>1
  <2>3. from[lo] \in Nat /\ from[lo + (k - 1)] \in Nat /\ from[lo + k] \in Nat
    BY <2>1
  <2>4. from[lo] <= from[lo + (k - 1)]
    BY <1>2
  <2> QED
    BY <2>1, <2>2, <2>3, <2>4
<1>3. n \in T
  <2> HIDE DEF T, n
  <2>1. T = 0..n
    BY <1>1, <1>2, Climb
  <2> QED
    BY <1>1, <2>1
<1>4. lo + n = hi
  BY <1>0
<1> QED
  BY <1>3, <1>4

\* The file of a day without lines starts where the next one does.
LEMMA EmptyFile ==
  ASSUME NEW from \in [1..(MaxDay + 1) -> Nat], Chain(from), NEW d \in Days, files[d] = <<>>
  PROVE  from[d] = from[d + 1]
<1>1. from[d] \in Nat /\ from[d + 1] \in Nat /\ from[d] <= from[d + 1]
  BY EventLogAssumption DEF Chain, Days
<1>2. PICK n \in Nat : n = from[d + 1] - from[d]
  BY <1>1
<1>3. files[d] = Run(from[d], n)
  BY <1>2 DEF Chain
<1>4. Len(Run(from[d], n)) = n
  BY <1>1, RunTyped
<1>5. n = 0
  BY <1>3, <1>4
<1> QED
  BY <1>1, <1>2, <1>5

\* The runs an append adds.
LEMMA ShortRuns ==
  ASSUME NEW a \in Nat
  PROVE  Run(a, 1) = <<Whole(a)>> /\ Run(a, 2) = <<Whole(a), Whole(a + 1)>>
<1>1. ASSUME NEW b \in Nat PROVE Run(b, 1) = <<Whole(b)>>
  <2>1. \A i \in 1..1 : b + i - 1 = b
    OBVIOUS
  <2> QED
    BY <2>1 DEF Run
<1>2. a + 1 \in Nat /\ 1 \in Nat /\ 1 + 1 = 2
  OBVIOUS
<1>3. Run(a, 1) \o Run(a + 1, 1) = Run(a, 2)
  <2>1. Run(a, 1) \o Run(a + 1, 1) = Run(a, 1 + 1)
    BY <1>2, RunCat
  <2> QED
    BY <1>2, <2>1, Zenon
<1>4. <<Whole(a)>> \o <<Whole(a + 1)>> = <<Whole(a), Whole(a + 1)>>
  <2>1. Whole(a) \in Line /\ Whole(a + 1) \in Line
    BY <1>2 DEF Whole, Line
  <2> QED
    BY <2>1, TwoInARow
<1>5. Run(a, 1) = <<Whole(a)>> /\ Run(a + 1, 1) = <<Whole(a + 1)>>
  BY <1>1, <1>2
<1> QED
  BY <1>3, <1>4, <1>5, Zenon

\* The files go on continuing one another, up to the counter.
LEMMA AppendKeepsChain ==
  ASSUME LogInv, NEW d \in Days, NEW due \in BOOLEAN, Appending(d, due)
  PROVE  FilesChained' /\ CounterExact'
<1> SUFFICES ASSUME struck' \subseteq {"prune"}
             PROVE  /\ \E from \in [1..(MaxDay + 1) -> 1..(Len(issued') + 1)] : Chain(from)'
                    /\ next_seq' = Len(issued') + 1 /\ marker' <= Len(issued') + 1
                    /\ Vouched(Len(issued))'
                    /\ lost' > 0 => lost' < Len(issued')
  BY Zenon DEF FilesChained, CounterExact, Only
<1>0. /\ TypeOK /\ LinesIntact /\ DaysInOrder /\ proc # "down" /\ Write(d, due)
      /\ next_seq \in Nat /\ lost \in Nat /\ marker \in Nat /\ cur \in Days /\ MaxDay \in Nat /\ Days = 1..MaxDay
  BY EventLogAssumption DEF LogInv, Appending, TypeOK, Days
<1>1. struck \subseteq {"prune"} /\ cur <= d /\ "midnight" \notin struck /\ "midnight" \notin struck'
      /\ "power" \notin struck'
  BY DEF Appending
<1> DEFINE N == Len(issued)
<1>2. next_seq = N + 1 /\ marker <= N + 1 /\ (lost > 0 => lost < N)
  BY <1>0, <1>1 DEF LogInv, CounterExact, Only
<1>a. /\ N \in Nat /\ Len(issued') = N + (LastAdded(d) - next_seq) + 1
      /\ LastAdded(d) \in {next_seq, next_seq + 1}
  <2>1. TypeOK /\ Write(d, due)
    BY <1>0
  <2> QED
    BY <2>1, AppendIssues
<1> HIDE DEF N
<1>b. N + (LastAdded(d) - next_seq) + 1 \in Nat
  BY <1>0, <1>a
<1>c. PICK M \in Nat : M = Len(issued')
  BY <1>a, <1>b
<1>3. N \in Nat /\ M = N + (LastAdded(d) - next_seq) + 1 /\ LastAdded(d) \in {next_seq, next_seq + 1}
  BY <1>a, <1>c
<1>4. M \in Nat /\ LastAdded(d) = M /\ N < M
  BY <1>2, <1>3
<1>5. PICK sync \in BOOLEAN :
         /\ marker' = IF sync THEN LastAdded(d) + 1 ELSE IF d # cur THEN next_seq ELSE marker
         /\ next_seq' = LastAdded(d) + 1
  <2>1. TypeOK /\ Write(d, due)
    BY <1>0
  <2> QED
    BY <2>1, WriteEffect
<1>6. next_seq' = M + 1 /\ marker' <= M + 1 /\ lost' = lost /\ (lost' > 0 => lost' < M)
  <2>1. lost' = lost
    BY DEF Appending
  <2>2. marker' \in {LastAdded(d) + 1, next_seq, marker}
    BY <1>5
  <2>3. next_seq' = M + 1
    BY <1>4, <1>5
  <2>4. marker' <= M + 1
    <3>1. N \in Nat /\ M \in Nat /\ N < M /\ LastAdded(d) = M /\ next_seq = N + 1 /\ marker \in Nat /\ marker <= N + 1
      BY <1>0, <1>2, <1>3, <1>4
    <3> QED
      BY <2>2, <3>1
  <2>5. lost' > 0 => lost' < M
    BY <1>0, <1>2, <1>3, <1>4, <2>1
  <2> QED
    BY <2>1, <2>3, <2>4, <2>5
<1>7. Vouched(Len(issued))'
  <2>1. M <= LastAdded(d)
    BY <1>4
  <2>2. Vouched(M)'
    BY <1>1, <2>1, AppendVouches
  <2> QED
    BY <1>c, <2>2 DEF Vouched
<1>8. /\ buf = <<>> /\ files'[d] = files[d] \o Added(d)
      /\ \A e \in Days \ {d} : files'[e] = files[e]
  <2>1. TypeOK /\ LinesIntact /\ proc # "down" /\ Write(d, due)
    BY <1>0
  <2> QED
    BY <1>1, <2>1, Written
<1>9. Added(d) = Run(N + 1, M - N)
  <2>1. CASE d = cur
    <3>1. Added(d) = <<Whole(next_seq)>>
      BY <1>8, <2>1 DEF Added
    <3>2. M - N = 1
      BY <1>2, <1>3, <1>4, <2>1 DEF LastAdded
    <3>3. Run(N + 1, 1) = <<Whole(N + 1)>>
      BY <1>3, ShortRuns
    <3> QED
      BY <1>2, <3>1, <3>2, <3>3
  <2>2. CASE d # cur
    <3>1. Added(d) = <<Whole(next_seq), Whole(next_seq + 1)>>
      BY <2>2 DEF Added
    <3>2. M - N = 2
      BY <1>2, <1>3, <1>4, <2>2 DEF LastAdded
    <3>3. Run(N + 1, 2) = <<Whole(N + 1), Whole((N + 1) + 1)>>
      BY <1>3, ShortRuns
    <3> QED
      BY <1>2, <3>1, <3>2, <3>3
  <2> QED
    BY <2>1, <2>2
<1>10. PICK from \in [1..(MaxDay + 1) -> 1..(N + 1)] : Chain(from)
  BY <1>1 DEF LogInv, FilesChained, Only, N
<1>11. from \in [1..(MaxDay + 1) -> Nat] /\ from[1] = lost + 1 /\ from[MaxDay + 1] = N + 1
       /\ \A e \in Days : /\ from[e] <= from[e + 1] /\ files[e] = Run(from[e], from[e + 1] - from[e])
                          /\ from[e] \in Nat /\ from[e + 1] \in Nat
  <2>1. 1..(N + 1) \subseteq Nat
    BY <1>3
  <2>2. from \in [1..(MaxDay + 1) -> Nat]
    BY <2>1
  <2> QED
    BY <1>0, <2>2, <1>10, SMTT(20) DEF Chain, N
<1>12. ASSUME NEW e \in 1..(MaxDay + 1), e > cur PROVE from[e] = N + 1
  <2>1. \A p \in e..((MaxDay + 1) - 1) : from[p] = from[p + 1]
    <3>1. ASSUME NEW p \in e..((MaxDay + 1) - 1) PROVE from[p] = from[p + 1]
      <4>1. p \in Days /\ p > cur
        BY <1>0, <1>12
      <4>2. files[p] = <<>>
        BY <1>0, <1>1, <4>1 DEF DaysInOrder
      <4> QED
        BY <1>10, <1>11, <4>1, <4>2, EmptyFile
    <3> QED
      BY <3>1
  <2>2. MaxDay + 1 \in 1..(MaxDay + 1) /\ e <= MaxDay + 1
    BY <1>0
  <2>3. from[e] = from[MaxDay + 1]
    BY <1>11, <2>1, <2>2, Level
  <2> QED
    BY <1>11, <2>3
<1> DEFINE to == [e \in 1..(MaxDay + 1) |-> IF e <= d THEN from[e] ELSE M + 1]
<1>13. to \in [1..(MaxDay + 1) -> 1..(M + 1)]
  <2>1. ASSUME NEW e \in 1..(MaxDay + 1) PROVE (IF e <= d THEN from[e] ELSE M + 1) \in 1..(M + 1)
    <3>1. from[e] \in 1..(N + 1)
      BY <1>10
    <3> QED
      BY <1>3, <1>4, <3>1
  <2> QED
    BY <2>1
<1>14. to[1] = lost' + 1 /\ to[MaxDay + 1] = M + 1
  BY <1>0, <1>6, <1>11
<1>15. ASSUME NEW e \in Days
       PROVE  to[e] <= to[e + 1] /\ files'[e] = Run(to[e], to[e + 1] - to[e])
  <2>0. e \in 1..(MaxDay + 1) /\ e + 1 \in 1..(MaxDay + 1) /\ d \in 1..(MaxDay + 1) /\ d + 1 \in 1..(MaxDay + 1)
    BY <1>0
  <2>1. CASE e < d
    <3>1. to[e] = from[e] /\ to[e + 1] = from[e + 1] /\ e # d
      BY <1>0, <2>0, <2>1
    <3> QED
      BY <1>8, <1>11, <3>1
  <2>2. CASE e = d
    <3>1. to[e] = from[d] /\ to[e + 1] = M + 1
      BY <1>0, <2>0, <2>2
    <3>2. from[d + 1] = N + 1
      BY <1>0, <1>1, <1>12, <2>0
    <3>3. from[d] \in Nat /\ from[d] <= N + 1 /\ files[d] = Run(from[d], (N + 1) - from[d])
      BY <1>11, <3>2
    <3> DEFINE a == from[d]
    <3> HIDE DEF a
    <3>4. a \in Nat /\ (N + 1) - a \in Nat /\ M - N \in Nat /\ a + ((N + 1) - a) = N + 1
          /\ ((N + 1) - a) + (M - N) = (M + 1) - a /\ a <= M + 1
      <4>1. a \in Nat /\ a <= N + 1
        BY <3>3 DEF a
      <4>2. N \in Nat /\ M \in Nat /\ N < M
        BY <1>3, <1>4
      <4> QED
        BY <4>1, <4>2
    <3>5. Run(a, (N + 1) - a) \o Run(a + ((N + 1) - a), M - N) = Run(a, ((N + 1) - a) + (M - N))
      BY <3>4, RunCat
    <3>6. files'[d] = Run(a, (M + 1) - a)
      BY <1>8, <1>9, <3>3, <3>4, <3>5, Zenon DEF a
    <3> QED
      BY <2>2, <3>1, <3>4, <3>6 DEF a
  <2>3. CASE e > d
    <3>1. to[e] = M + 1 /\ to[e + 1] = M + 1 /\ e # d
      BY <1>0, <2>0, <2>3
    <3>2. files'[e] = <<>>
      <4>1. files[e] = <<>>
        BY <1>0, <1>1, <2>3 DEF DaysInOrder
      <4> QED
        BY <1>8, <3>1, <4>1
    <3>3. Run(M + 1, 0) = <<>>
      BY DEF Run
    <3>4. (M + 1) - (M + 1) = 0 /\ M + 1 <= M + 1
      BY <1>4
    <3> QED
      BY <3>1, <3>2, <3>3, <3>4, Zenon
  <2> QED
    BY <1>0, <2>1, <2>2, <2>3
<1> HIDE DEF to
<1>16. Chain(to)'
  BY <1>c, <1>14, <1>15 DEF Chain
<1> QED
  BY <1>c, <1>6, <1>7, <1>13, <1>16

-----------------------------------------------------------------------------
(***************************************************************************)
(* The invariant, action by action.                                         *)
(***************************************************************************)
LEMMA LogInitInv == Init => LogInv
<1> SUFFICES ASSUME Init PROVE LogInv
  OBVIOUS
<1>0. MaxDay \in Nat \ {0} /\ SyncEvery \in Nat \ {0} /\ MaxDay + 1 \in 1..(MaxDay + 1) /\ Days = 1..MaxDay
  BY EventLogAssumption DEF Days
<1>1. Len(<<>>) = 0 /\ DOMAIN <<>> = {} /\ \A S : <<>> \in Seq(S)
  OBVIOUS
<1>2. TypeOK
  BY <1>0, <1>1 DEF Init, TypeOK
<1>3. DaysInOrder
  BY <1>0 DEF Init, DaysInOrder
<1>4. LinesIntact
  BY <1>1 DEF Init, LinesIntact
<1>5. NumbersFresh /\ MarkerNeverAhead /\ CounterBacked /\ LoggedOnDisk
  BY <1>1 DEF Init, NumbersFresh, MarkerNeverAhead, CounterBacked, LoggedOnDisk, FIRST_SEQ
<1>6. FilesChained
  <2> DEFINE from == [e \in 1..(MaxDay + 1) |-> 1]
  <2>1. from \in [1..(MaxDay + 1) -> 1..(Len(issued) + 1)]
    BY <1>1 DEF Init
  <2>2. from[1] = lost + 1 /\ from[MaxDay + 1] = Len(issued) + 1
    BY <1>0, <1>1 DEF Init
  <2>3. ASSUME NEW d \in Days PROVE from[d] <= from[d + 1] /\ files[d] = Run(from[d], from[d + 1] - from[d])
    <3>1. from[d] = 1 /\ from[d + 1] = 1 /\ 1 - 1 = 0
      BY <1>0
    <3>2. Run(1, 0) = <<>> /\ files[d] = <<>>
      BY DEF Run, Init
    <3> QED
      BY <3>1, <3>2
  <2> HIDE DEF from
  <2>4. Chain(from)
    BY <2>2, <2>3 DEF Chain
  <2> QED
    BY <2>1, <2>4 DEF FilesChained
<1>7. CounterExact
  BY <1>1 DEF Init, CounterExact
<1> QED
  BY <1>2, <1>3, <1>4, <1>5, <1>6, <1>7 DEF LogInv

\* The clock, a stamp: nothing the log has written changes.
LEMMA ClockStep ==
  ASSUME LogInv, Midnight \/ \E a \in Appenders : Stamp(a)
  PROVE  LogInv'
<1>0. /\ UNCHANGED <<files, present, synced, marker, next_seq, cur, buf, unsynced, proc, issued, lost, logged, struck>>
      /\ day' \in Days /\ day <= day' /\ stamp' \in [Appenders -> 0..MaxDay]
      /\ \A a \in Appenders : stamp'[a] <= day'
  <2>1. /\ day \in Days /\ stamp \in [Appenders -> 0..MaxDay] /\ MaxDay \in Nat /\ Days = 1..MaxDay
        /\ \A a \in Appenders : stamp[a] <= day
    BY EventLogAssumption DEF LogInv, TypeOK, DaysInOrder, Days
  <2>2. CASE Midnight
    BY <2>1, <2>2 DEF Midnight, storage, inner
  <2>3. ASSUME NEW a \in Appenders, Stamp(a)
        PROVE  /\ UNCHANGED <<files, present, synced, marker, next_seq, cur, buf, unsynced, proc, issued, lost, logged, struck>>
               /\ day' \in Days /\ day <= day' /\ stamp' \in [Appenders -> 0..MaxDay]
               /\ \A b \in Appenders : stamp'[b] <= day'
    BY <2>1, <2>3 DEF Stamp, storage, inner
  <2> QED
    BY <2>2, <2>3
<1>1. TypeOK'
  BY <1>0 DEF LogInv, TypeOK
<1>2. DaysInOrder'
  <2>1. day \in Nat /\ day' \in Nat /\ cur \in Nat /\ present \subseteq Nat
    BY <1>0 DEF LogInv, TypeOK, Days
  <2> QED
    BY <1>0, <2>1 DEF LogInv, DaysInOrder
<1>3. LinesIntact'
  BY <1>0 DEF LogInv, LinesIntact
<1>4. NumbersFresh'
  BY <1>0 DEF LogInv, NumbersFresh, Only, Vouched
<1>5. MarkerNeverAhead' /\ CounterBacked'
  BY <1>0 DEF LogInv, MarkerNeverAhead, CounterBacked, Only, Backed
<1>6. LoggedOnDisk'
  BY <1>0 DEF LogInv, LoggedOnDisk
<1>7. FilesChained' /\ CounterExact'
  BY <1>0 DEF LogInv, FilesChained, CounterExact, Only, Chain, Vouched
<1> QED
  BY <1>1, <1>2, <1>3, <1>4, <1>5, <1>6, <1>7 DEF LogInv

\* The process dies.
LEMMA KillStep ==
  ASSUME LogInv, Kill
  PROVE  LogInv'
<1>0. /\ UNCHANGED <<day, files, present, synced, marker, next_seq, cur, buf, unsynced, issued, lost, logged>>
      /\ proc # "down" /\ proc' = "down" /\ stamp' = [a \in Appenders |-> 0]
      /\ struck' = IF proc = "opening" THEN struck \cup {"kill_opening"} ELSE struck
  BY DEF Kill, Down, Strike, storage, inner
<1>1. TypeOK'
  <2>1. stamp' \in [Appenders -> 0..MaxDay]
    BY <1>0, EventLogAssumption
  <2> QED
    BY <1>0, <2>1 DEF LogInv, TypeOK
<1>2. DaysInOrder'
  <2>1. \A a \in Appenders : stamp'[a] <= day'
    BY <1>0 DEF LogInv, TypeOK, Days
  <2> QED
    BY <1>0, <2>1 DEF LogInv, DaysInOrder
<1>3. LinesIntact'
  BY <1>0 DEF LogInv, LinesIntact
<1>4. NumbersFresh'
  BY <1>0 DEF LogInv, NumbersFresh, Only, Vouched
<1>5. MarkerNeverAhead' /\ CounterBacked'
  BY <1>0 DEF LogInv, MarkerNeverAhead, CounterBacked, Only, Backed
<1>6. LoggedOnDisk'
  BY <1>0 DEF LogInv, LoggedOnDisk
<1>7. FilesChained' /\ CounterExact'
  BY <1>0 DEF LogInv, FilesChained, CounterExact, Only, Chain, Vouched
<1> QED
  BY <1>1, <1>2, <1>3, <1>4, <1>5, <1>6, <1>7 DEF LogInv

\* Inside rotate: the old file and the marker are synced, the new file is empty.
LEMMA KillRotatingStep ==
  ASSUME LogInv, NEW a \in Appenders, KillRotating(a)
  PROVE  LogInv'
<1>0. /\ UNCHANGED <<day, files, next_seq, cur, buf, unsynced, issued, lost, logged, struck>>
      /\ proc = "up" /\ proc' = "down" /\ stamp' = [b \in Appenders |-> 0]
      /\ synced' = [synced EXCEPT ![cur] = Len(files[cur])] /\ marker' = next_seq
      /\ present' = present \cup {stamp[a]} /\ stamp[a] # 0
  BY DEF KillRotating, Down, inner
<1>1. /\ TypeOK /\ DaysInOrder /\ Days = 1..MaxDay /\ MaxDay \in Nat /\ cur \in Days /\ next_seq \in Nat
      /\ files \in [Days -> Seq(Line)] /\ synced \in [Days -> Nat] /\ stamp[a] \in Days /\ stamp[a] <= day
      /\ \A e \in Days : synced[e] <= Len(files[e]) /\ Len(files[e]) \in Nat
      /\ cur \in present
  <2>1. TypeOK /\ DaysInOrder /\ Days = 1..MaxDay /\ MaxDay \in Nat
    BY EventLogAssumption DEF LogInv, Days
  <2>2. stamp[a] \in Days /\ stamp[a] <= day
    BY <1>0, <2>1 DEF TypeOK, DaysInOrder
  <2>3. \A e \in Days : Len(files[e]) \in Nat
    BY <2>1, LenProperties DEF TypeOK
  <2> QED
    BY <1>0, <2>1, <2>2, <2>3 DEF TypeOK, DaysInOrder
<1>2. /\ synced' \in [Days -> Nat] /\ synced'[cur] = Len(files[cur])
      /\ \A e \in Days : synced[e] <= synced'[e] /\ synced'[e] <= Len(files'[e])
  BY <1>0, <1>1
<1>3. TypeOK'
  <2>1. stamp' \in [Appenders -> 0..MaxDay] /\ present' \subseteq Days
    <3>1. stamp' \in [Appenders -> 0..MaxDay]
      BY <1>0, <1>1
    <3>2. present \subseteq Days
      BY <1>1 DEF TypeOK
    <3> QED
      BY <1>0, <1>1, <3>1, <3>2
  <2> QED
    BY <1>0, <1>1, <1>2, <2>1 DEF TypeOK
<1>4. DaysInOrder'
  <2>1. \A b \in Appenders : stamp'[b] <= day'
    BY <1>0, <1>1 DEF TypeOK
  <2> QED
    BY <1>0, <1>1, <2>1 DEF DaysInOrder
<1>5. LinesIntact'
  BY <1>0 DEF LogInv, LinesIntact
<1>6. NumbersFresh'
  BY <1>0 DEF LogInv, NumbersFresh, Only, Vouched
<1>7. MarkerNeverAhead'
  <2> SUFFICES ASSUME struck \subseteq {"kill_opening", "power", "disk"}, next_seq > FIRST_SEQ
               PROVE  \E e \in present' : \E i \in 1..synced'[e] : files[e][i].seq >= next_seq - 1
    BY <1>0 DEF MarkerNeverAhead, Only
  <2>1. Backed(next_seq - 1) \/ \E i \in DOMAIN files[cur] : files[cur][i].seq >= next_seq - 1
    BY <1>0 DEF LogInv, CounterBacked, Only
  <2>2. CASE Backed(next_seq - 1)
    <3>1. PICK e \in present : \E i \in 1..synced[e] : files[e][i].seq >= next_seq - 1
      BY <2>2 DEF Backed
    <3>2. e \in Days /\ e \in present' /\ 1..synced[e] \subseteq 1..synced'[e]
      BY <1>0, <1>1, <1>2 DEF TypeOK
    <3> QED
      BY <3>1, <3>2
  <2>3. CASE \E i \in DOMAIN files[cur] : files[cur][i].seq >= next_seq - 1
    <3>1. DOMAIN files[cur] = 1..synced'[cur] /\ cur \in present'
      BY <1>0, <1>1, <1>2
    <3> QED
      BY <2>3, <3>1
  <2> QED
    BY <2>1, <2>2, <2>3
<1>8. CounterBacked'
  BY <1>0 DEF CounterBacked
<1>9. LoggedOnDisk'
  BY <1>0 DEF LogInv, LoggedOnDisk
<1>10. FilesChained'
  BY <1>0 DEF LogInv, FilesChained, Only, Chain
<1>11. CounterExact'
  <2> SUFFICES ASSUME struck \subseteq {"prune"}
               PROVE  /\ marker' <= Len(issued) + 1 /\ Len(issued) < marker'
                      /\ lost > 0 => lost < Len(issued)
    BY <1>0 DEF CounterExact, Only, Vouched
  <2>1. next_seq = Len(issued) + 1 /\ (lost > 0 => lost < Len(issued)) /\ Len(issued) \in Nat
    BY <1>0, <1>1 DEF LogInv, CounterExact, Only, TypeOK
  <2> QED
    BY <1>0, <2>1
<1> QED
  BY <1>3, <1>4, <1>5, <1>6, <1>7, <1>8, <1>9, <1>10, <1>11 DEF LogInv

\* A flush fails: the line stays in the buffer.
LEMMA AppendFailsStep ==
  ASSUME LogInv, NEW a \in Appenders, AppendFails(a)
  PROVE  LogInv'
<1>0. /\ UNCHANGED <<day, files, present, synced, marker, proc, next_seq, cur, unsynced, issued, lost, logged>>
      /\ proc = "up" /\ buf = <<>> /\ buf' = Append(buf, Whole(next_seq))
      /\ stamp' = [stamp EXCEPT ![a] = 0] /\ struck' = struck \cup {"disk"}
  BY DEF AppendFails, Strike, storage
<1>1. buf' = <<Whole(next_seq)>> /\ buf' \in Seq(Line)
  <2>1. Whole(next_seq) \in Line
    BY DEF LogInv, TypeOK, Whole, Line
  <2>2. Append(<<>>, Whole(next_seq)) = <<Whole(next_seq)>>
    OBVIOUS
  <2> QED
    BY <1>0, <2>1, <2>2
<1>2. stamp' \in [Appenders -> 0..MaxDay] /\ \A b \in Appenders : stamp'[b] <= day'
  BY <1>0, EventLogAssumption DEF LogInv, TypeOK, DaysInOrder, Days
<1>3. TypeOK'
  BY <1>0, <1>1, <1>2 DEF LogInv, TypeOK
<1>4. DaysInOrder'
  BY <1>0, <1>2 DEF LogInv, DaysInOrder
<1>5. LinesIntact'
  BY <1>0, <1>1 DEF LogInv, LinesIntact
<1>6. NumbersFresh'
  BY <1>0 DEF LogInv, NumbersFresh, Only, Vouched
<1>7. MarkerNeverAhead' /\ CounterBacked'
  BY <1>0 DEF LogInv, MarkerNeverAhead, CounterBacked, Only, Backed
<1>8. LoggedOnDisk'
  BY <1>0 DEF LogInv, LoggedOnDisk
<1>9. FilesChained' /\ CounterExact'
  BY <1>0 DEF FilesChained, CounterExact, Only
<1> QED
  BY <1>3, <1>4, <1>5, <1>6, <1>7, <1>8, <1>9 DEF LogInv

\* A start: the counter is recovered.
LEMMA OpenStep ==
  ASSUME LogInv, OpenLog
  PROVE  LogInv'
<1>0. /\ UNCHANGED <<day, files, synced, marker, stamp, issued, lost, struck>>
      /\ proc = "down" /\ proc' = IF from_files > marker THEN "opening" ELSE "up"
      /\ next_seq' = recover_next_seq /\ cur' = day /\ present' = present \cup {day}
      /\ buf' = <<>> /\ unsynced' = 0 /\ logged' = {}
  BY DEF OpenLog
<1>1. /\ TypeOK /\ DaysInOrder /\ Days = 1..MaxDay /\ MaxDay \in Nat /\ day \in Days /\ marker \in Nat
      /\ present \subseteq Days
  BY EventLogAssumption DEF LogInv, Days, TypeOK
<1> DEFINE next == recover_next_seq
           ff == from_files
<1>2. /\ next \in Nat /\ ff \in Nat
      /\ marker <= next /\ FIRST_SEQ <= next /\ ff <= next /\ next \in {marker, ff, FIRST_SEQ}
      /\ \A d \in present : (\A e \in present : e <= d) =>
            \A i \in DOMAIN files[d] : files[d][i].text = "whole" => files[d][i].seq + 1 <= ff
      /\ \/ ff = 0
         \/ \E d \in present : /\ \A e \in present : e <= d
                               /\ \E i \in DOMAIN files[d] : files[d][i].text = "whole" /\ ff = files[d][i].seq + 1
  BY <1>1, Recovery
<1>3. proc' = (IF ff > marker THEN "opening" ELSE "up") /\ next_seq' = next /\ proc' \in {"opening", "up"}
  BY <1>0
<1> HIDE DEF next, ff
<1>4. \A d \in Days : \A i \in DOMAIN files[d] : files[d][i].seq \in Nat
  <2>1. ASSUME NEW d \in Days, NEW i \in DOMAIN files[d] PROVE files[d][i].seq \in Nat
    <3>1. files[d] \in Seq(Line)
      BY <1>1 DEF TypeOK
    <3>2. files[d][i] \in Line
      BY <3>1
    <3> QED
      BY <3>2 DEF Line
  <2> QED
    BY <2>1
<1>5. ASSUME NEW n \in Nat, Vouched(n) PROVE n < next /\ (ff <= marker => n < marker)
  <2>1. CASE n < marker
    BY <1>1, <1>2, <2>1
  <2>2. CASE ~(n < marker)
    <3>1. PICK d \in present : /\ \A e \in present : e <= d
                               /\ \E i \in DOMAIN files[d] : files[d][i].text = "whole" /\ n <= files[d][i].seq
      BY <1>5, <2>2 DEF Vouched
    <3>2. PICK i \in DOMAIN files[d] : files[d][i].text = "whole" /\ n <= files[d][i].seq
      BY <3>1
    <3>3. files[d][i].seq + 1 <= ff
      BY <1>2, <3>1, <3>2
    <3>4. files[d][i].seq \in Nat
      BY <1>1, <1>4
    <3> QED
      BY <1>1, <1>2, <3>2, <3>3, <3>4
  <2> QED
    BY <2>1, <2>2
<1>6. TypeOK'
  <2>1. /\ next_seq' \in Nat /\ cur' \in Days /\ present' \subseteq Days /\ buf' \in Seq(Line) /\ logged' \subseteq Nat
        /\ unsynced' \in 0..(SyncEvery - 1) /\ proc' \in {"down", "opening", "up"}
    BY <1>0, <1>1, <1>2, <1>3, EventLogAssumption
  <2> QED
    BY <1>0, <1>1, <2>1 DEF TypeOK
<1>7. DaysInOrder'
  <2>1. \A d \in present' : d <= cur'
    <3>1. day \in Nat /\ \A d \in present : d <= day
      BY <1>1 DEF DaysInOrder
    <3> QED
      BY <1>0, <3>1
  <2>2. ASSUME NEW d \in Days, d > cur' PROVE files'[d] = <<>>
    <3>1. d \notin present
      BY <1>0, <1>1, <2>1, <2>2
    <3> QED
      BY <1>0, <1>1, <3>1 DEF DaysInOrder
  <2>3. cur' <= day'
    BY <1>0, <1>1
  <2> QED
    BY <1>0, <1>1, <2>1, <2>2, <2>3 DEF DaysInOrder
<1>8. LinesIntact'
  BY <1>0, <1>2, <1>3 DEF LogInv, LinesIntact
<1>9. NumbersFresh'
  <2> SUFFICES ASSUME struck \subseteq {"prune", "prune_all", "disk"}
               PROVE  /\ \A i, j \in DOMAIN issued : i < j => issued[i] < issued[j]
                      /\ \A i \in DOMAIN issued : issued[i] < next
                      /\ proc' # "opening" => \A i \in DOMAIN issued : Vouched(issued[i])'
    BY <1>0, <1>3 DEF NumbersFresh, Only
  <2>1. /\ \A i, j \in DOMAIN issued : i < j => issued[i] < issued[j]
        /\ \A i \in DOMAIN issued : Vouched(issued[i])
    BY <1>0 DEF LogInv, NumbersFresh, Only
  <2>2. \A i \in DOMAIN issued : issued[i] \in Nat
    BY <1>1 DEF TypeOK
  <2>3. \A i \in DOMAIN issued : issued[i] < next /\ (ff <= marker => issued[i] < marker)
    BY <1>5, <2>1, <2>2
  <2>4. proc' # "opening" => ff <= marker
    BY <1>1, <1>2, <1>3
  <2>5. \A i \in DOMAIN issued : issued[i] < marker => Vouched(issued[i])'
    BY <1>0 DEF Vouched
  <2> QED
    BY <2>1, <2>3, <2>4, <2>5
<1>10. MarkerNeverAhead'
  BY <1>0 DEF LogInv, MarkerNeverAhead, Only
<1>11. CounterBacked'
  <2> SUFFICES ASSUME struck \subseteq {"kill_opening", "power", "disk"}, proc' = "up", next > FIRST_SEQ
               PROVE  Backed(next_seq - 1)'
    BY <1>0, <1>3 DEF CounterBacked, Only
  <2>1. ff <= marker
    BY <1>1, <1>2, <1>3
  <2>2. next = marker
    BY <1>1, <1>2, <2>1
  <2>3. \E d \in present : \E i \in 1..synced[d] : files[d][i].seq >= marker - 1
    BY <2>2 DEF LogInv, MarkerNeverAhead, Only
  <2> QED
    BY <1>0, <1>3, <2>2, <2>3 DEF Backed
<1>12. LoggedOnDisk'
  BY <1>0 DEF LoggedOnDisk
<1>13. FilesChained'
  BY <1>0 DEF LogInv, FilesChained, Only, Chain
<1>14. CounterExact'
  <2> DEFINE N == Len(issued)
  <2> SUFFICES ASSUME struck \subseteq {"prune"}
               PROVE  /\ next = N + 1 /\ marker <= N + 1 /\ (lost > 0 => lost < N)
                      /\ proc' # "opening" => N = 0 \/ Vouched(Len(issued))'
    BY <1>0, <1>3 DEF CounterExact, Only
  <2>1. marker <= N + 1 /\ (lost > 0 => lost < N) /\ (N = 0 \/ Vouched(N)) /\ N \in Nat
    BY <1>0, <1>1 DEF LogInv, CounterExact, Only, TypeOK
  <2>2. PICK from \in [1..(MaxDay + 1) -> 1..(N + 1)] : Chain(from)
    BY DEF LogInv, FilesChained, Only
  <2> HIDE DEF N
  <2>3. from \in [1..(MaxDay + 1) -> Nat] /\ from[MaxDay + 1] = N + 1
        /\ \A d \in Days : /\ from[d] <= from[d + 1] /\ files[d] = Run(from[d], from[d + 1] - from[d])
                           /\ from[d] \in Nat /\ from[d + 1] \in Nat
    <3>1. from \in [1..(MaxDay + 1) -> Nat]
      BY <2>1
    <3> QED
      BY <1>1, <2>2, <3>1 DEF Chain, N
  <2>4. ASSUME NEW d \in Days, NEW i \in DOMAIN files[d] PROVE files[d][i].seq <= N
    <3> DEFINE a == from[d]
               b == from[d + 1]
    <3>1. a \in Nat /\ b \in Nat /\ a <= b /\ files[d] = Run(a, b - a)
      BY <2>3
    <3>2. b <= N + 1
      <4>1. d + 1 \in 1..(MaxDay + 1) /\ MaxDay + 1 \in 1..(MaxDay + 1) /\ d + 1 <= MaxDay + 1
        BY <1>1
      <4>2. from[d + 1] <= from[MaxDay + 1]
        BY <2>3, <4>1, Rising
      <4> QED
        BY <2>3, <4>2
    <3> HIDE DEF a, b
    <3>3. PICK n \in Nat : n = b - a
      BY <3>1
    <3>4. DOMAIN Run(a, n) = 1..n /\ \A k \in 1..n : Run(a, n)[k].seq = a + k - 1
      <4>1. a \in Nat
        BY <3>1
      <4> HIDE <3>1, <3>2, <3>3
      <4> QED
        BY <4>1, RunTyped, ZenonT(30)
    <3>5. i \in 1..(b - a) /\ files[d][i].seq = a + i - 1
      BY <2>4, <3>1, <3>3, <3>4
    <3> QED
      BY <2>1, <3>1, <3>2, <3>5
  <2>5. ff <= N + 1
    <3>1. CASE ff = 0
      BY <2>1, <3>1
    <3>2. CASE ff # 0
      <4>1. PICK d \in present : \E i \in DOMAIN files[d] : ff = files[d][i].seq + 1
        BY <1>2, <3>2
      <4>2. PICK i \in DOMAIN files[d] : ff = files[d][i].seq + 1
        BY <4>1
      <4>3. files[d][i].seq <= N /\ files[d][i].seq \in Nat
        BY <1>1, <1>4, <2>4
      <4> QED
        BY <2>1, <4>2, <4>3
    <3> QED
      BY <3>1, <3>2
  <2>6. N < next \/ N = 0
    BY <1>5, <2>1
  <2>7. next = N + 1
    BY <1>1, <1>2, <2>1, <2>5, <2>6 DEF FIRST_SEQ
  <2>8. proc' # "opening" => N = 0 \/ N < marker
    BY <1>1, <1>2, <1>3, <1>5, <2>1
  <2>9. N < marker => Vouched(Len(issued))'
    BY <1>0 DEF Vouched, N
  <2> QED
    BY <2>1, <2>7, <2>8, <2>9 DEF N
<1> QED
  BY <1>6, <1>7, <1>8, <1>9, <1>10, <1>11, <1>12, <1>13, <1>14 DEF LogInv

\* A flush that succeeds: the buffer is written, the file and the marker are synced.
LEMMA SyncStep ==
  ASSUME LogInv, SyncLog
  PROVE  LogInv'
<1>0. /\ UNCHANGED <<day, present, proc, next_seq, cur, stamp, issued, lost, logged, struck>>
      /\ proc = "up" /\ files' = [files EXCEPT ![cur] = Extend(@, buf)]
      /\ synced' = [synced EXCEPT ![cur] = Len(files'[cur])]
      /\ marker' = next_seq /\ buf' = <<>> /\ unsynced' = 0
  BY DEF SyncLog
<1>1. /\ TypeOK /\ LinesIntact /\ DaysInOrder /\ files \in [Days -> Seq(Line)] /\ cur \in Days /\ next_seq \in Nat
      /\ synced \in [Days -> Nat] /\ \A e \in Days : synced[e] <= Len(files[e])
      /\ proc # "down" /\ cur \in present
  BY <1>0 DEF LogInv, TypeOK, DaysInOrder
<1>2. /\ buf = <<>> \/ (buf = <<Whole(next_seq)>> /\ "disk" \in struck)
      /\ buf \in Seq(Line) /\ (buf # <<>> => buf[1].seq = next_seq)
      /\ \A i \in DOMAIN buf : buf[i].text = "whole"
  BY <1>1, AddedLines
<1> DEFINE file == files[cur]
           ext == Extend(file, buf)
<1>3. files' = [files EXCEPT ![cur] = ext] /\ files'[cur] = ext /\ file \in Seq(Line)
  BY <1>0, <1>1
<1> HIDE DEF file
<1>4. /\ ext \in Seq(Line) /\ Len(file) <= Len(ext)
      /\ \A i \in 1..Len(file) : ext[i] = file[i] \/ (buf # <<>> /\ file[i].text = "torn" /\ ext[i].seq = buf[1].seq)
      /\ buf = <<>> => ext = file
      /\ (\A i \in DOMAIN file : file[i].text = "whole") => ext = file \o buf
  <2>1. /\ ext \in Seq(Line) /\ Len(file) <= Len(ext)
        /\ \A i \in 1..Len(file) :
              ext[i] = file[i] \/ (buf # <<>> /\ file[i].text = "torn" /\ ext[i].seq = buf[1].seq)
        /\ buf # <<>> => Len(ext) > 0 /\ ext[Len(ext)].seq = buf[Len(buf)].seq
        /\ buf = <<>> => ext = file
        /\ (\A i \in DOMAIN file : file[i].text = "whole") => ext = file \o buf
    <3>1. file \in Seq(Line) /\ buf \in Seq(Line)
      BY <1>2, <1>3
    <3> QED
      BY <3>1, Extending, ZenonT(30)
  <2> QED
    BY <2>1
<1> HIDE DEF ext
<1>5. /\ Len(file) \in Nat /\ Len(ext) \in Nat /\ DOMAIN file = 1..Len(file) /\ DOMAIN ext = 1..Len(ext)
      /\ Len(buf) \in Nat /\ DOMAIN buf = 1..Len(buf)
  BY <1>2, <1>3, <1>4, LenProperties
<1>6. /\ \A i \in 1..Len(file) : i \in 1..Len(ext) /\ (ext[i] = file[i] \/ (file[i].text = "torn" /\ ext[i].seq = next_seq))
      /\ \A e \in Days \ {cur} : files'[e] = files[e]
      /\ synced'[cur] = Len(ext) /\ \A e \in Days \ {cur} : synced'[e] = synced[e]
  BY <1>0, <1>1, <1>2, <1>3, <1>4, <1>5
<1>7. TypeOK'
  <2>1. files' \in [Days -> Seq(Line)]
    BY <1>1, <1>3, <1>4
  <2>2. synced' \in [Days -> Nat]
    BY <1>0, <1>1, <1>3, <1>5
  <2>3. \A e \in Days : synced'[e] <= Len(files'[e])
    BY <1>1, <1>3, <1>5, <1>6
  <2>4. unsynced' \in 0..(SyncEvery - 1) /\ buf' \in Seq(Line)
    BY <1>0, EventLogAssumption
  <2> QED
    BY <1>0, <1>1, <2>1, <2>2, <2>3, <2>4 DEF TypeOK
<1>8. DaysInOrder'
  <2>1. ASSUME NEW e \in Days, e \notin present PROVE files'[e] = <<>>
    BY <1>1, <1>6, <2>1 DEF DaysInOrder
  <2>2. ASSUME "midnight" \notin struck, NEW e \in Days, e > cur PROVE files'[e] = <<>>
    <3>1. e # cur
      BY <1>1, <2>2 DEF Days
    <3> QED
      BY <1>1, <1>6, <2>2, <3>1 DEF DaysInOrder
  <2> QED
    BY <1>0, <1>1, <2>1, <2>2 DEF DaysInOrder
<1>9. "power" \notin struck => \A i \in DOMAIN ext : ext[i].text = "whole"
  <2> HAVE "power" \notin struck
  <2>1. \A i \in DOMAIN file : file[i].text = "whole"
    BY <1>1 DEF LinesIntact, file
  <2>2. ext = file \o buf
    BY <1>4, <2>1
  <2>3. /\ file \o buf \in Seq(Line) /\ Len(file \o buf) = Len(file) + Len(buf)
        /\ \A i \in 1..(Len(file) + Len(buf)) :
              (file \o buf)[i] = IF i <= Len(file) THEN file[i] ELSE buf[i - Len(file)]
    BY <1>2, <1>3, ConcatProperties
  <2>4. ASSUME NEW i \in 1..(Len(file) + Len(buf)) PROVE (file \o buf)[i].text = "whole"
    <3>1. CASE i <= Len(file)
      BY <1>5, <2>1, <2>3, <3>1
    <3>2. CASE ~(i <= Len(file))
      <4>1. i - Len(file) \in 1..Len(buf)
        BY <1>5, <3>2
      <4> QED
        BY <1>2, <1>5, <2>3, <3>2, <4>1
    <3> QED
      BY <3>1, <3>2
  <2> QED
    BY <1>5, <2>2, <2>3, <2>4
<1>10. LinesIntact'
  <2>1. "power" \notin struck' => \A e \in Days : \A i \in DOMAIN files'[e] : files'[e][i].text = "whole"
    BY <1>0, <1>1, <1>3, <1>6, <1>9 DEF LinesIntact
  <2>2. marker' <= next_seq' /\ FIRST_SEQ <= next_seq'
    BY <1>0, <1>1 DEF LinesIntact
  <2> QED
    BY <1>0, <2>1, <2>2 DEF LinesIntact
<1>11. NumbersFresh'
  BY <1>0 DEF LogInv, NumbersFresh, Only, Vouched
<1>12. ASSUME struck \subseteq {"kill_opening", "power", "disk"}, next_seq > FIRST_SEQ
       PROVE  \E e \in present : \E i \in 1..synced'[e] : files'[e][i].seq >= next_seq - 1
  <2>1. Backed(next_seq - 1) \/ \E i \in DOMAIN files[cur] : files[cur][i].seq >= next_seq - 1
    BY <1>0, <1>12 DEF LogInv, CounterBacked, Only
  <2>2. ASSUME NEW i \in 1..Len(file), file[i].seq >= next_seq - 1
        PROVE  \E e \in present : \E k \in 1..synced'[e] : files'[e][k].seq >= next_seq - 1
    <3>1. i \in 1..synced'[cur]
      BY <1>6
    <3>2. ext[i].seq >= next_seq - 1
      <4>1. ext[i] = file[i] \/ ext[i].seq = next_seq
        BY <1>6
      <4>2. next_seq >= next_seq - 1
        BY <1>1
      <4> QED
        BY <2>2, <4>1, <4>2
    <3> QED
      BY <1>1, <1>3, <3>1, <3>2
  <2>3. CASE \E i \in DOMAIN files[cur] : files[cur][i].seq >= next_seq - 1
    BY <1>5, <2>2, <2>3 DEF file
  <2>4. CASE Backed(next_seq - 1)
    <3>1. PICK e \in present : \E i \in 1..synced[e] : files[e][i].seq >= next_seq - 1
      BY <2>4 DEF Backed
    <3>2. e \in Days
      BY <1>1 DEF TypeOK
    <3>3. CASE e = cur
      <4>1. 1..synced[cur] \subseteq 1..Len(file)
        BY <1>1, <1>5 DEF file
      <4> QED
        BY <2>2, <3>1, <3>3, <4>1 DEF file
    <3>4. CASE e # cur
      BY <1>6, <3>1, <3>2, <3>4
    <3> QED
      BY <3>3, <3>4
  <2> QED
    BY <2>1, <2>3, <2>4
<1>13. MarkerNeverAhead' /\ CounterBacked'
  BY <1>0, <1>12 DEF MarkerNeverAhead, CounterBacked, Only, Backed
<1>14. LoggedOnDisk'
  <2> SUFFICES ASSUME "power" \notin struck, NEW s \in logged
               PROVE  \E e \in Days : \E i \in DOMAIN files'[e] : files'[e][i].seq = s
    BY <1>0 DEF LoggedOnDisk
  <2>1. PICK e \in Days : \E i \in DOMAIN files[e] : files[e][i].seq = s
    BY DEF LogInv, LoggedOnDisk
  <2>2. PICK i \in DOMAIN files[e] : files[e][i].seq = s
    BY <2>1
  <2>3. CASE e # cur
    BY <1>6, <2>2, <2>3
  <2>4. CASE e = cur
    <3>1. i \in 1..Len(file) /\ file[i].seq = s /\ file[i].text = "whole"
      BY <1>1, <1>5, <2>2, <2>4 DEF LinesIntact, file
    <3>2. i \in DOMAIN ext /\ ext[i].seq = s
      BY <1>5, <1>6, <3>1
    <3> QED
      BY <1>1, <1>3, <3>2
  <2> QED
    BY <2>3, <2>4
<1>15. FilesChained' /\ CounterExact'
  <2>1. struck \subseteq {"prune"} => files' = files
    <3> HAVE struck \subseteq {"prune"}
    <3>1. buf = <<>>
      BY <1>2
    <3> QED
      BY <1>1, <1>3, <1>4, <3>1 DEF file
  <2>2. FilesChained'
    BY <1>0, <2>1 DEF LogInv, FilesChained, Only, Chain
  <2>3. CounterExact'
    <3> SUFFICES ASSUME struck \subseteq {"prune"}
                 PROVE  /\ next_seq = Len(issued) + 1 /\ Len(issued) < marker' /\ marker' <= Len(issued) + 1
                        /\ lost > 0 => lost < Len(issued)
      BY <1>0 DEF CounterExact, Only, Vouched
    <3>1. next_seq = Len(issued) + 1 /\ (lost > 0 => lost < Len(issued)) /\ Len(issued) \in Nat
      BY <1>0, <1>1 DEF LogInv, CounterExact, Only, TypeOK
    <3> QED
      BY <1>0, <3>1
  <2> QED
    BY <2>2, <2>3
<1> QED
  BY <1>7, <1>8, <1>10, <1>11, <1>13, <1>14, <1>15 DEF LogInv

\* The machine dies: a file keeps its durable lines.
LEMMA PowerLossStep ==
  ASSUME LogInv, PowerLoss
  PROVE  LogInv'
<1>0. /\ UNCHANGED <<day, present, next_seq, cur, buf, unsynced, issued, lost, logged>>
      /\ files' \in {f \in [Days -> UNION {Survivors(files[d], synced[d]) : d \in Days}] :
                       \A d \in Days : f[d] \in Survivors(files[d], synced[d])}
      /\ synced' = [d \in Days |-> Len(files'[d])]
      /\ marker' \in {0, marker} /\ struck' = struck \cup {"power"}
      /\ proc' = "down" /\ stamp' = [a \in Appenders |-> 0]
  BY DEF PowerLoss, Down, Strike, inner
<1>1. /\ TypeOK /\ DaysInOrder /\ files \in [Days -> Seq(Line)] /\ synced \in [Days -> Nat] /\ marker \in Nat
      /\ \A e \in Days : synced[e] <= Len(files[e])
  BY DEF LogInv, TypeOK
<1>2. ASSUME NEW d \in Days
      PROVE  /\ files'[d] \in Seq(Line) /\ synced[d] <= Len(files'[d])
             /\ \A i \in 1..synced[d] : files'[d][i] = files[d][i]
             /\ files[d] = <<>> => files'[d] = <<>>
  <2> DEFINE file == files[d]
             n == synced[d]
  <2>1. /\ file \in Seq(Line) /\ n \in Nat /\ n <= Len(file) /\ Len(file) \in Nat
        /\ \A i \in 1..Len(file) : file[i] \in Line
        /\ file = <<>> => Len(file) = 0
    BY <1>1
  <2>2. files'[d] \in Survivors(file, n)
    BY <1>0
  <2> HIDE DEF file, n
  <2>3. ASSUME NEW k \in n..Len(file)
        PROVE  /\ SubSeq(file, 1, k) \in Seq(Line) /\ Len(SubSeq(file, 1, k)) = k
               /\ \A i \in 1..k : SubSeq(file, 1, k)[i] = file[i]
    <3>1. 1 \in Int /\ k \in Int /\ k \in Nat /\ \A i \in 1..k : file[i] \in Line
      BY <2>1
    <3>2. /\ SubSeq(file, 1, k) \in Seq(Line)
          /\ Len(SubSeq(file, 1, k)) = IF 1 <= k THEN k - 1 + 1 ELSE 0
          /\ \A i \in 1..(k - 1 + 1) : SubSeq(file, 1, k)[i] = file[1 + i - 1]
      BY <3>1, SubSeqProperties
    <3>3. Len(SubSeq(file, 1, k)) = k
      BY <3>1, <3>2
    <3>4. \A i \in 1..k : SubSeq(file, 1, k)[i] = file[i]
      BY <3>1, <3>2
    <3> QED
      BY <3>2, <3>3, <3>4
  <2>4. CASE \E k \in n..Len(file) : files'[d] = SubSeq(file, 1, k)
    <3>1. PICK k \in n..Len(file) : files'[d] = SubSeq(file, 1, k)
      BY <2>4
    <3>2. files'[d] \in Seq(Line) /\ Len(files'[d]) = k /\ \A i \in 1..k : files'[d][i] = file[i]
      BY <2>3, <3>1
    <3>3. n <= Len(files'[d]) /\ \A i \in 1..n : files'[d][i] = file[i]
      BY <2>1, <3>2
    <3>4. file = <<>> => files'[d] = <<>>
      BY <2>1, <3>2
    <3> QED
      BY <3>2, <3>3, <3>4 DEF file, n
  <2>5. CASE \E k \in n..(Len(file) - 1) : files'[d] = Append(SubSeq(file, 1, k), [file[k + 1] EXCEPT !.text = "torn"])
    <3>1. PICK k \in n..(Len(file) - 1) : files'[d] = Append(SubSeq(file, 1, k), [file[k + 1] EXCEPT !.text = "torn"])
      BY <2>5
    <3> DEFINE s == SubSeq(file, 1, k)
               l == [file[k + 1] EXCEPT !.text = "torn"]
    <3>2. s \in Seq(Line) /\ Len(s) = k /\ \A i \in 1..k : s[i] = file[i]
      BY <2>1, <2>3
    <3>3. l \in Line
      <4>1. file[k + 1] \in Line
        BY <2>1
      <4> QED
        BY <4>1 DEF Line
    <3>4. files'[d] = Append(s, l)
      BY <3>1
    <3> HIDE DEF s, l
    <3>5. files'[d] \in Seq(Line) /\ Len(files'[d]) = k + 1 /\ \A i \in 1..k : files'[d][i] = s[i]
      BY <3>2, <3>3, <3>4
    <3>6. n <= Len(files'[d]) /\ \A i \in 1..n : files'[d][i] = file[i]
      BY <2>1, <3>2, <3>5
    <3>7. file # <<>>
      BY <2>1
    <3> QED
      BY <3>5, <3>6, <3>7 DEF file, n
  <2> QED
    BY <2>2, <2>4, <2>5 DEF Survivors
<1>3. files' \in [Days -> Seq(Line)]
  BY <1>0, <1>2
<1>4. TypeOK'
  <2>1. stamp' \in [Appenders -> 0..MaxDay]
    BY <1>0, EventLogAssumption
  <2>2. \A d \in Days : Len(files'[d]) \in Nat
    BY <1>2, LenProperties
  <2>3. synced' \in [Days -> Nat] /\ \A d \in Days : synced'[d] <= Len(files'[d])
    BY <1>0, <2>2
  <2>4. marker' \in Nat
    BY <1>0, <1>1
  <2> QED
    BY <1>0, <1>1, <1>3, <2>1, <2>3, <2>4 DEF TypeOK
<1>5. DaysInOrder'
  <2>1. \A a \in Appenders : stamp'[a] <= day'
    BY <1>0, <1>1 DEF TypeOK, Days
  <2>2. \A d \in Days : files[d] = <<>> => files'[d] = <<>>
    BY <1>2
  <2> QED
    BY <1>0, <1>1, <2>1, <2>2 DEF DaysInOrder
<1>6. LinesIntact'
  BY <1>0 DEF LinesIntact
<1>7. NumbersFresh' /\ CounterBacked' /\ LoggedOnDisk' /\ FilesChained' /\ CounterExact'
  BY <1>0 DEF NumbersFresh, CounterBacked, LoggedOnDisk, FilesChained, CounterExact, Only
<1>8. MarkerNeverAhead'
  <2> SUFFICES ASSUME struck' \subseteq {"kill_opening", "power", "disk"}, marker' > FIRST_SEQ
               PROVE  \E d \in present' : \E i \in 1..synced'[d] : files'[d][i].seq >= marker' - 1
    BY DEF MarkerNeverAhead, Only
  <2>0. marker' = marker /\ present' = present /\ struck \subseteq struck'
    BY <1>0 DEF FIRST_SEQ
  <2>1. PICK d \in present : \E i \in 1..synced[d] : files[d][i].seq >= marker - 1
    BY <2>0 DEF LogInv, MarkerNeverAhead, Only
  <2>2. PICK i \in 1..synced[d] : files[d][i].seq >= marker - 1
    BY <2>1
  <2>3. d \in Days
    BY <1>1 DEF TypeOK
  <2>4. synced'[d] = Len(files'[d]) /\ Len(files'[d]) \in Nat /\ synced[d] \in Nat
    BY <1>0, <1>1, <1>2, <2>3, LenProperties
  <2>5. i \in 1..synced'[d] /\ files'[d][i] = files[d][i]
    BY <1>2, <2>3, <2>4
  <2> QED
    BY <2>0, <2>2, <2>5
<1> QED
  BY <1>4, <1>5, <1>6, <1>7, <1>8 DEF LogInv

\* The oldest file is removed.
LEMMA PruneStep ==
  ASSUME LogInv, NEW d \in Days, Prune(d)
  PROVE  LogInv'
<1>0. /\ UNCHANGED <<day, marker, next_seq, cur, buf, unsynced, proc, stamp, issued>>
      /\ d \in present /\ d # cur /\ \A e \in present : d <= e
      /\ struck' = struck \cup {IF \A e \in present \ {d} : Parsed(files[e]) = <<>> THEN "prune_all" ELSE "prune"}
      /\ present' = present \ {d}
      /\ lost' = lost + Len(Parsed(files[d]))
      /\ files' = [files EXCEPT ![d] = <<>>]
      /\ synced' = [synced EXCEPT ![d] = 0]
      /\ logged' = logged \ {l.seq : l \in Range(files[d])}
  BY DEF Prune, Strike, inner
<1>1. /\ TypeOK /\ DaysInOrder /\ files \in [Days -> Seq(Line)] /\ synced \in [Days -> Nat] /\ MaxDay \in Nat
      /\ \A e \in Days : synced[e] <= Len(files[e])
      /\ Days = 1..MaxDay /\ present \subseteq Days /\ cur \in Days /\ lost \in Nat
  BY EventLogAssumption DEF LogInv, TypeOK, Days
<1>2. files'[d] = <<>> /\ synced'[d] = 0 /\ \A e \in Days \ {d} : files'[e] = files[e] /\ synced'[e] = synced[e]
  BY <1>0, <1>1
<1>3. cur \in present' /\ d < cur
  <2>1. cur \in present
    BY <1>0, <1>1 DEF DaysInOrder
  <2> QED
    BY <1>0, <1>1, <2>1
<1>4. TypeOK'
  <2>1. files' \in [Days -> Seq(Line)] /\ synced' \in [Days -> Nat]
    BY <1>0, <1>1
  <2>2. \A e \in Days : synced'[e] <= Len(files'[e])
    <3>1. Len(<<>>) = 0 /\ 0 <= 0
      OBVIOUS
    <3> QED
      BY <1>1, <1>2, <3>1
  <2>3. lost' \in Nat
    <3>1. Parsed(files[d]) \in Seq(Line)
      BY <1>1, ParsedHas
    <3>2. Len(Parsed(files[d])) \in Nat
      BY <3>1, LenProperties
    <3> QED
      BY <1>0, <1>1, <3>2
  <2>4. struck' \subseteq {"kill_opening", "power", "disk", "midnight", "prune", "prune_all"}
    BY <1>0, <1>1 DEF TypeOK
  <2> QED
    BY <1>0, <1>1, <2>1, <2>2, <2>3, <2>4 DEF TypeOK
<1>5. DaysInOrder'
  <2>1. \A e \in Days : e \notin present' => files'[e] = <<>>
    BY <1>0, <1>1, <1>2 DEF DaysInOrder
  <2>2. "midnight" \notin struck' => "midnight" \notin struck
    BY <1>0
  <2>3. "midnight" \notin struck' => \A e \in Days : e > cur => files'[e] = <<>>
    BY <1>1, <1>2, <2>2 DEF DaysInOrder
  <2> QED
    BY <1>0, <1>1, <1>3, <2>1, <2>2, <2>3 DEF DaysInOrder
<1>6. LinesIntact'
  <2>1. "power" \notin struck' => \A e \in Days : \A i \in DOMAIN files'[e] : files'[e][i].text = "whole"
    BY <1>0, <1>2 DEF LogInv, LinesIntact
  <2>2. "disk" \in struck => "disk" \in struck'
    BY <1>0
  <2> QED
    BY <1>0, <2>1, <2>2 DEF LogInv, LinesIntact
<1>7. ASSUME NEW n, Vouched(n) PROVE Vouched(n)'
  <2>1. CASE n < marker
    BY <1>0, <2>1 DEF Vouched
  <2>2. ASSUME NEW e \in present, \A p \in present : p <= e,
               \E i \in DOMAIN files[e] : files[e][i].text = "whole" /\ n <= files[e][i].seq
        PROVE  Vouched(n)'
    <3>1. e # d
      BY <1>0, <1>1, <1>3, <2>2
    <3>2. e \in present' /\ (\A p \in present' : p <= e) /\ files'[e] = files[e]
      BY <1>0, <1>1, <1>2, <2>2, <3>1
    <3> QED
      BY <2>2, <3>2 DEF Vouched
  <2> QED
    BY <1>7, <2>1, <2>2 DEF Vouched
<1>8. NumbersFresh'
  <2> SUFFICES ASSUME struck' \subseteq {"prune", "prune_all", "disk"}
               PROVE  /\ \A i, j \in DOMAIN issued : i < j => issued[i] < issued[j]
                      /\ proc # "down" => \A i \in DOMAIN issued : issued[i] < next_seq
                      /\ proc # "opening" => \A i \in DOMAIN issued : Vouched(issued[i])'
    BY <1>0 DEF NumbersFresh, Only
  <2>1. /\ \A i, j \in DOMAIN issued : i < j => issued[i] < issued[j]
        /\ proc # "down" => \A i \in DOMAIN issued : issued[i] < next_seq
        /\ proc # "opening" => \A i \in DOMAIN issued : Vouched(issued[i])
    BY <1>0 DEF LogInv, NumbersFresh, Only
  <2>2. ASSUME NEW i \in DOMAIN issued, Vouched(issued[i]) PROVE Vouched(issued[i])'
    <3>1. PICK n \in {issued[i]} : TRUE
      OBVIOUS
    <3>2. Vouched(n)'
      BY <1>7, <2>2, <3>1
    <3> QED
      BY <1>0, <3>1, <3>2 DEF Vouched
  <2> QED
    BY <2>1, <2>2
<1>9. MarkerNeverAhead' /\ CounterBacked'
  BY <1>0 DEF MarkerNeverAhead, CounterBacked, Only
<1>10. LoggedOnDisk'
  <2> SUFFICES ASSUME "power" \notin struck', NEW s \in logged'
               PROVE  \E e \in Days : \E i \in DOMAIN files'[e] : files'[e][i].seq = s
    BY DEF LoggedOnDisk
  <2>1. "power" \notin struck /\ s \in logged
    BY <1>0
  <2>2. PICK e \in Days : \E i \in DOMAIN files[e] : files[e][i].seq = s
    BY <2>1 DEF LogInv, LoggedOnDisk
  <2>3. e # d
    <3> SUFFICES ASSUME e = d PROVE FALSE
      OBVIOUS
    <3>1. PICK i \in DOMAIN files[d] : files[d][i].seq = s
      BY <2>2
    <3>2. files[d][i] \in Range(files[d])
      BY DEF Range
    <3> QED
      BY <1>0, <3>1, <3>2
  <2> QED
    BY <1>2, <2>2, <2>3
<1>11. FilesChained' /\ CounterExact'
  <2> DEFINE N == Len(issued)
  <2> SUFFICES ASSUME struck' \subseteq {"prune"}
               PROVE  /\ \E from \in [1..(MaxDay + 1) -> 1..(N + 1)] : Chain(from)'
                      /\ proc # "down" => next_seq = N + 1
                      /\ marker <= N + 1
                      /\ proc # "opening" => N = 0 \/ Vouched(Len(issued))'
                      /\ lost' < N
    BY <1>0 DEF FilesChained, CounterExact, Only
  <2>1. struck \subseteq {"prune"} /\ ~(\A e \in present \ {d} : Parsed(files[e]) = <<>>)
    BY <1>0
  <2>2. N \in Nat
    BY <1>1 DEF TypeOK
  <2>3. /\ proc # "down" => next_seq = N + 1
        /\ marker <= N + 1
        /\ proc # "opening" => N = 0 \/ Vouched(N)
    BY <2>1 DEF LogInv, CounterExact, Only
  <2>4. Vouched(N) => Vouched(Len(issued))'
    <3>1. PICK n \in {N} : TRUE
      OBVIOUS
    <3>2. Vouched(N) => Vouched(n)'
      BY <1>7, <3>1
    <3> QED
      BY <1>0, <3>1, <3>2 DEF Vouched
  <2>5. PICK from \in [1..(MaxDay + 1) -> 1..(N + 1)] : Chain(from)
    BY <2>1 DEF LogInv, FilesChained, Only
  <2> HIDE DEF N
  <2>6. /\ from \in [1..(MaxDay + 1) -> Nat] /\ from[1] = lost + 1 /\ from[MaxDay + 1] = N + 1
        /\ \A e \in Days : /\ from[e] <= from[e + 1] /\ files[e] = Run(from[e], from[e + 1] - from[e])
                           /\ from[e] \in Nat /\ from[e + 1] \in Nat
    <3>1. from \in [1..(MaxDay + 1) -> Nat]
      BY <2>2
    <3>2. from[1] = lost + 1 /\ from[MaxDay + 1] = N + 1
      BY <2>5 DEF Chain, N
    <3>3. ASSUME NEW e \in Days
          PROVE  /\ from[e] <= from[e + 1] /\ files[e] = Run(from[e], from[e + 1] - from[e])
                 /\ from[e] \in Nat /\ from[e + 1] \in Nat
      <4>1. e \in 1..(MaxDay + 1) /\ e + 1 \in 1..(MaxDay + 1)
        BY <1>1
      <4>2. from[e] <= from[e + 1] /\ files[e] = Run(from[e], from[e + 1] - from[e])
        BY <2>5 DEF Chain
      <4> QED
        BY <3>1, <4>1, <4>2
    <3> QED
      BY <3>1, <3>2, <3>3
  <2>7. from[d] = lost + 1
    <3>1. \A p \in 1..(d - 1) : from[p] = from[p + 1]
      <4>1. ASSUME NEW p \in 1..(d - 1) PROVE from[p] = from[p + 1]
        <5>1. p \in Days /\ p \notin present
          BY <1>0, <1>1
        <5>2. files[p] = <<>>
          BY <1>1, <5>1 DEF DaysInOrder
        <5> QED
          BY <2>5, <2>6, <5>1, <5>2, EmptyFile
      <4> QED
        BY <4>1
    <3>2. 1 \in 1..(MaxDay + 1) /\ d \in 1..(MaxDay + 1) /\ 1 <= d
      BY <1>1
    <3>3. from[1] = from[d]
      BY <2>6, <3>1, <3>2, Level
    <3> QED
      BY <2>6, <3>3
  <2>8. lost' + 1 = from[d + 1]
    <3>1. PICK n \in Nat : n = from[d + 1] - from[d]
      BY <2>6
    <3>2. Parsed(files[d]) = Run(from[d], n) /\ Len(Run(from[d], n)) = n
      BY <2>6, <3>1, ParsedRun, RunTyped
    <3>3. lost' = lost + n
      BY <1>0, <3>2
    <3>4. from[d] \in Nat /\ from[d + 1] \in Nat /\ lost \in Nat
      BY <1>1, <2>6
    <3> QED
      BY <2>7, <3>1, <3>3, <3>4
  <2> DEFINE to == [e \in 1..(MaxDay + 1) |-> IF e <= d THEN from[d + 1] ELSE from[e]]
  <2>9. d + 1 \in 1..(MaxDay + 1)
    BY <1>1
  <2>10. to \in [1..(MaxDay + 1) -> 1..(N + 1)]
    BY <2>9
  <2>11. to[1] = lost' + 1 /\ to[MaxDay + 1] = N + 1
    BY <1>1, <2>6, <2>8
  <2>12. ASSUME NEW e \in Days
         PROVE  to[e] <= to[e + 1] /\ files'[e] = Run(to[e], to[e + 1] - to[e])
    <3>0. e \in 1..(MaxDay + 1) /\ e + 1 \in 1..(MaxDay + 1) /\ from[d + 1] \in Nat
      BY <1>1, <2>6
    <3>1. CASE e <= d
      <4>1. to[e] = from[d + 1] /\ to[e + 1] = from[d + 1]
        <5>1. CASE e = d
          BY <1>1, <3>0, <5>1
        <5>2. CASE e # d
          BY <1>1, <3>0, <3>1, <5>2
        <5> QED
          BY <5>1, <5>2
      <4>2. files'[e] = <<>>
        <5>1. CASE e = d
          BY <1>2, <5>1
        <5>2. CASE e # d
          <6>1. e \notin present
            BY <1>0, <1>1, <3>1, <5>2
          <6> QED
            BY <1>1, <1>2, <5>2, <6>1 DEF DaysInOrder
        <5> QED
          BY <5>1, <5>2
      <4>3. Run(from[d + 1], 0) = <<>>
        BY DEF Run
      <4>4. from[d + 1] - from[d + 1] = 0 /\ from[d + 1] <= from[d + 1]
        BY <3>0
      <4> QED
        BY <4>1, <4>2, <4>3, <4>4, Zenon
    <3>2. CASE ~(e <= d)
      <4>1. to[e] = from[e] /\ to[e + 1] = from[e + 1] /\ e # d
        BY <1>1, <3>0, <3>2
      <4> QED
        BY <1>2, <2>6, <4>1
    <3> QED
      BY <3>1, <3>2
  <2> HIDE DEF to
  <2>13. Chain(to)'
    BY <1>0, <2>11, <2>12 DEF Chain, N
  <2>14. lost' < N
    <3>1. PICK e \in present \ {d} : Parsed(files[e]) # <<>>
      BY <2>1
    <3>2. e \in Days /\ d + 1 <= e /\ e + 1 <= MaxDay + 1 /\ d + 1 \in 1..(MaxDay + 1) /\ e \in 1..(MaxDay + 1)
          /\ e + 1 \in 1..(MaxDay + 1) /\ MaxDay + 1 \in 1..(MaxDay + 1)
      BY <1>0, <1>1
    <3>3. from[d + 1] <= from[e] /\ from[e + 1] <= from[MaxDay + 1]
      BY <2>6, <3>2, Rising
    <3>4. from[e] # from[e + 1]
      <4> SUFFICES ASSUME from[e] = from[e + 1] PROVE FALSE
        OBVIOUS
      <4>1. from[e + 1] - from[e] = 0 /\ 0 \in Nat /\ from[e] \in Nat
        BY <2>6, <3>2
      <4>2. files[e] = Run(from[e], 0)
        BY <2>6, <3>2, <4>1, Zenon
      <4>3. Parsed(Run(from[e], 0)) = Run(from[e], 0) /\ Run(from[e], 0) = <<>>
        <5>1. Run(from[e], 0) = <<>>
          BY DEF Run
        <5> QED
          BY <4>1, <5>1, ParsedRun
      <4> QED
        BY <3>1, <4>2, <4>3
    <3>5. from[e] < from[e + 1]
      BY <2>6, <3>2, <3>4
    <3>6. from[d + 1] \in Nat /\ from[e] \in Nat /\ from[e + 1] \in Nat /\ lost' \in Nat
      BY <1>4, <2>6, <3>2 DEF TypeOK
    <3> QED
      BY <2>2, <2>6, <2>8, <3>3, <3>5, <3>6
  <2> QED
    BY <2>3, <2>4, <2>10, <2>13, <2>14 DEF N
<1> QED
  BY <1>4, <1>5, <1>6, <1>8, <1>9, <1>10, <1>11 DEF LogInv
\* An append keeps the invariant.
LEMMA AppendStep ==
  ASSUME LogInv, NEW d \in Days, NEW due \in BOOLEAN, Appending(d, due)
  PROVE  LogInv'
BY AppendTyped, AppendKeepsDays, AppendKeepsLines, AppendKeepsFresh, AppendKeepsMarker,
   AppendKeepsLogged, AppendKeepsChain DEF LogInv

\* A record of an event or of the audit trail is appended, on the day it was stamped with.
LEMMA RecordAppends ==
  ASSUME LogInv, NEW a \in Appenders, LogRecord(a)
  PROVE  \E d \in Days, due \in BOOLEAN : Appending(d, due)
<1>1. PICK due \in BOOLEAN : Write(stamp[a], due)
  BY DEF LogRecord
<1>2. /\ proc = "up" /\ stamp[a] # 0 /\ stamp' = [stamp EXCEPT ![a] = 0] /\ UNCHANGED <<day, proc, lost>>
      /\ struck' = IF stamp[a] < cur THEN struck \cup {"midnight"} ELSE struck
  BY DEF LogRecord, Strike
<1>3. /\ stamp \in [Appenders -> 0..MaxDay] /\ MaxDay \in Nat /\ day \in 1..MaxDay /\ cur \in 1..MaxDay
      /\ \A b \in Appenders : stamp[b] <= day
  BY EventLogAssumption DEF LogInv, TypeOK, DaysInOrder, Days
<1>4. stamp[a] \in Days /\ stamp[a] <= day
  BY <1>2, <1>3 DEF Days
<1>5. stamp' \in [Appenders -> 0..MaxDay] /\ \A b \in Appenders : stamp'[b] <= day
  BY <1>2, <1>3
<1>6. "midnight" \notin struck' => cur <= stamp[a]
  BY <1>2, <1>3, <1>4 DEF Days
<1>7. struck \subseteq struck' /\ struck' \subseteq struck \cup {"midnight"}
  BY <1>2
<1>8. Appending(stamp[a], due)
  BY <1>1, <1>2, <1>4, <1>5, <1>6, <1>7 DEF Appending
<1> QED
  BY <1>4, <1>8

\* The record that ends a recovery is appended.
LEMMA RecoveredAppends ==
  ASSUME LogInv, Recovered
  PROVE  \E d \in Days, due \in BOOLEAN : Appending(d, due)
<1>1. PICK due \in BOOLEAN : Write(day, due)
  BY DEF Recovered
<1>2. /\ proc = "opening" /\ proc' = "up" /\ UNCHANGED <<day, stamp, lost>>
      /\ struck' = IF day # cur THEN struck \cup {"midnight"} ELSE struck
  BY DEF Recovered, Strike
<1>3. /\ stamp \in [Appenders -> 0..MaxDay] /\ day \in Days /\ cur \in Days /\ MaxDay \in Nat
      /\ cur <= day /\ \A b \in Appenders : stamp[b] <= day
  BY EventLogAssumption DEF LogInv, TypeOK, DaysInOrder
<1>4. day <= day
  BY <1>3 DEF Days
<1>5. "midnight" \notin struck' => cur <= day /\ day = cur
  BY <1>2, <1>3
<1>6. struck \subseteq struck' /\ struck' \subseteq struck \cup {"midnight"}
  BY <1>2
<1>7. Appending(day, due)
  BY <1>1, <1>2, <1>3, <1>4, <1>5, <1>6 DEF Appending
<1> QED
  BY <1>3, <1>7

\* Every step keeps the invariant.
LEMMA LogStep == LogInv /\ [Next]_vars => LogInv'
<1> SUFFICES ASSUME LogInv, [Next]_vars PROVE LogInv'
  OBVIOUS
<1>1. CASE Midnight \/ \E a \in Appenders : Stamp(a)
  BY <1>1, ClockStep
<1>2. CASE OpenLog
  BY <1>2, OpenStep
<1>3. CASE Recovered
  BY <1>3, RecoveredAppends, AppendStep
<1>4. CASE SyncLog
  BY <1>4, SyncStep
<1>5. CASE Kill
  BY <1>5, KillStep
<1>6. CASE PowerLoss
  BY <1>6, PowerLossStep
<1>7. ASSUME NEW a \in Appenders, LogRecord(a) PROVE LogInv'
  BY <1>7, RecordAppends, AppendStep
<1>8. ASSUME NEW a \in Appenders, AppendFails(a) PROVE LogInv'
  BY <1>8, AppendFailsStep
<1>9. ASSUME NEW a \in Appenders, KillRotating(a) PROVE LogInv'
  BY <1>9, KillRotatingStep
<1>10. ASSUME NEW d \in Days, Prune(d) PROVE LogInv'
  BY <1>10, PruneStep
<1>11. CASE UNCHANGED vars
  <2>0. /\ UNCHANGED <<day, files, present, synced, marker, proc, next_seq, cur, buf, unsynced,
                       stamp, issued, lost, logged, struck>>
    BY <1>11 DEF vars
  <2>1. TypeOK' /\ DaysInOrder' /\ LinesIntact'
    BY <2>0 DEF LogInv, TypeOK, DaysInOrder, LinesIntact
  <2>2. NumbersFresh'
    BY <2>0 DEF LogInv, NumbersFresh, Vouched, Only
  <2>3. MarkerNeverAhead' /\ CounterBacked' /\ LoggedOnDisk'
    BY <2>0 DEF LogInv, MarkerNeverAhead, CounterBacked, LoggedOnDisk, Backed, Only
  <2>4. FilesChained'
    BY <2>0 DEF LogInv, FilesChained, Chain, Only
  <2>5. CounterExact'
    BY <2>0 DEF LogInv, CounterExact, Vouched, Only
  <2> QED
    BY <2>1, <2>2, <2>3, <2>4, <2>5 DEF LogInv
<1> QED
  BY <1>1, <1>2, <1>3, <1>4, <1>5, <1>6, <1>7, <1>8, <1>9, <1>10, <1>11 DEF Next

\* The inductive invariant of the event log (append, rotate, sync, recover_next_seq and what
\* interrupts them).
THEOREM LogInvariant == Spec => []LogInv
<1>1. Init => LogInv
  BY LogInitInv
<1>2. LogInv /\ [Next]_vars => LogInv'
  BY LogStep
<1> QED
  BY <1>1, <1>2, PTL DEF Spec

\* A number names one record for good, over any run of restarts, and what the marker vouches
\* for is durable (recover_next_seq, sync), for any run of mishaps its two parts stand.
THEOREM NumbersStaySafe == Spec => []NumbersSafe
<1>1. LogInv => NumbersSafe
  BY DEF LogInv, NumbersSafe, NumbersFresh, SeqNeverReused
<1> QED
  BY <1>1, LogInvariant, PTL

\* The log is a superset of what was delivered (append): a reader of the files finds every
\* record this process returned Ok for.
THEOREM LoggedIsReadable == Spec => []DeliveredIsLogged
<1>1. ASSUME LogInv PROVE DeliveredIsLogged
  <2> SUFFICES ASSUME struck \subseteq {"prune", "prune_all", "kill_opening", "midnight", "disk"},
                      NEW s \in logged
               PROVE  s \in Range(Seqs(AllLines))
    BY DEF DeliveredIsLogged, Only
  <2>1. TypeOK /\ "power" \notin struck
    BY <1>1 DEF LogInv
  <2>2. PICK d \in Days : \E i \in DOMAIN files[d] : files[d][i].seq = s
    BY <1>1, <2>1 DEF LogInv, LoggedOnDisk
  <2>3. PICK i \in DOMAIN files[d] : files[d][i].seq = s
    BY <2>2
  <2>4. files[d][i].text = "whole"
    BY <1>1, <2>1 DEF LogInv, LinesIntact
  <2>5. Has(files[d], files[d][i])
    BY DEF Has
  <2>6. Has(AllLines, files[d][i])
    BY <2>1, <2>4, <2>5, LinesRead, Zenon
  <2>7. PICK j \in DOMAIN AllLines : AllLines[j] = files[d][i]
    BY <2>6 DEF Has
  <2>8. Seqs(AllLines)[j] = s /\ j \in DOMAIN Seqs(AllLines)
    BY <2>3, <2>7 DEF Seqs
  <2> QED
    BY <2>8 DEF Range
<1> QED
  BY <1>1, LogInvariant, PTL

\* n numbers from the one behind a on.
Numbers(a, n) == [i \in 1..n |-> a + i]

\* The numbers of the records of a run.
LEMMA SeqsOfRun ==
  ASSUME NEW a \in Nat, NEW n \in Nat
  PROVE  Seqs(Run(a + 1, n)) = Numbers(a, n)
<1>1. a + 1 \in Nat
  OBVIOUS
<1>2. DOMAIN Run(a + 1, n) = 1..n /\ \A i \in 1..n : Run(a + 1, n)[i].seq = (a + 1) + i - 1
  BY <1>1, RunTyped, Zenon
<1>3. \A i \in 1..n : (a + 1) + i - 1 = a + i
  OBVIOUS
<1> QED
  BY <1>2, <1>3 DEF Seqs, Numbers

\* Under pruning alone, what a reader finds in the files is one run, up to the last record.
LEMMA LogJoined ==
  ASSUME LogInv, struck \subseteq {"prune"}
  PROVE  lost <= Len(issued) /\ AllLines = Run(lost + 1, Len(issued) - lost)
<1> DEFINE N == Len(issued)
<1>1. PICK from \in [1..(MaxDay + 1) -> 1..(N + 1)] : Chain(from)
  BY DEF LogInv, FilesChained, Only
<1>2. /\ files \in [Days -> Seq(Line)] /\ N \in Nat /\ lost \in Nat
      /\ from[1] = lost + 1 /\ from[MaxDay + 1] = N + 1
      /\ \A d \in Days : from[d] <= from[d + 1] /\ files[d] = Run(from[d], from[d + 1] - from[d])
  BY <1>1 DEF Chain, LogInv, TypeOK
<1> HIDE DEF N
<1>3. from \in [1..(MaxDay + 1) -> Nat]
  BY <1>2
<1>4. from[1] <= from[MaxDay + 1]
      /\ FlattenSeq([d \in Days |-> Parsed(files[d])]) = Run(from[1], from[MaxDay + 1] - from[1])
  BY <1>2, <1>3, FilesJoined
<1>5. lost <= N /\ (N + 1) - (lost + 1) = N - lost
  BY <1>2, <1>4
<1> QED
  BY <1>2, <1>4, <1>5 DEF AllLines, N

\* The same of the state a step leads to.
LEMMA LogJoinedNext ==
  ASSUME LogInv', struck' \subseteq {"prune"}
  PROVE  lost' <= Len(issued') /\ AllLines' = Run(lost' + 1, Len(issued') - lost')
<1>1. PICK fs \in {files'}, n \in {Len(issued')}, l \in {lost'} : TRUE
  OBVIOUS
<1>2. PICK from \in [1..(MaxDay + 1) -> 1..(n + 1)] : Chain(from)'
  BY <1>1 DEF LogInv, FilesChained, Only
<1>3. /\ fs \in [Days -> Seq(Line)] /\ n \in Nat /\ l \in Nat
      /\ from[1] = l + 1 /\ from[MaxDay + 1] = n + 1
      /\ \A d \in Days : from[d] <= from[d + 1] /\ fs[d] = Run(from[d], from[d + 1] - from[d])
  BY <1>1, <1>2 DEF Chain, LogInv, TypeOK
<1>4. from \in [1..(MaxDay + 1) -> Nat]
  BY <1>3
<1>5. from[1] <= from[MaxDay + 1]
      /\ FlattenSeq([d \in Days |-> Parsed(fs[d])]) = Run(from[1], from[MaxDay + 1] - from[1])
  BY <1>3, <1>4, FilesJoined
<1>6. l <= n /\ (n + 1) - (l + 1) = n - l
  BY <1>3, <1>5
<1>7. AllLines' = FlattenSeq([d \in Days |-> Parsed(fs[d])])
  BY <1>1 DEF AllLines
<1>8. AllLines' = Run(l + 1, n - l)
  BY <1>3, <1>5, <1>6, <1>7
<1> QED
  BY <1>1, <1>6, <1>8

\* A replay that is served is the whole gap behind the cursor (replay_since), however the
\* files were rotated, recovered and pruned in between.
THEOREM ReplaysHaveNoGap == Spec => []ReplayHasNoGap
<1>1. ASSUME LogInv PROVE ReplayHasNoGap
  <2> DEFINE N == Len(issued)
  <2> SUFFICES ASSUME struck \subseteq {"prune"}, proc = "up",
                      NEW after \in 0..(next_seq - 1), NEW out \in replay_since(after)
               PROVE  out = [i \in 1..(next_seq - 1 - after) |-> after + i]
    BY DEF ReplayHasNoGap, Only
  <2>1. next_seq = N + 1 /\ N \in Nat /\ lost \in Nat /\ (lost > 0 => lost < N)
    BY <1>1 DEF LogInv, CounterExact, TypeOK, Only
  <2>2. lost <= N /\ AllLines = Run(lost + 1, N - lost)
    BY <1>1, LogJoined
  <2>3. out = Seqs(After(AllLines, after)) /\ ~(AllLines # <<>> /\ after + 1 < Head(AllLines).seq)
    BY DEF replay_since, TooOld, Served
  <2> HIDE DEF N
  <2>4. PICK n \in Nat, a \in Nat : n = N - lost /\ a = lost + 1
    BY <2>1, <2>2
  <2>5. /\ AllLines \in Seq(Line) /\ Len(AllLines) = n
        /\ \A i \in 1..n : AllLines[i].seq = a + i - 1
    <3>1. AllLines = Run(a, n)
      BY <2>2, <2>4
    <3>2. Run(a, n) \in Seq(Line) /\ Len(Run(a, n)) = n /\ \A i \in 1..n : Run(a, n)[i].seq = a + i - 1
      BY RunTyped, ZenonT(30)
    <3> QED
      BY <3>1, <3>2
  <2>6. lost <= after
    <3>1. CASE n = 0
      BY <2>1, <2>2, <2>4, <3>1
    <3>2. CASE n # 0
      <4>1. 1 \in 1..n /\ AllLines # <<>>
        BY <2>5, <3>2
      <4>2. Head(AllLines) = AllLines[1] /\ AllLines[1].seq = a + 1 - 1
        BY <2>5, <4>1
      <4>3. ~(after + 1 < lost + 1)
        BY <2>1, <2>3, <2>4, <4>1, <4>2
      <4> QED
        BY <2>1, <4>3
    <3> QED
      BY <3>1, <3>2
  <2>7. after \in Nat /\ a <= after + 1 /\ after + 1 <= a + n
        /\ (a + n) - (after + 1) = N - after /\ N - after \in Nat /\ next_seq - 1 - after = N - after
    BY <2>1, <2>2, <2>4, <2>6
  <2>8. After(Run(a, n), after) = Run(after + 1, (a + n) - (after + 1))
    BY <2>7, AfterRun
  <2>9. out = Seqs(Run(after + 1, N - after))
    BY <2>2, <2>3, <2>4, <2>7, <2>8
  <2>10. out = Numbers(after, N - after)
    BY <2>7, <2>9, SeqsOfRun
  <2> QED
    BY <2>7, <2>10 DEF Numbers
<1> QED
  BY <1>1, LogInvariant, PTL

\* They are a sequence of n numbers.
LEMMA NumbersTyped ==
  ASSUME NEW a \in Nat, NEW n \in Nat
  PROVE  Numbers(a, n) \in Seq(Nat) /\ Len(Numbers(a, n)) = n /\ \A i \in 1..n : Numbers(a, n)[i] = a + i
<1>1. Numbers(a, n) \in [1..n -> Nat]
  BY DEF Numbers
<1> QED
  BY <1>1 DEF Numbers

\* m more numbers continue them.
LEMMA NumbersGrow ==
  ASSUME NEW a \in Nat, NEW n \in Nat, NEW m \in Nat
  PROVE  Numbers(a, n + m) = Numbers(a, n) \o [i \in 1..m |-> a + n + i]
<1> DEFINE s == Numbers(a, n)
           t == [i \in 1..m |-> a + n + i]
           u == Numbers(a, n + m)
<1>1. s \in Seq(Nat) /\ Len(s) = n /\ \A i \in 1..n : s[i] = a + i
  BY NumbersTyped, Zenon
<1>2. t \in Seq(Nat) /\ Len(t) = m /\ \A i \in 1..m : t[i] = a + n + i
  <2>1. t \in [1..m -> Nat]
    OBVIOUS
  <2> QED
    BY <2>1
<1>3. u \in Seq(Nat) /\ Len(u) = n + m /\ \A i \in 1..(n + m) : u[i] = a + i
  <2>1. n + m \in Nat
    OBVIOUS
  <2> QED
    BY <2>1, NumbersTyped, Zenon
<1> HIDE DEF s, t, u
<1>4. /\ s \o t \in Seq(Nat) /\ Len(s \o t) = n + m
      /\ \A i \in 1..(n + m) : (s \o t)[i] = IF i <= n THEN s[i] ELSE t[i - n]
  BY <1>1, <1>2, ConcatProperties, ZenonT(30)
<1>5. ASSUME NEW i \in 1..(n + m) PROVE (s \o t)[i] = u[i]
  <2>1. CASE i <= n
    BY <1>1, <1>3, <1>4, <2>1
  <2>2. CASE ~(i <= n)
    <3>1. i - n \in 1..m /\ a + n + (i - n) = a + i
      BY <2>2
    <3>2. (s \o t)[i] = t[i - n] /\ t[i - n] = a + n + (i - n)
      BY <1>2, <1>4, <2>2, <3>1
    <3> QED
      BY <1>3, <3>1, <3>2
  <2> QED
    BY <2>1, <2>2
<1>6. s \o t = u
  BY <1>3, <1>4, <1>5, SeqEqual
<1> QED
  BY <1>6 DEF s, t, u

\* Without the first k numbers they start k later.
LEMMA NumbersDrop ==
  ASSUME NEW a \in Nat, NEW n \in Nat, NEW k \in 0..n
  PROVE  SubSeq(Numbers(a, n), k + 1, n) = Numbers(a + k, n - k)
<1> DEFINE s == Numbers(a, n)
           t == SubSeq(s, k + 1, n)
           u == Numbers(a + k, n - k)
<1>1. s \in Seq(Nat) /\ Len(s) = n /\ \A i \in 1..n : s[i] = a + i
  BY NumbersTyped, Zenon
<1>2. u \in Seq(Nat) /\ Len(u) = n - k /\ \A i \in 1..(n - k) : u[i] = (a + k) + i
  <2>1. a + k \in Nat /\ n - k \in Nat
    OBVIOUS
  <2> QED
    BY <2>1, NumbersTyped, Zenon
<1> HIDE DEF s, u
<1>3. t \in Seq(Nat) /\ Len(t) = n - k /\ \A i \in 1..(n - k) : t[i] = s[(k + 1) + i - 1]
  BY <1>1
<1> HIDE DEF t
<1>4. ASSUME NEW i \in 1..(n - k) PROVE t[i] = u[i]
  <2>1. (k + 1) + i - 1 \in 1..n /\ (k + 1) + i - 1 = k + i /\ a + (k + i) = (a + k) + i
    OBVIOUS
  <2> QED
    BY <1>1, <1>2, <1>3, <2>1
<1>5. t = u
  BY <1>2, <1>3, <1>4, SeqEqual
<1> QED
  BY <1>5 DEF s, t, u

\* What a step may do to the records: append, prune, or leave them.
LEMMA StepKinds ==
  ASSUME LogInv, [Next]_vars
  PROVE  /\ struck \subseteq struck'
         /\ \/ UNCHANGED <<lost, issued>>
            \/ \E d \in Days, due \in BOOLEAN : Appending(d, due)
            \/ \E d \in Days : Prune(d)
<1>1. CASE Midnight \/ (\E a \in Appenders : Stamp(a)) \/ OpenLog \/ SyncLog \/ UNCHANGED vars
  BY <1>1 DEF Midnight, Stamp, OpenLog, SyncLog, vars
<1>2. CASE Kill \/ PowerLoss \/ \E a \in Appenders : AppendFails(a) \/ KillRotating(a)
  BY <1>2 DEF Kill, PowerLoss, AppendFails, KillRotating, Strike
<1>3. CASE Recovered \/ \E a \in Appenders : LogRecord(a)
  <2>1. \E d \in Days, due \in BOOLEAN : Appending(d, due)
    BY <1>3, RecoveredAppends, RecordAppends
  <2> QED
    BY <2>1 DEF Appending
<1>4. ASSUME NEW d \in Days, Prune(d) PROVE struck \subseteq struck'
  BY <1>4 DEF Prune, Strike
<1> QED
  BY <1>1, <1>2, <1>3, <1>4 DEF Next

\* While the promise stands, a step of the log is a step of SeqLog.
LEMMA StepImplements ==
  ASSUME LogInv, LogInv', [Next]_vars
  PROVE  [Reader!Next]_<<lost, Seqs(AllLines), Only({"prune"})>>
<1>1. CASE ~(struck' \subseteq {"prune"})
  <2>1. Only({"prune"})' = FALSE
    BY <1>1 DEF Only
  <2> QED
    BY <2>1 DEF Reader!Next, Reader!Void
<1>2. CASE struck' \subseteq {"prune"}
  <2>1. struck \subseteq {"prune"}
    BY <1>2, StepKinds
  <2>2. Only({"prune"}) = TRUE /\ Only({"prune"})' = TRUE
    BY <1>2, <2>1 DEF Only
  <2>3. PICK l \in Nat, n \in Nat : l = lost /\ n = Len(issued) - lost /\ l + n = Len(issued)
    <3>1. lost \in Nat /\ issued \in Seq(Nat)
      BY DEF LogInv, TypeOK
    <3>2. Len(issued) \in Nat
      BY <3>1, LenProperties
    <3>3. lost <= Len(issued)
      BY <2>1, LogJoined
    <3>4. PICK l \in Nat, k \in Nat : l = lost /\ k = Len(issued) /\ l <= k
      BY <3>1, <3>2, <3>3
    <3>5. k - l \in Nat /\ l + (k - l) = k
      BY <3>4
    <3> QED
      BY <3>4, <3>5
  <2>4. Seqs(AllLines) = Numbers(l, n)
    <3>1. AllLines = Run(l + 1, n)
      BY <2>1, <2>3, LogJoined
    <3> QED
      BY <3>1, SeqsOfRun
  <2>5. PICK p \in Nat, q \in Nat : p = lost' /\ q = Len(issued') - lost' /\ p + q = Len(issued')
    <3>1. lost' \in Nat /\ issued' \in Seq(Nat)
      BY DEF LogInv, TypeOK
    <3>2. Len(issued') \in Nat
      BY <3>1, LenProperties
    <3>3. lost' <= Len(issued')
      BY <1>2, LogJoinedNext
    <3>4. PICK p \in Nat, k \in Nat : p = lost' /\ k = Len(issued') /\ p <= k
      BY <3>1, <3>2, <3>3
    <3>5. k - p \in Nat /\ p + (k - p) = k
      BY <3>4
    <3> QED
      BY <3>4, <3>5
  <2>6. Seqs(AllLines)' = Numbers(p, q)
    <3>1. AllLines' = Run(p + 1, q)
      BY <1>2, <2>5, LogJoinedNext
    <3>2. Seqs(Run(p + 1, q)) = Numbers(p, q)
      BY SeqsOfRun
    <3> QED
      BY <3>1, <3>2 DEF Seqs
  <2>7. Len(Numbers(l, n)) = n
    BY NumbersTyped, Zenon
  <2>8. CASE UNCHANGED <<lost, issued>>
    <3>1. p = l /\ q = n
      BY <2>3, <2>5, <2>8
    <3> QED
      BY <2>2, <2>3, <2>4, <2>5, <2>6, <3>1
  <2>9. ASSUME NEW d \in Days, NEW due \in BOOLEAN, Appending(d, due)
        PROVE  Reader!Grow(1) \/ Reader!Grow(2)
    <3>1. TypeOK /\ Write(d, due) /\ lost' = lost
      BY <2>9 DEF LogInv, Appending
    <3>2. PICK m \in {1, 2} : Len(issued') = Len(issued) + m
      <4>1. Len(issued) \in Nat /\ next_seq \in Nat /\ LastAdded(d) \in {next_seq, next_seq + 1}
            /\ Len(issued') = Len(issued) + (LastAdded(d) - next_seq) + 1
        BY <3>1, AppendIssues DEF TypeOK
      <4> QED
        BY <4>1
    <3>3. p = l /\ q = n + m
      BY <2>3, <2>5, <3>1, <3>2
    <3>4. Numbers(l, n + m) = Numbers(l, n) \o [i \in 1..m |-> l + n + i]
      <4>1. m \in Nat
        OBVIOUS
      <4> QED
        BY <4>1, NumbersGrow
    <3>5. Seqs(AllLines)' = Seqs(AllLines) \o [i \in 1..m |-> lost + Len(Seqs(AllLines)) + i]
      BY <2>3, <2>4, <2>6, <2>7, <3>3, <3>4
    <3>6. lost' = lost /\ Only({"prune"})' = Only({"prune"})
      BY <2>2, <3>1
    <3>7. Reader!Grow(m)
      BY <3>5, <3>6 DEF Reader!Grow
    <3> QED
      BY <3>7
  <2>10. ASSUME NEW d \in Days, Prune(d)
         PROVE  \/ \E k \in 1..Len(Seqs(AllLines)) : Reader!Drop(k)
                \/ UNCHANGED <<lost, Seqs(AllLines), Only({"prune"})>>
    <3>1. issued' = issued /\ lost' = lost + Len(Parsed(files[d]))
      BY <2>10 DEF Prune
    <3>2. PICK k \in Nat : lost' = lost + k
      <4>1. files[d] \in Seq(Line)
        BY DEF LogInv, TypeOK
      <4>2. Parsed(files[d]) \in Seq(Line)
        BY <4>1, ParsedHas
      <4> QED
        BY <3>1, <4>2, LenProperties
    <3>3. p = l + k /\ q = n - k /\ k \in 0..n
      BY <2>3, <2>5, <3>1, <3>2
    <3>4. SubSeq(Numbers(l, n), k + 1, n) = Numbers(l + k, n - k)
      BY <3>3, NumbersDrop
    <3>5. CASE k = 0
      <4>1. p = l /\ q = n
        BY <3>3, <3>5
      <4> QED
        BY <2>2, <2>3, <2>4, <2>5, <2>6, <4>1
    <3>6. CASE k # 0
      <4>1. k \in 1..Len(Seqs(AllLines))
        BY <2>4, <2>7, <3>3, <3>6
      <4>2. Seqs(AllLines)' = SubSeq(Seqs(AllLines), k + 1, Len(Seqs(AllLines)))
        BY <2>4, <2>6, <2>7, <3>3, <3>4
      <4>3. Reader!Drop(k)
        BY <2>2, <3>2, <4>2 DEF Reader!Drop
      <4> QED
        BY <4>1, <4>3
    <3> QED
      BY <3>5, <3>6
  <2> QED
    BY <2>8, <2>9, <2>10, StepKinds DEF Reader!Next
<1> QED
  BY <1>1, <1>2

\* Read through its files, the log is the gapless, append-only sequence SeqLog specifies
\* (append, rotate, recover_next_seq, replay_since): every step maps to one of its steps.
THEOREM LogImplementsSeqLog == Spec => ImplementsSeqLog
<1>1. Init => Reader!Init
  <2> SUFFICES ASSUME Init PROVE Reader!Init
    OBVIOUS
  <2>1. lost = 0 /\ issued = <<>> /\ struck = {}
    BY DEF Init
  <2>2. AllLines = Run(0 + 1, 0)
    <3>1. struck \subseteq {"prune"} /\ Len(issued) = 0
      BY <2>1
    <3> QED
      BY <2>1, <3>1, LogInitInv, LogJoined
  <2>3. Seqs(AllLines) = <<>>
    <3>1. Seqs(Run(0 + 1, 0)) = Numbers(0, 0)
      BY SeqsOfRun
    <3>2. Numbers(0, 0) = <<>>
      BY DEF Numbers
    <3> QED
      BY <2>2, <3>1, <3>2
  <2>4. Only({"prune"}) = TRUE
    BY <2>1 DEF Only
  <2> QED
    BY <2>1, <2>3, <2>4 DEF Reader!Init
<1>2. LogInv /\ LogInv' /\ [Next]_vars => [Reader!Next]_<<lost, Seqs(AllLines), Only({"prune"})>>
  BY StepImplements
<1> QED
  BY <1>1, <1>2, LogInvariant, PTL DEF Spec, ImplementsSeqLog, Reader!Spec
=============================================================================
