-------------------------- MODULE PasswordsProofs --------------------------
(***************************************************************************)
(* What holds of the password screen and its table, for any number of calls, *)
(* entries, secrets and clicks.                                              *)
(***************************************************************************)
EXTENDS Passwords, TLAPS

-----------------------------------------------------------------------------
\* What a list, the rows or a save's snapshot can be, with n ids and m secrets made so far.
Vaults(n, m) == UNION {[S -> 0..m] : S \in SUBSET (1..n)}

\* What a call carries at each point of its way.
CallTyped(x, n, m) ==
    \/ x = Resting
    \/ x \in [do : {"list"}, here : BOOLEAN]
    \/ x \in [do : {"create", "replace", "done create", "done replace"}, id : 1..n, secret : 0..m,
              snapshot : Vaults(n, m), here : BOOLEAN]
    \/ x \in [do : {"paste", "done paste"}, id : 1..n, secret : 0..m, here : BOOLEAN]
    \/ x \in [do : {"remove", "done remove", "clipboard"}, id : 1..n, here : BOOLEAN]
    \/ x \in [do : {"copy"}, secret : 1..m, here : BOOLEAN]
    \/ x \in [do : {"listed"}, entries : Vaults(n, m), here : BOOLEAN]
    \/ x \in [do : {"failed"}, was : {"list", "listed", "create", "replace", "paste", "remove",
                                     "done paste", "done remove"}, here : BOOLEAN]

PwTyped ==
    /\ entry_ids \in 0..MaxEntryIds /\ secrets \in 0..MaxSecrets
    /\ {table, entries} \subseteq Vaults(entry_ids, secrets)
    /\ draft \in [of : -1..entry_ids, secret : 0..secrets]
    /\ busy \in BOOLEAN /\ {arming, arming_paste} \subseteq 0..entry_ids
    /\ DOMAIN call = Calls /\ \A c \in Calls : CallTyped(call[c], entry_ids, secrets)
    /\ meant \in [1..MaxSecrets -> Nat]
    /\ odd \subseteq {"splice", "overtaken", "lost", "left"}

\* A save of this visit is out until its answer is taken, and there is one at most.
Saving(c) ==
    /\ call[c].do \in {"create", "replace", "done create", "done replace", "failed"} /\ call[c].here
    /\ call[c].do = "failed" => call[c].was \in {"create", "replace"}
OneSave ==
    \A c \in Calls : Saving(c) => busy /\ \A d \in Calls \ {c} : ~Saving(d)
AllHere == "left" \notin odd => \A c \in Calls : call[c] # Resting => call[c].here

\* The order of the answers.
InOrder ==
    /\ \A c, d \in Calls : <<c, d>> \in served => HasAnswer(c) /\ HasAnswer(d) /\ c # d
    /\ \A c \in overtaken : c \in Calls /\ HasAnswer(c)
    /\ served \subseteq Calls \X Calls
    /\ "lost" \notin odd => \A c, d \in Calls : HasAnswer(c) /\ HasAnswer(d) /\ c # d =>
                                <<c, d>> \in served \/ <<d, c>> \in served

\* What the screen will list once what is answered is folded: the last list, or the rows it
\* has, with the save spliced in that was answered later.
Lists(c) == call[c].do = "listed"
Saves(c) == call[c].do \in {"done create", "done replace"}
Spliced(f, late) ==
    /\ late = {} => f = table
    /\ \A c \in late : With(f, call[c].id, call[c].secret) = table
RefreshDue == \E c \in Calls : call[c].do \in {"list", "done paste", "done remove"}
FoldLate == \E c \in overtaken : Lists(c) \/ Saves(c)
WillList ==
    odd = {} /\ ~RefreshDue /\ ~FoldLate =>
        /\ (\A c \in Calls : ~Lists(c)) => Spliced(entries, {d \in Calls : Saves(d)})
        /\ \A c \in Calls : Lists(c) /\ (\A d \in Calls : Lists(d) => <<c, d>> \notin served) =>
               Spliced(call[c].entries, {d \in Calls : Saves(d) /\ <<c, d>> \in served})

\* A secret beside an id: in the table, in the rows, in a request, in what a save keeps, in a list.
Carried(c, i, s) ==
    \/ /\ call[c].do \in {"create", "replace", "paste", "done create", "done replace", "done paste"}
       /\ call[c].id = i /\ call[c].secret = s
    \/ /\ call[c].do \in {"create", "replace", "done create", "done replace"}
       /\ i \in DOMAIN call[c].snapshot /\ call[c].snapshot[i] = s
    \/ call[c].do = "listed" /\ i \in DOMAIN call[c].entries /\ call[c].entries[i] = s
Filed(i, s) ==
    \/ i \in DOMAIN table /\ table[i] = s
    \/ i \in DOMAIN entries /\ entries[i] = s
    \/ \E c \in Calls : Carried(c, i, s)

\* Wherever a secret stands beside an id, it was typed for that entry.
FiledHome ==
    "lost" \notin odd =>
        /\ \A i \in EntryIds, s \in 1..MaxSecrets : Filed(i, s) => meant[s] = i
        /\ draft.of > 0 /\ draft.secret # 0 => meant[draft.secret] = draft.of
\* The secret of a form for a new entry is nowhere but with its own create.
DraftLoose ==
    "lost" \notin odd /\ draft.of = NoEntry /\ draft.secret # 0 =>
        \/ \A i \in EntryIds : ~Filed(i, draft.secret)
        \/ \E c \in Calls : /\ call[c].do \in {"create", "done create"} /\ call[c].here
                            /\ call[c].secret = draft.secret
CopiesLoose ==
    \A c \in Calls : call[c].do = "copy" =>
        /\ \A i \in EntryIds : ~Filed(i, call[c].secret)
        /\ draft.secret # call[c].secret
        /\ \A d \in Calls \ {c} : call[d].do = "copy" => call[d].secret # call[c].secret
\* Who but its own request knows the id of an entry that is being created: nobody.
KnownBut(c, i) ==
    \/ i \in DOMAIN table \/ i \in DOMAIN entries \/ draft.of = i
    \/ i \in DOMAIN call[c].snapshot
    \/ \E d \in Calls \ {c} : \/ call[d].do = "clipboard" /\ call[d].id = i
                              \/ \E s \in 0..MaxSecrets : Carried(d, i, s)
CreateAlone == \A c \in Calls : call[c].do = "create" => ~KnownBut(c, call[c].id)

PwInv ==
    /\ PwTyped /\ OneSave /\ AllHere /\ InOrder /\ WillList
    /\ FiledHome /\ DraftLoose /\ CopiesLoose /\ CreateAlone /\ OneArmed

-----------------------------------------------------------------------------
\* What a vault is made of.
LEMMA VaultOf ==
  ASSUME NEW n, NEW m, NEW f \in Vaults(n, m)
  PROVE  /\ DOMAIN f \subseteq 1..n /\ f \in [DOMAIN f -> 0..m]
         /\ \A i \in DOMAIN f : i \in 1..n /\ f[i] \in 0..m
<1>1. PICK S \in SUBSET (1..n) : f \in [S -> 0..m]
  BY DEF Vaults
<1> QED
  BY <1>1

\* And what makes one.
LEMMA VaultFrom ==
  ASSUME NEW n, NEW m, NEW S \in SUBSET (1..n), NEW f \in [S -> 0..m]
  PROVE  f \in Vaults(n, m)
BY DEF Vaults

\* A vault stays one when more ids and secrets are made.
LEMMA VaultsGrow ==
  ASSUME NEW n \in Nat, NEW m \in Nat, NEW n2 \in Nat, NEW m2 \in Nat, n <= n2, m <= m2,
         NEW f \in Vaults(n, m)
  PROVE  f \in Vaults(n2, m2)
<1>1. DOMAIN f \subseteq 1..n /\ f \in [DOMAIN f -> 0..m] /\ \A i \in DOMAIN f : f[i] \in 0..m
  BY VaultOf
<1>2. DOMAIN f \subseteq 1..n2
  BY <1>1
<1>3. \A i \in DOMAIN f : f[i] \in 0..m2
  BY <1>1
<1>4. f \in [DOMAIN f -> 0..m2]
  BY <1>1, <1>3
<1> QED
  BY <1>2, <1>4, VaultFrom

\* A row spliced in, or taken out, leaves a vault.
LEMMA WithVault ==
  ASSUME NEW n, NEW m, NEW f \in Vaults(n, m), NEW i \in 1..n, NEW s \in 0..m
  PROVE  /\ With(f, i, s) \in Vaults(n, m)
         /\ \A j : j \in DOMAIN With(f, i, s) <=> j \in DOMAIN f \/ j = i
         /\ \A j \in DOMAIN With(f, i, s) : With(f, i, s)[j] = IF j = i THEN s ELSE f[j]
<1>1. DOMAIN f \subseteq 1..n /\ \A j \in DOMAIN f : f[j] \in 0..m
  BY VaultOf
<1>2. DOMAIN f \cup {i} \in SUBSET (1..n) /\ With(f, i, s) \in [DOMAIN f \cup {i} -> 0..m]
  BY <1>1 DEF With
<1>3. With(f, i, s) \in Vaults(n, m)
  BY <1>2, VaultFrom
<1> QED
  BY <1>3 DEF With

\* Without a row it is a vault still, of the other rows.
LEMMA WithoutVault ==
  ASSUME NEW n, NEW m, NEW f \in Vaults(n, m), NEW i
  PROVE  Without(f, i) \in Vaults(n, m)
<1>1. DOMAIN f \subseteq 1..n /\ \A j \in DOMAIN f : f[j] \in 0..m
  BY VaultOf
<1>2. DOMAIN f \ {i} \in SUBSET (1..n) /\ Without(f, i) \in [DOMAIN f \ {i} -> 0..m]
  BY <1>1 DEF Without, Restrict
<1> QED
  BY <1>2, VaultFrom

\* Rows that agree but for one entry are the same once it is spliced in.
LEMMA SameSplice ==
  ASSUME NEW f, NEW g, NEW i, NEW s, Without(f, i) = Without(g, i)
  PROVE  With(f, i, s) = With(g, i, s)
<1>1. DOMAIN Without(f, i) = DOMAIN f \ {i} /\ \A j \in DOMAIN f \ {i} : Without(f, i)[j] = f[j]
  BY DEF Without, Restrict
<1>2. DOMAIN Without(g, i) = DOMAIN g \ {i} /\ \A j \in DOMAIN g \ {i} : Without(g, i)[j] = g[j]
  BY DEF Without, Restrict
<1>3. DOMAIN f \cup {i} = DOMAIN g \cup {i} /\ \A j \in DOMAIN f \cup {i} : j # i => f[j] = g[j]
  BY <1>1, <1>2
<1> QED
  BY <1>3 DEF With

\* What a call has, by where it is on its way.
LEMMA Fields ==
  ASSUME NEW n, NEW m, NEW x, CallTyped(x, n, m)
  PROVE  /\ x.do \in {"nothing", "list", "create", "replace", "done create", "done replace", "paste",
                      "done paste", "remove", "done remove", "clipboard", "copy", "listed", "failed"}
         /\ x.do = "nothing" => x = Resting
         /\ x.do # "nothing" => x # Resting /\ x.here \in BOOLEAN
         /\ x.do \in {"create", "replace", "done create", "done replace", "paste", "done paste"} =>
                x.id \in 1..n /\ x.secret \in 0..m
         /\ x.do \in {"create", "replace", "done create", "done replace"} => x.snapshot \in Vaults(n, m)
         /\ x.do \in {"remove", "done remove", "clipboard"} => x.id \in 1..n
         /\ x.do = "copy" => x.secret \in 1..m
         /\ x.do = "listed" => x.entries \in Vaults(n, m)
<1> DEFINE V == Vaults(n, m)
           I == 1..n
           M == 0..m
           M1 == 1..m
<1>1. \/ x = Resting
      \/ x \in [do : {"list"}, here : BOOLEAN]
      \/ x \in [do : {"create", "replace", "done create", "done replace"}, id : I, secret : M,
                snapshot : V, here : BOOLEAN]
      \/ x \in [do : {"paste", "done paste"}, id : I, secret : M, here : BOOLEAN]
      \/ x \in [do : {"remove", "done remove", "clipboard"}, id : I, here : BOOLEAN]
      \/ x \in [do : {"copy"}, secret : M1, here : BOOLEAN]
      \/ x \in [do : {"listed"}, entries : V, here : BOOLEAN]
      \/ x \in [do : {"failed"}, was : {"list", "listed", "create", "replace", "paste", "remove",
                                     "done paste", "done remove"}, here : BOOLEAN]
  BY DEF CallTyped
<1>2. Resting.do = "nothing"
  BY DEF Resting
<1> HIDE DEF V, I, M, M1
<1>3. /\ x.do \in {"nothing", "list", "create", "replace", "done create", "done replace", "paste",
                      "done paste", "remove", "done remove", "clipboard", "copy", "listed", "failed"}
      /\ x.do = "nothing" => x = Resting
      /\ x.do # "nothing" => x # Resting /\ x.here \in BOOLEAN
  BY <1>1, <1>2
<1>4. /\ x.do \in {"create", "replace", "done create", "done replace", "paste", "done paste"} =>
                x.id \in I /\ x.secret \in M
      /\ x.do \in {"create", "replace", "done create", "done replace"} => x.snapshot \in V
      /\ x.do \in {"remove", "done remove", "clipboard"} => x.id \in I
      /\ x.do = "copy" => x.secret \in M1
      /\ x.do = "listed" => x.entries \in V
  BY <1>1, <1>2
<1> QED
  BY <1>3, <1>4 DEF V, I, M, M1

\* A call keeps its type when more ids and secrets are made.
LEMMA CallsGrow ==
  ASSUME NEW n \in Nat, NEW m \in Nat, NEW n2 \in Nat, NEW m2 \in Nat, n <= n2, m <= m2,
         NEW x, CallTyped(x, n, m)
  PROVE  CallTyped(x, n2, m2)
<1>1. 1..n \subseteq 1..n2 /\ 0..m \subseteq 0..m2 /\ 1..m \subseteq 1..m2
  OBVIOUS
<1>2. Vaults(n, m) \subseteq Vaults(n2, m2)
  BY VaultsGrow
<1> DEFINE V == Vaults(n, m)   V2 == Vaults(n2, m2)
           I == 1..n    I2 == 1..n2
           M == 0..m    M2 == 0..m2
           M1 == 1..m   M12 == 1..m2
<1> HIDE DEF V, V2, I, I2, M, M2, M1, M12
<1>3. I \subseteq I2 /\ M \subseteq M2 /\ M1 \subseteq M12 /\ V \subseteq V2
  BY <1>1, <1>2 DEF V, V2, I, I2, M, M2, M1, M12
<1> QED
  BY <1>3 DEF CallTyped, V, V2, I, I2, M, M2, M1, M12

-----------------------------------------------------------------------------
\* How far the ids and secrets go.
LEMMA Bounds ==
  ASSUME PwTyped
  PROVE  /\ MaxEntryIds \in Nat /\ MaxSecrets \in Nat /\ entry_ids \in Nat /\ secrets \in Nat
         /\ entry_ids <= MaxEntryIds /\ secrets <= MaxSecrets
         /\ draft.of \in Int /\ draft.of <= entry_ids /\ draft.secret \in Nat /\ draft.secret <= secrets
         /\ draft.secret # 0 => draft.secret \in 1..MaxSecrets
<1>1. MaxEntryIds \in Nat /\ MaxSecrets \in Nat
  BY PasswordsAssumption
<1>2. entry_ids \in 0..MaxEntryIds /\ secrets \in 0..MaxSecrets
  BY DEF PwTyped
<1>3. draft.of \in -1..entry_ids /\ draft.secret \in 0..secrets
  BY DEF PwTyped
<1> QED
  BY <1>1, <1>2, <1>3

\* The calls of the others are left alone by a step of one.
LEMMA OthersRest ==
  ASSUME PwTyped, NEW c \in Calls, NEW x, call' = [call EXCEPT ![c] = x]
  PROVE  DOMAIN call' = Calls /\ call'[c] = x /\ \A d \in Calls \ {c} : call'[d] = call[d]
BY DEF PwTyped

\* The types, conjunct by conjunct.
LEMMA TypedStep ==
  ASSUME PwTyped, entry_ids' \in Nat, secrets' \in Nat,
         entry_ids <= entry_ids', entry_ids' <= MaxEntryIds, secrets <= secrets', secrets' <= MaxSecrets,
         table' \in Vaults(entry_ids', secrets'), entries' \in Vaults(entry_ids', secrets'),
         draft' = draft \/ draft' \in [of : -1..entry_ids', secret : 0..secrets'],
         busy' \in BOOLEAN, arming' \in 0..entry_ids', arming_paste' \in 0..entry_ids',
         DOMAIN call' = Calls,
         \A c \in Calls : call'[c] = call[c] \/ CallTyped(call'[c], entry_ids', secrets'),
         meant' \in [1..MaxSecrets -> Nat], odd' \subseteq {"splice", "overtaken", "lost", "left"}
  PROVE  PwTyped'
<1>1. entry_ids \in Nat /\ secrets \in Nat
  BY PasswordsAssumption DEF PwTyped
<1>2. ASSUME NEW c \in Calls PROVE CallTyped(call'[c], entry_ids', secrets')
  <2>1. CallTyped(call[c], entry_ids, secrets)
    BY DEF PwTyped
  <2>2. CallTyped(call[c], entry_ids', secrets')
    BY <1>1, <2>1, CallsGrow
  <2> QED
    BY <2>2
<1>3. draft' \in [of : -1..entry_ids', secret : 0..secrets']
  BY <1>1 DEF PwTyped
<1>4. entry_ids' \in 0..MaxEntryIds /\ secrets' \in 0..MaxSecrets
  BY PasswordsAssumption
<1> QED
  BY <1>2, <1>3, <1>4 DEF PwTyped

\* What the rows were, they are when more ids and secrets are made.
LEMMA RowsGrow ==
  ASSUME PwTyped, entry_ids' \in Nat, secrets' \in Nat, entry_ids <= entry_ids', secrets <= secrets'
  PROVE  /\ table \in Vaults(entry_ids', secrets') /\ entries \in Vaults(entry_ids', secrets')
         /\ arming \in 0..entry_ids' /\ arming_paste \in 0..entry_ids'
         /\ draft.of \in -1..entry_ids' /\ draft.secret \in 0..secrets'
<1>1. entry_ids \in Nat /\ secrets \in Nat
  BY PasswordsAssumption DEF PwTyped
<1>2. table \in Vaults(entry_ids, secrets) /\ entries \in Vaults(entry_ids, secrets)
  BY DEF PwTyped
<1>3. table \in Vaults(entry_ids', secrets') /\ entries \in Vaults(entry_ids', secrets')
  BY <1>1, <1>2, VaultsGrow
<1> QED
  BY <1>1, <1>3 DEF PwTyped

\* A step that saves nothing new leaves the one save what it was.
LEMMA SaveKept ==
  ASSUME OneSave, busy' = busy, \A c \in Calls : Saving(c)' => Saving(c)
  PROVE  OneSave'
BY DEF OneSave

\* A step that answers nothing and takes no answer keeps their order.
LEMMA OrderKept ==
  ASSUME InOrder, served' = served, overtaken' = overtaken, odd \subseteq odd',
         \A c \in Calls : HasAnswer(c)' <=> HasAnswer(c)
  PROVE  InOrder'
<1>1. /\ \A c, d \in Calls : <<c, d>> \in served' => HasAnswer(c)' /\ HasAnswer(d)' /\ c # d
      /\ \A c \in overtaken' : c \in Calls /\ HasAnswer(c)'
      /\ served' \subseteq Calls \X Calls
  BY DEF InOrder
<1>2. "lost" \notin odd' => \A c, d \in Calls : HasAnswer(c)' /\ HasAnswer(d)' /\ c # d =>
                                <<c, d>> \in served' \/ <<d, c>> \in served'
  BY DEF InOrder
<1> QED
  BY <1>1, <1>2 DEF InOrder

\* What the screen will list is what it was when the lists and saves answered, and the order
\* among them, are left alone.
LEMMA WillListKept ==
  ASSUME WillList, table' = table, entries' = entries, odd \subseteq odd', RefreshDue => RefreshDue',
         \A c \in Calls : /\ Lists(c)' <=> Lists(c)
                          /\ Saves(c)' <=> Saves(c)
                          /\ Lists(c) \/ Saves(c) => call'[c] = call[c]
                          /\ c \in overtaken /\ (Lists(c) \/ Saves(c)) => c \in overtaken',
         overtaken \subseteq Calls,
         \A c, d \in Calls : (Lists(c) \/ Saves(c)) /\ (Lists(d) \/ Saves(d)) =>
                                 (<<c, d>> \in served' <=> <<c, d>> \in served)
  PROVE  WillList'
<1> SUFFICES ASSUME odd' = {}, ~RefreshDue', ~FoldLate'
             PROVE  /\ (\A c \in Calls : ~Lists(c)') => Spliced(entries, {d \in Calls : Saves(d)})'
                    /\ \A c \in Calls : Lists(c)' /\ (\A d \in Calls : Lists(d)' => <<c, d>> \notin served') =>
                           Spliced(call[c].entries, {d \in Calls : Saves(d) /\ <<c, d>> \in served})'
  BY DEF WillList
<1>1. odd = {} /\ ~RefreshDue
  OBVIOUS
<1>2. ~FoldLate
  BY DEF FoldLate
<1>3. {d \in Calls : Saves(d)}' = {d \in Calls : Saves(d)}
  OBVIOUS
<1>4. \A late \in SUBSET {d \in Calls : Saves(d)} :
         \A f : Spliced(f, late) => /\ late = {} => f = table'
                                    /\ \A c \in late : With(f, call'[c].id, call'[c].secret) = table'
  BY DEF Spliced
<1>5. ASSUME \A c \in Calls : ~Lists(c)' PROVE Spliced(entries, {d \in Calls : Saves(d)})'
  <2>1. Spliced(entries, {d \in Calls : Saves(d)})
    BY <1>1, <1>2, <1>5 DEF WillList
  <2> QED
    BY <1>3, <1>4, <2>1 DEF Spliced
<1>6. ASSUME NEW c \in Calls, Lists(c)', \A d \in Calls : Lists(d)' => <<c, d>> \notin served'
      PROVE  Spliced(call[c].entries, {d \in Calls : Saves(d) /\ <<c, d>> \in served})'
  <2>1. Lists(c) /\ \A d \in Calls : Lists(d) => <<c, d>> \notin served
    BY <1>6
  <2>2. Spliced(call[c].entries, {d \in Calls : Saves(d) /\ <<c, d>> \in served})
    BY <1>1, <1>2, <2>1 DEF WillList
  <2>3. {d \in Calls : Saves(d) /\ <<c, d>> \in served}' = {d \in Calls : Saves(d) /\ <<c, d>> \in served}
    BY <2>1
  <2>4. call'[c] = call[c]
    BY <2>1
  <2> QED
    BY <1>4, <2>2, <2>3, <2>4 DEF Spliced
<1> QED
  BY <1>5, <1>6

\* A step that files nothing new leaves every secret at home.
LEMMA HomeKept ==
  ASSUME FiledHome, odd \subseteq odd', meant' = meant,
         \A i \in EntryIds, s \in 1..MaxSecrets : Filed(i, s)' => Filed(i, s),
         draft' = draft \/ draft'.of \in {Nowhere, NoEntry}
  PROVE  FiledHome'
<1> SUFFICES ASSUME "lost" \notin odd'
             PROVE  /\ \A i \in EntryIds, s \in 1..MaxSecrets : Filed(i, s)' => meant'[s] = i
                    /\ draft'.of > 0 /\ draft'.secret # 0 => meant'[draft'.secret] = draft'.of
  BY DEF FiledHome
<1>1. /\ \A i \in EntryIds, s \in 1..MaxSecrets : Filed(i, s) => meant[s] = i
      /\ draft.of > 0 /\ draft.secret # 0 => meant[draft.secret] = draft.of
  BY DEF FiledHome
<1> QED
  BY <1>1 DEF Nowhere, NoEntry

\* And leaves the secrets loose that belong to no entry yet.
LEMMA LooseKept ==
  ASSUME PwTyped, DraftLoose, odd \subseteq odd',
         \A i \in EntryIds, s \in 1..MaxSecrets : Filed(i, s)' => Filed(i, s),
         draft' = draft \/ draft'.of # NoEntry,
         "lost" \notin odd' /\ draft' = draft => \A c \in Calls :
             call[c].do \in {"create", "done create"} /\ call[c].here /\ call[c].secret = draft.secret =>
                 /\ call'[c].do \in {"create", "done create"} /\ call'[c].here
                 /\ call'[c].secret = call[c].secret
  PROVE  DraftLoose'
<1>2. draft.secret # 0 => draft.secret \in 1..MaxSecrets
  BY Bounds
<1> SUFFICES ASSUME "lost" \notin odd', draft'.of = NoEntry, draft'.secret # 0
             PROVE  \/ \A i \in EntryIds : ~Filed(i, draft.secret)'
                    \/ \E c \in Calls : /\ call'[c].do \in {"create", "done create"} /\ call'[c].here
                                        /\ call'[c].secret = draft'.secret
  BY DEF DraftLoose
<1>1. draft' = draft /\ "lost" \notin odd
  OBVIOUS
<1>3. CASE \A i \in EntryIds : ~Filed(i, draft.secret)
  <2>1. \A i \in EntryIds, s \in {draft.secret} : ~Filed(i, s)'
    BY <1>1, <1>2, <1>3
  <2>2. \A i \in EntryIds : ~Filed(i, draft.secret)'
    BY <1>1, <2>1 DEF Filed
  <2> QED
    BY <2>2
<1>4. CASE \E c \in Calls : /\ call[c].do \in {"create", "done create"} /\ call[c].here
                            /\ call[c].secret = draft.secret
  BY <1>1, <1>4
<1> QED
  BY <1>1, <1>3, <1>4 DEF DraftLoose

\* And the secrets on their way to the clipboard that no entry holds.
LEMMA CopiesKept ==
  ASSUME PwTyped, CopiesLoose,
         \A i \in EntryIds, s \in 1..MaxSecrets : Filed(i, s)' => Filed(i, s),
         draft' = draft \/ draft'.secret = 0,
         \A c \in Calls : call'[c].do = "copy" => call[c].do = "copy" /\ call'[c].secret = call[c].secret
  PROVE  CopiesLoose'
<1>1. ASSUME NEW c \in Calls, call'[c].do = "copy"
      PROVE  /\ \A i \in EntryIds : ~Filed(i, call[c].secret)'
             /\ draft'.secret # call'[c].secret
             /\ \A d \in Calls \ {c} : call'[d].do = "copy" => call'[d].secret # call'[c].secret
  <2>1. call[c].do = "copy" /\ call'[c].secret = call[c].secret
    BY <1>1
  <2>2. CallTyped(call[c], entry_ids, secrets) /\ secrets \in Nat /\ secrets <= MaxSecrets
    BY PasswordsAssumption DEF PwTyped
  <2>3. call[c].secret \in 1..secrets
    BY <2>1, <2>2, Fields
  <2>4. call[c].secret \in 1..MaxSecrets
    BY <2>2, <2>3, PasswordsAssumption
  <2>5. \A i \in EntryIds, s \in {call[c].secret} : ~Filed(i, s)'
    BY <2>1, <2>4 DEF CopiesLoose
  <2>6. \A i \in EntryIds : ~Filed(i, call[c].secret)'
    BY <2>1, <2>5 DEF Filed
  <2> QED
    BY <2>1, <2>4, <2>6 DEF CopiesLoose
<1> QED
  BY <1>1 DEF CopiesLoose

\* A step that creates nothing and tells nobody leaves a new id its own.
LEMMA AloneKept ==
  ASSUME CreateAlone,
         \A c \in Calls : call'[c].do = "create" =>
             /\ call[c].do = "create" /\ call'[c].id = call[c].id
             /\ KnownBut(c, call[c].id)' => KnownBut(c, call[c].id)
  PROVE  CreateAlone'
BY DEF CreateAlone

\* A call before its request goes out, or with one that nobody answered yet.
LEMMA AwayStep ==
  ASSUME InOrder, WillList, OneSave, NEW c \in Calls,
         \A d \in Calls \ {c} : call'[d] = call[d],
         call[c].do \in {"nothing", "clipboard", "copy"},
         call'[c].do \in {"nothing", "clipboard", "copy", "remove", "paste", "create", "replace"},
         UNCHANGED <<table, entries, served, overtaken, odd>>
  PROVE  /\ InOrder' /\ WillList'
         /\ busy' = busy /\ call'[c].do \notin {"create", "replace"} => OneSave'
<1>1. InOrder'
  <2>1. \A d \in Calls : HasAnswer(d)' <=> HasAnswer(d)
    BY DEF HasAnswer
  <2> QED
    BY <2>1, OrderKept
<1>2. WillList'
  <2>1. \A d \in Calls : /\ Lists(d)' <=> Lists(d)
                         /\ Saves(d)' <=> Saves(d)
                         /\ Lists(d) \/ Saves(d) => call'[d] = call[d]
                         /\ d \in overtaken /\ (Lists(d) \/ Saves(d)) => d \in overtaken'
    BY DEF Lists, Saves
  <2>2. RefreshDue => RefreshDue'
    BY DEF RefreshDue
  <2>3. overtaken \subseteq Calls
    BY DEF InOrder
  <2> QED
    BY <2>1, <2>2, <2>3, WillListKept
<1>3. ASSUME busy' = busy, call'[c].do \notin {"create", "replace"} PROVE OneSave'
  <2>1. \A d \in Calls : Saving(d)' => Saving(d)
    BY <1>3 DEF Saving
  <2> QED
    BY <1>3, <2>1, SaveKept
<1> QED
  BY <1>1, <1>2, <1>3

\* The server answers: the newest answer comes after all the others.
LEMMA ReplyOrder ==
  ASSUME InOrder, NEW c \in Calls,
         \A d \in Calls \ {c} : call'[d] = call[d], ~HasAnswer(c), HasAnswer(c)',
         served' = served \cup {<<d, c>> : d \in {d \in Calls : HasAnswer(d)}},
         UNCHANGED <<overtaken, odd>>
  PROVE  InOrder'
<1>1. \A d \in Calls : HasAnswer(d)' <=> HasAnswer(d) \/ d = c
  BY DEF HasAnswer
<1>2. \A a, b \in Calls : <<a, b>> \in served' <=> <<a, b>> \in served \/ (b = c /\ HasAnswer(a))
  OBVIOUS
<1>3. \A a, b \in Calls : <<a, b>> \in served' => HasAnswer(a)' /\ HasAnswer(b)' /\ a # b
  BY <1>1, <1>2 DEF InOrder
<1>4. \A a \in overtaken' : a \in Calls /\ HasAnswer(a)'
  BY <1>1 DEF InOrder
<1>5. served' \subseteq Calls \X Calls
  BY DEF InOrder
<1>6. "lost" \notin odd' => \A a, b \in Calls : HasAnswer(a)' /\ HasAnswer(b)' /\ a # b =>
                                <<a, b>> \in served' \/ <<b, a>> \in served'
  BY <1>1, <1>2 DEF InOrder
<1> QED
  BY <1>3, <1>4, <1>5, <1>6 DEF InOrder

\* An answer is taken: it leaves the order.
LEMMA TakenOrder ==
  ASSUME InOrder, NEW c \in Calls, Taken(c), odd \subseteq odd',
         \A d \in Calls \ {c} : call'[d] = call[d], ~HasAnswer(c)'
  PROVE  /\ InOrder'
         /\ \A a, b \in Calls : <<a, b>> \in served' <=> <<a, b>> \in served /\ c # a /\ c # b
         /\ \A a \in Calls : a \in overtaken' <=> (a \in overtaken \/ <<a, c>> \in served) /\ a # c
<1>1. \A d \in Calls : HasAnswer(d)' <=> HasAnswer(d) /\ d # c
  BY DEF HasAnswer
<1>2. \A a, b \in Calls : <<a, b>> \in served' <=> <<a, b>> \in served /\ c # a /\ c # b
  BY DEF Taken
<1>3. \A a \in Calls : a \in overtaken' <=> (a \in overtaken \/ <<a, c>> \in served) /\ a # c
  BY DEF Taken
<1>4. \A a, b \in Calls : <<a, b>> \in served' => HasAnswer(a)' /\ HasAnswer(b)' /\ a # b
  BY <1>1, <1>2 DEF InOrder
<1>5. \A a \in overtaken' : a \in Calls /\ HasAnswer(a)'
  BY <1>1, <1>3 DEF InOrder, Taken
<1>6. served' \subseteq Calls \X Calls
  BY DEF InOrder, Taken
<1>7. "lost" \notin odd' => \A a, b \in Calls : HasAnswer(a)' /\ HasAnswer(b)' /\ a # b =>
                                <<a, b>> \in served' \/ <<b, a>> \in served'
  BY <1>1, <1>2 DEF InOrder
<1> QED
  BY <1>2, <1>3, <1>4, <1>5, <1>6, <1>7 DEF InOrder

\* What is filed after a step of c was filed before, when table, rows and what c carries were.
LEMMA FiledLess ==
  ASSUME NEW c \in Calls, \A d \in Calls \ {c} : call'[d] = call[d],
         \A i \in EntryIds, s \in 1..MaxSecrets :
             /\ i \in DOMAIN table' /\ table'[i] = s => Filed(i, s)
             /\ i \in DOMAIN entries' /\ entries'[i] = s => Filed(i, s)
             /\ Carried(c, i, s)' => Filed(i, s)
  PROVE  \A i \in EntryIds, s \in 1..MaxSecrets : Filed(i, s)' => Filed(i, s)
<1> SUFFICES ASSUME NEW i \in EntryIds, NEW s \in 1..MaxSecrets, Filed(i, s)' PROVE Filed(i, s)
  OBVIOUS
<1>1. \A d \in Calls \ {c} : Carried(d, i, s)' => Carried(d, i, s)
  BY DEF Carried
<1>2. \/ i \in DOMAIN table' /\ table'[i] = s
      \/ i \in DOMAIN entries' /\ entries'[i] = s
      \/ \E d \in Calls : Carried(d, i, s)'
  BY DEF Filed
<1>3. ASSUME NEW d \in Calls, Carried(d, i, s)' PROVE Filed(i, s)
  <2>1. CASE d = c
    BY <1>3, <2>1
  <2>2. CASE d # c
    BY <1>1, <1>3, <2>2 DEF Filed
  <2> QED
    BY <2>1, <2>2
<1> QED
  BY <1>2, <1>3

\* Who knows an id after a step of c knew it before, when table, rows, form and c did.
LEMMA KnownLess ==
  ASSUME NEW c \in Calls, \A d \in Calls \ {c} : call'[d] = call[d], NEW b \in Calls \ {c}, NEW i,
         i \in DOMAIN table' => KnownBut(b, i),
         i \in DOMAIN entries' => KnownBut(b, i),
         draft'.of = i => KnownBut(b, i),
         call'[c].do = "clipboard" /\ call'[c].id = i => KnownBut(b, i),
         \A s \in 0..MaxSecrets : Carried(c, i, s)' => KnownBut(b, i)
  PROVE  KnownBut(b, i)' => KnownBut(b, i)
<1> SUFFICES ASSUME KnownBut(b, i)' PROVE KnownBut(b, i)
  OBVIOUS
<1>1. \A d \in Calls \ {c} : \A s \in 0..MaxSecrets : Carried(d, i, s)' => Carried(d, i, s)
  BY DEF Carried
<1>2. \/ i \in DOMAIN table' \/ i \in DOMAIN entries' \/ draft'.of = i
      \/ i \in DOMAIN call'[b].snapshot
      \/ \E d \in Calls \ {b} : \/ call'[d].do = "clipboard" /\ call'[d].id = i
                                \/ \E s \in 0..MaxSecrets : Carried(d, i, s)'
  BY DEF KnownBut
<1>3. i \in DOMAIN call'[b].snapshot => KnownBut(b, i)
  BY DEF KnownBut
<1>4. ASSUME NEW d \in Calls \ {b}, call'[d].do = "clipboard" /\ call'[d].id = i
      PROVE  KnownBut(b, i)
  <2>1. CASE d = c
    BY <1>4, <2>1
  <2>2. CASE d # c
    BY <1>4, <2>2 DEF KnownBut
  <2> QED
    BY <2>1, <2>2
<1>5. ASSUME NEW d \in Calls \ {b}, NEW s \in 0..MaxSecrets, Carried(d, i, s)'
      PROVE  KnownBut(b, i)
  <2>1. CASE d = c
    BY <1>5, <2>1
  <2>2. CASE d # c
    BY <1>1, <1>5, <2>2 DEF KnownBut
  <2> QED
    BY <2>1, <2>2
<1> QED
  BY <1>2, <1>3, <1>4, <1>5

\* Who is told of an entry it knows of learns no new id.
LEMMA Knows ==
  ASSUME NEW b \in Calls, NEW i, NEW c \in Calls \ {b}, NEW s \in 0..MaxSecrets, Carried(c, i, s)
  PROVE  KnownBut(b, i)
BY DEF KnownBut

\* A step in the form alone: what is filed, known and answered stays.
LEMMA FormFrame ==
  ASSUME PwInv, UNCHANGED <<table, entries, call, served, overtaken, odd>>
  PROVE  /\ AllHere' /\ InOrder' /\ WillList'
         /\ busy' = busy => OneSave'
         /\ \A i \in EntryIds, s \in 1..MaxSecrets : Filed(i, s)' => Filed(i, s)
         /\ (\A b \in Calls : call[b].do = "create" => draft'.of # call[b].id) => CreateAlone'
<1>1. AllHere' /\ InOrder' /\ WillList'
  <2>1. AllHere'
    BY DEF PwInv, AllHere
  <2>2. InOrder'
    BY DEF PwInv, InOrder, HasAnswer
  <2>3. WillList'
    BY DEF PwInv, WillList, RefreshDue, FoldLate, Lists, Saves, Spliced
  <2> QED
    BY <2>1, <2>2, <2>3
<1>2. busy' = busy => OneSave'
  <2>1. \A c \in Calls : Saving(c)' => Saving(c)
    BY DEF Saving
  <2> QED
    BY <2>1, SaveKept DEF PwInv
<1>4. \A c, i, s : Carried(c, i, s)' <=> Carried(c, i, s)
  BY DEF Carried
<1>5. \A i \in EntryIds, s \in 1..MaxSecrets : Filed(i, s)' => Filed(i, s)
  BY <1>4 DEF Filed
<1>6. (\A b \in Calls : call[b].do = "create" => draft'.of # call[b].id) => CreateAlone'
  BY <1>4 DEF PwInv, CreateAlone, KnownBut
<1> QED
  BY <1>1, <1>2, <1>5, <1>6

-----------------------------------------------------------------------------
(***************************************************************************)
(* The form.                                                                 *)
(***************************************************************************)

\* What is filed are secrets made, under ids minted.
LEMMA FiledBounded ==
  ASSUME PwTyped, NEW i, NEW s, Filed(i, s)
  PROVE  i \in 1..entry_ids /\ s \in 0..secrets
<1>1. /\ table \in Vaults(entry_ids, secrets) /\ entries \in Vaults(entry_ids, secrets)
      /\ \A c \in Calls : CallTyped(call[c], entry_ids, secrets)
  BY DEF PwTyped
<1>2. CASE i \in DOMAIN table /\ table[i] = s
  BY <1>1, <1>2, VaultOf
<1>3. CASE i \in DOMAIN entries /\ entries[i] = s
  BY <1>1, <1>3, VaultOf
<1>4. ASSUME NEW c \in Calls, Carried(c, i, s) PROVE i \in 1..entry_ids /\ s \in 0..secrets
  <2>1. CallTyped(call[c], entry_ids, secrets)
    BY <1>1
  <2>2. CASE /\ call[c].do \in {"create", "replace", "paste", "done create", "done replace", "done paste"}
             /\ call[c].id = i /\ call[c].secret = s
    BY <2>1, <2>2, Fields
  <2>3. CASE /\ call[c].do \in {"create", "replace", "done create", "done replace"}
             /\ i \in DOMAIN call[c].snapshot /\ call[c].snapshot[i] = s
    <3>1. call[c].snapshot \in Vaults(entry_ids, secrets)
      BY <2>1, <2>3, Fields
    <3> QED
      BY <2>3, <3>1, VaultOf
  <2>4. CASE call[c].do = "listed" /\ i \in DOMAIN call[c].entries /\ call[c].entries[i] = s
    <3>1. call[c].entries \in Vaults(entry_ids, secrets)
      BY <2>1, <2>4, Fields
    <3> QED
      BY <2>4, <3>1, VaultOf
  <2> QED
    BY <1>4, <2>2, <2>3, <2>4 DEF Carried
<1> QED
  BY <1>2, <1>3, <1>4 DEF Filed

\* What is copied is a secret made.
LEMMA CopiesBounded ==
  ASSUME PwTyped, NEW c \in Calls, call[c].do = "copy"
  PROVE  call[c].secret \in 1..secrets
BY Fields DEF PwTyped

\* The form is emptied: what was in it is nowhere filed by that.
LEMMA ShutStep ==
  ASSUME PwInv, UNCHANGED <<table, entries, busy, arming, arming_paste, call, served, overtaken,
                            entry_ids, secrets, meant, odd>>,
         draft' \in [of : {Nowhere, NoEntry}, secret : {0}]
  PROVE  PwInv'
<1>1. PwTyped /\ entry_ids \in Nat /\ secrets \in Nat /\ entry_ids <= MaxEntryIds /\ secrets <= MaxSecrets
  BY Bounds DEF PwInv
<1>2. PwTyped'
  <2>1. draft' \in [of : -1..entry_ids, secret : 0..secrets]
    BY <1>1 DEF Nowhere, NoEntry
  <2> QED
    BY <1>1, <2>1 DEF PwTyped
<1>3. /\ AllHere' /\ InOrder' /\ WillList' /\ OneSave'
      /\ \A i \in EntryIds, s \in 1..MaxSecrets : Filed(i, s)' => Filed(i, s)
  BY FormFrame
<1>4. \A b \in Calls : call[b].do = "create" => draft'.of # call[b].id
  <2>1. \A b \in Calls : call[b].do = "create" => call[b].id \in 1..entry_ids
    BY <1>1, Fields DEF PwTyped
  <2> QED
    BY <1>1, <2>1 DEF Nowhere, NoEntry
<1>5. CreateAlone'
  BY <1>4, FormFrame
<1>6. FiledHome'
  BY <1>3, HomeKept DEF PwInv
<1>7. DraftLoose'
  BY DEF DraftLoose
<1>8. CopiesLoose'
  <2>1. \A c \in Calls : call'[c].do = "copy" => call[c].do = "copy" /\ call'[c].secret = call[c].secret
    OBVIOUS
  <2> QED
    BY <1>1, <1>3, <2>1, CopiesKept DEF PwInv
<1>9. OneArmed'
  BY DEF PwInv, OneArmed
<1> QED
  BY <1>2, <1>3, <1>5, <1>6, <1>7, <1>8, <1>9 DEF PwInv

\* A form is opened for a new entry, or closed.
LEMMA OpenCloseStep ==
  ASSUME PwInv, start_new \/ close_draft
  PROVE  PwInv'
<1>1. CASE start_new
  <2>1. draft' = [of |-> NoEntry, secret |-> 0]
        /\ UNCHANGED <<table, entries, busy, arming, arming_paste, call, served, overtaken,
                       entry_ids, secrets, meant, odd>>
    BY <1>1 DEF start_new
  <2> QED
    BY <2>1, ShutStep
<1>2. CASE close_draft
  <2>1. draft' = Shut
        /\ UNCHANGED <<table, entries, busy, arming, arming_paste, call, served, overtaken,
                       entry_ids, secrets, meant, odd>>
    BY <1>2 DEF close_draft
  <2> QED
    BY <2>1, ShutStep DEF Shut
<1> QED
  BY <1>1, <1>2

\* A form is opened for a row.
LEMMA StartEditStep ==
  ASSUME PwInv, NEW id \in EntryIds, start_edit(id)
  PROVE  PwInv'
<1>1. /\ id \in DOMAIN entries /\ draft' = [of |-> id, secret |-> entries[id]]
      /\ UNCHANGED <<table, entries, busy, arming, arming_paste, call, served, overtaken,
                     entry_ids, secrets, asked, meant, odd>>
  BY DEF start_edit
<1>2. PwTyped /\ entry_ids \in Nat /\ secrets \in Nat /\ secrets <= MaxSecrets /\ MaxSecrets \in Nat
  BY Bounds DEF PwInv
<1>3. id \in 1..entry_ids /\ entries[id] \in 0..secrets
  <2>1. entries \in Vaults(entry_ids, secrets)
    BY <1>2 DEF PwTyped
  <2> QED
    BY <1>1, <2>1, VaultOf
<1>4. PwTyped'
  <2>1. draft' \in [of : -1..entry_ids, secret : 0..secrets]
    BY <1>1, <1>2, <1>3
  <2> QED
    BY <1>1, <1>2, <2>1 DEF PwTyped
<1>5. /\ AllHere' /\ InOrder' /\ WillList' /\ OneSave'
      /\ \A i \in EntryIds, s \in 1..MaxSecrets : Filed(i, s)' => Filed(i, s)
  BY <1>1, FormFrame
<1>6. \A b \in Calls : call[b].do = "create" => draft'.of # call[b].id
  BY <1>1 DEF PwInv, CreateAlone, KnownBut
<1>7. CreateAlone'
  BY <1>1, <1>6, FormFrame
<1>8. Filed(id, entries[id])
  BY <1>1 DEF Filed
<1>9. FiledHome'
  <2>1. "lost" \notin odd => \A i \in EntryIds, s \in 1..MaxSecrets : Filed(i, s) => meant[s] = i
    BY DEF PwInv, FiledHome
  <2>2. "lost" \notin odd /\ entries[id] # 0 => meant[entries[id]] = id
    BY <1>2, <1>3, <1>8, <2>1
  <2>3. "lost" \notin odd' => \A i \in EntryIds, s \in 1..MaxSecrets : Filed(i, s)' => meant'[s] = i
    BY <1>1, <1>5, <2>1
  <2>4. "lost" \notin odd' => (draft'.of > 0 /\ draft'.secret # 0 => meant'[draft'.secret] = draft'.of)
    BY <1>1, <2>2
  <2> QED
    BY <2>3, <2>4 DEF FiledHome
<1>10. DraftLoose'
  <2>1. draft'.of # NoEntry
    BY <1>1, <1>3 DEF NoEntry
  <2> QED
    BY <2>1 DEF DraftLoose
<1>11. CopiesLoose'
  <2>1. ASSUME NEW c \in Calls, call[c].do = "copy"
        PROVE  /\ \A i \in EntryIds : ~Filed(i, call[c].secret)'
               /\ draft'.secret # call'[c].secret
               /\ \A d \in Calls \ {c} : call'[d].do = "copy" => call'[d].secret # call'[c].secret
    <3>1. call[c].secret \in 1..secrets
      BY <1>2, <2>1, CopiesBounded
    <3>2. \A i \in EntryIds : ~Filed(i, call[c].secret)
      BY <2>1 DEF PwInv, CopiesLoose
    <3>3. \A i \in EntryIds, s \in {call[c].secret} : ~Filed(i, s)'
      BY <1>2, <1>5, <3>1, <3>2
    <3>4. \A i \in EntryIds : ~Filed(i, call[c].secret)'
      BY <1>1, <3>3 DEF Filed
    <3>5. draft'.secret # call'[c].secret
      BY <1>1, <1>8, <3>2
    <3> QED
      BY <1>1, <2>1, <3>4, <3>5 DEF PwInv, CopiesLoose
  <2> QED
    BY <1>1, <2>1 DEF CopiesLoose
<1>12. OneArmed'
  BY <1>1 DEF PwInv, OneArmed
<1> QED
  BY <1>4, <1>5, <1>7, <1>9, <1>10, <1>11, <1>12 DEF PwInv


-----------------------------------------------------------------------------
(***************************************************************************)
(* Secrets and clicks.                                                       *)
(***************************************************************************)

\* A secret just made is nowhere, and is typed for the entry it was made for.
LEMMA FreshSecret ==
  ASSUME PwTyped, NEW id \in Nat, secrets < MaxSecrets, secrets' = secrets + 1,
         meant' = [meant EXCEPT ![secrets'] = id]
  PROVE  /\ secrets' \in 1..MaxSecrets /\ meant' \in [1..MaxSecrets -> Nat] /\ meant'[secrets'] = id
         /\ \A i, s : Filed(i, s) => s # secrets'
         /\ \A s : s # secrets' => meant'[s] = meant[s]
         /\ draft.secret # secrets' /\ \A c \in Calls : call[c].do = "copy" => call[c].secret # secrets'
<1>1. secrets \in Nat /\ MaxSecrets \in Nat /\ draft.secret \in Nat /\ draft.secret <= secrets
  BY Bounds
<1>2. PICK n \in Nat : n = secrets' /\ n \in 1..MaxSecrets /\ n > secrets
  BY <1>1
<1>3. meant \in [1..MaxSecrets -> Nat]
  BY DEF PwTyped
<1>4. meant' \in [1..MaxSecrets -> Nat] /\ meant'[n] = id /\ \A s : s # n => meant'[s] = meant[s]
  BY <1>2, <1>3
<1>5. \A i, s : Filed(i, s) => s # n
  BY <1>1, <1>2, FiledBounded
<1>6. \A c \in Calls : call[c].do = "copy" => call[c].secret # n
  BY <1>1, <1>2, CopiesBounded
<1> QED
  BY <1>1, <1>2, <1>4, <1>5, <1>6

\* A secret is typed or generated for the form.
LEMMA GenerateStep ==
  ASSUME PwInv, generate
  PROVE  PwInv'
<1>1. /\ draft.of # Nowhere /\ ~busy /\ secrets < MaxSecrets /\ secrets' = secrets + 1
      /\ meant' = [meant EXCEPT ![secrets'] = draft.of]
      /\ draft' = [draft EXCEPT !.secret = secrets']
      /\ UNCHANGED <<table, entries, busy, arming, arming_paste, call, served, overtaken,
                     entry_ids, asked, odd>>
  BY DEF generate, Fresh
<1>2. PwTyped /\ entry_ids \in Nat /\ secrets \in Nat /\ secrets <= MaxSecrets /\ MaxSecrets \in Nat
      /\ entry_ids <= MaxEntryIds /\ MaxEntryIds \in Nat
  BY Bounds DEF PwInv
<1>3. draft \in [of : -1..entry_ids, secret : 0..secrets]
  BY <1>2 DEF PwTyped
<1>4. draft.of \in Nat /\ draft'.of = draft.of /\ draft'.secret = secrets'
      /\ draft' \in [of : -1..entry_ids', secret : 0..secrets']
  BY <1>1, <1>2, <1>3 DEF Nowhere
<1>5. /\ secrets' \in 1..MaxSecrets /\ meant' \in [1..MaxSecrets -> Nat] /\ meant'[secrets'] = draft.of
      /\ \A i, s : Filed(i, s) => s # secrets'
      /\ \A s : s # secrets' => meant'[s] = meant[s]
      /\ \A c \in Calls : call[c].do = "copy" => call[c].secret # secrets'
  BY <1>1, <1>2, <1>4, FreshSecret
<1>6. PwTyped'
  <2>1. entry_ids' \in Nat /\ secrets' \in Nat /\ entry_ids <= entry_ids' /\ secrets <= secrets'
        /\ entry_ids' <= MaxEntryIds /\ secrets' <= MaxSecrets
    BY <1>1, <1>2
  <2>2. /\ table' \in Vaults(entry_ids', secrets') /\ entries' \in Vaults(entry_ids', secrets')
        /\ arming' \in 0..entry_ids' /\ arming_paste' \in 0..entry_ids'
    BY <1>1, <1>2, <2>1, RowsGrow
  <2>3. busy' \in BOOLEAN /\ DOMAIN call' = Calls /\ odd' \subseteq {"splice", "overtaken", "lost", "left"}
        /\ \A c \in Calls : call'[c] = call[c]
    BY <1>1, <1>2 DEF PwTyped
  <2> QED
    BY <1>2, <1>4, <1>5, <2>1, <2>2, <2>3, TypedStep
<1>7. /\ AllHere' /\ InOrder' /\ WillList' /\ OneSave'
      /\ \A i \in EntryIds, s \in 1..MaxSecrets : Filed(i, s)' => Filed(i, s)
  BY <1>1, FormFrame
<1>8. CreateAlone'
  <2>1. \A b \in Calls : call[b].do = "create" => draft'.of # call[b].id
    BY <1>4 DEF PwInv, CreateAlone, KnownBut
  <2> QED
    BY <1>1, <2>1, FormFrame
<1>9. FiledHome'
  <2>1. "lost" \notin odd => \A i \in EntryIds, s \in 1..MaxSecrets : Filed(i, s) => meant[s] = i
    BY DEF PwInv, FiledHome
  <2>2. "lost" \notin odd' => \A i \in EntryIds, s \in 1..MaxSecrets : Filed(i, s)' => meant'[s] = i
    BY <1>1, <1>5, <1>7, <2>1
  <2>3. draft'.of > 0 /\ draft'.secret # 0 => meant'[draft'.secret] = draft'.of
    BY <1>4, <1>5
  <2> QED
    BY <2>2, <2>3 DEF FiledHome
<1>10. DraftLoose'
  <2>1. \A i \in EntryIds, s \in {secrets'} : ~Filed(i, s)'
    BY <1>5, <1>7
  <2>2. \A i \in EntryIds : ~Filed(i, draft.secret)'
    BY <1>4, <2>1 DEF Filed
  <2> QED
    BY <2>2 DEF DraftLoose
<1>11. CopiesLoose'
  <2>1. ASSUME NEW c \in Calls, call[c].do = "copy"
        PROVE  /\ \A i \in EntryIds : ~Filed(i, call[c].secret)'
               /\ draft'.secret # call'[c].secret
               /\ \A d \in Calls \ {c} : call'[d].do = "copy" => call'[d].secret # call'[c].secret
    <3>1. call[c].secret \in 1..MaxSecrets
      BY <1>2, <2>1, CopiesBounded
    <3>2. \A i \in EntryIds : ~Filed(i, call[c].secret)
      BY <2>1 DEF PwInv, CopiesLoose
    <3>3. \A i \in EntryIds, s \in {call[c].secret} : ~Filed(i, s)'
      BY <1>7, <3>1, <3>2
    <3>4. \A i \in EntryIds : ~Filed(i, call[c].secret)'
      BY <1>1, <3>3 DEF Filed
    <3>5. draft'.secret # call'[c].secret
      BY <1>1, <1>4, <1>5, <2>1
    <3> QED
      BY <1>1, <2>1, <3>4, <3>5 DEF PwInv, CopiesLoose
  <2> QED
    BY <1>1, <2>1 DEF CopiesLoose
<1>12. OneArmed'
  BY <1>1 DEF PwInv, OneArmed
<1> QED
  BY <1>6, <1>7, <1>8, <1>9, <1>10, <1>11, <1>12 DEF PwInv

\* A removal or a paste is armed: the other one is not.
LEMMA FirstClickStep ==
  ASSUME PwInv, NEW id \in EntryIds, NEW p \in BOOLEAN, FirstClick(id, p)
  PROVE  PwInv'
<1>1. /\ id \in DOMAIN entries
      /\ arming' = (IF p THEN NoEntry ELSE id) /\ arming_paste' = (IF p THEN id ELSE NoEntry)
      /\ UNCHANGED <<table, entries, draft, busy, call, served, overtaken, entry_ids, secrets,
                     asked, meant, odd>>
  BY DEF FirstClick, Arm
<1>2. PwTyped /\ entry_ids \in Nat
  BY Bounds DEF PwInv
<1>3. id \in 1..entry_ids
  BY <1>1, <1>2, VaultOf DEF PwTyped
<1>4. PwTyped'
  <2>1. {arming', arming_paste'} \subseteq 0..entry_ids
    BY <1>1, <1>2, <1>3 DEF NoEntry
  <2> QED
    BY <1>1, <1>2, <2>1 DEF PwTyped
<1>5. /\ AllHere' /\ InOrder' /\ WillList' /\ OneSave'
      /\ \A i \in EntryIds, s \in 1..MaxSecrets : Filed(i, s)' => Filed(i, s)
  BY <1>1, FormFrame
<1>6. CreateAlone'
  <2>1. \A b \in Calls : call[b].do = "create" => draft'.of # call[b].id
    BY <1>1 DEF PwInv, CreateAlone, KnownBut
  <2> QED
    BY <1>1, <2>1, FormFrame
<1>7. FiledHome'
  BY <1>1, <1>5, HomeKept DEF PwInv
<1>8. DraftLoose'
  BY <1>1, <1>2, <1>5, LooseKept DEF PwInv
<1>9. CopiesLoose'
  BY <1>1, <1>2, <1>5, CopiesKept DEF PwInv
<1>10. OneArmed'
  BY <1>1 DEF OneArmed
<1> QED
  BY <1>4, <1>5, <1>6, <1>7, <1>8, <1>9, <1>10 DEF PwInv

-----------------------------------------------------------------------------
(***************************************************************************)
(* What a click starts, and the clipboard.                                   *)
(***************************************************************************)

\* What stays when a call of the screen goes its way and nobody has answered it.
LEMMA AwayFrame ==
  ASSUME PwInv, NEW c \in Calls, NEW x, call' = [call EXCEPT ![c] = x],
         call[c].do \in {"nothing", "clipboard", "copy"},
         x.do \in {"nothing", "clipboard", "copy", "remove", "paste", "create", "replace"},
         x = Resting \/ x.here \/ (call[c] # Resting /\ x.here = call[c].here),
         UNCHANGED <<table, entries, served, overtaken, odd>>
  PROVE  /\ DOMAIN call' = Calls /\ call'[c] = x /\ \A d \in Calls \ {c} : call'[d] = call[d]
         /\ InOrder' /\ WillList' /\ AllHere'
         /\ busy' = busy /\ x.do \notin {"create", "replace"} => OneSave'
<1>1. DOMAIN call' = Calls /\ call'[c] = x /\ \A d \in Calls \ {c} : call'[d] = call[d]
  BY OthersRest DEF PwInv
<1>2. /\ InOrder' /\ WillList'
      /\ busy' = busy /\ x.do \notin {"create", "replace"} => OneSave'
  BY <1>1, AwayStep DEF PwInv
<1>3. AllHere'
  BY <1>1 DEF PwInv, AllHere
<1> QED
  BY <1>1, <1>2, <1>3

\* fast: the secret made is on its way to the clipboard, and nowhere else.
LEMMA FastStep ==
  ASSUME PwInv, NEW c \in Calls, fast(c)
  PROVE  PwInv'
<1> DEFINE x == [do |-> "copy", secret |-> secrets', here |-> TRUE]
<1>1. /\ draft.of = Nowhere /\ secrets < MaxSecrets /\ secrets' = secrets + 1
      /\ meant' = [meant EXCEPT ![secrets'] = NoEntry]
      /\ call[c] = Resting /\ call' = [call EXCEPT ![c] = x]
      /\ UNCHANGED <<table, entries, draft, busy, arming, arming_paste, served, overtaken, entry_ids, odd>>
  BY DEF fast, Fresh, Start, screen
<1>2. x.do = "copy" /\ x.secret = secrets' /\ x.here /\ call[c].do = "nothing"
  BY <1>1 DEF Resting
<1>3. x \in [do : {"copy"}, secret : {secrets'}, here : BOOLEAN]
  OBVIOUS
<1> HIDE DEF x
<1>4. PwTyped /\ entry_ids \in Nat /\ secrets \in Nat /\ secrets <= MaxSecrets /\ MaxSecrets \in Nat
      /\ entry_ids <= MaxEntryIds /\ MaxEntryIds \in Nat
  BY Bounds DEF PwInv
<1>5. /\ secrets' \in 1..MaxSecrets /\ meant' \in [1..MaxSecrets -> Nat]
      /\ \A i, s : Filed(i, s) => s # secrets'
      /\ \A s : s # secrets' => meant'[s] = meant[s]
      /\ draft.secret # secrets' /\ \A d \in Calls : call[d].do = "copy" => call[d].secret # secrets'
  <2>1. NoEntry \in Nat
    BY DEF NoEntry
  <2> QED
    BY <1>1, <1>4, <2>1, FreshSecret
<1>6. /\ DOMAIN call' = Calls /\ call'[c] = x /\ \A d \in Calls \ {c} : call'[d] = call[d]
      /\ InOrder' /\ WillList' /\ AllHere' /\ OneSave'
  BY <1>1, <1>2, AwayFrame
<1>7. PwTyped'
  <2>1. entry_ids' \in Nat /\ secrets' \in Nat /\ entry_ids <= entry_ids' /\ secrets <= secrets'
        /\ entry_ids' <= MaxEntryIds /\ secrets' <= MaxSecrets
    BY <1>1, <1>4
  <2>2. /\ table' \in Vaults(entry_ids', secrets') /\ entries' \in Vaults(entry_ids', secrets')
        /\ arming' \in 0..entry_ids' /\ arming_paste' \in 0..entry_ids'
    BY <1>1, <1>4, <2>1, RowsGrow
  <2>3. busy' \in BOOLEAN /\ odd' \subseteq {"splice", "overtaken", "lost", "left"}
    BY <1>1, <1>4 DEF PwTyped
  <2>4. CallTyped(x, entry_ids', secrets')
    <3>1. secrets' \in 1..secrets'
      BY <1>1, <1>4
    <3> QED
      BY <1>3, <3>1 DEF CallTyped
  <2>5. \A d \in Calls : call'[d] = call[d] \/ CallTyped(call'[d], entry_ids', secrets')
    BY <1>6, <2>4
  <2> QED
    BY <1>1, <1>4, <1>5, <1>6, <2>1, <2>2, <2>3, <2>5, TypedStep
<1>8. \A i \in EntryIds, s \in 1..MaxSecrets : Filed(i, s)' => Filed(i, s)
  <2>1. \A i, s : ~Carried(c, i, s)'
    BY <1>2, <1>6 DEF Carried
  <2> QED
    BY <1>1, <1>6, <2>1, FiledLess DEF Filed
<1>9. FiledHome'
  <2>1. "lost" \notin odd => \A i \in EntryIds, s \in 1..MaxSecrets : Filed(i, s) => meant[s] = i
    BY DEF PwInv, FiledHome
  <2>2. "lost" \notin odd' => \A i \in EntryIds, s \in 1..MaxSecrets : Filed(i, s)' => meant'[s] = i
    BY <1>1, <1>5, <1>8, <2>1
  <2>3. ~(draft'.of > 0)
    BY <1>1 DEF Nowhere
  <2> QED
    BY <2>2, <2>3 DEF FiledHome
<1>10. DraftLoose'
  <2>1. draft'.of # NoEntry
    BY <1>1 DEF Nowhere, NoEntry
  <2> QED
    BY <2>1 DEF DraftLoose
<1>11. CopiesLoose'
  <2>1. ASSUME NEW d \in Calls, call'[d].do = "copy"
        PROVE  /\ \A i \in EntryIds : ~Filed(i, call[d].secret)'
               /\ draft'.secret # call'[d].secret
               /\ \A e \in Calls \ {d} : call'[e].do = "copy" => call'[e].secret # call'[d].secret
    <3>1. CASE d = c
      <4>1. \A i \in EntryIds, s \in {call'[c].secret} : ~Filed(i, s)'
        BY <1>2, <1>5, <1>6, <1>8
      <4>2. \A i \in EntryIds : ~Filed(i, call[c].secret)'
        BY <4>1 DEF Filed
      <4> QED
        BY <1>1, <1>2, <1>5, <1>6, <3>1, <4>2
    <3>2. CASE d # c
      <4>1. call'[d] = call[d] /\ call[d].do = "copy"
        BY <1>6, <2>1, <3>2
      <4>2. call[d].secret \in 1..MaxSecrets
        BY <1>4, <4>1, CopiesBounded
      <4>3. \A i \in EntryIds, s \in {call'[d].secret} : ~Filed(i, s)'
        BY <1>8, <4>1, <4>2 DEF PwInv, CopiesLoose
      <4>4. \A i \in EntryIds : ~Filed(i, call[d].secret)'
        BY <4>3 DEF Filed
      <4>5. \A e \in Calls \ {d} : call'[e].do = "copy" => call'[e].secret # call'[d].secret
        BY <1>2, <1>5, <1>6, <4>1 DEF PwInv, CopiesLoose
      <4> QED
        BY <1>1, <4>1, <4>4, <4>5 DEF PwInv, CopiesLoose
    <3> QED
      BY <3>1, <3>2
  <2> QED
    BY <2>1 DEF CopiesLoose
<1>12. CreateAlone'
  <2>1. ASSUME NEW b \in Calls, call'[b].do = "create"
        PROVE  /\ call[b].do = "create" /\ call'[b].id = call[b].id
               /\ KnownBut(b, call[b].id)' => KnownBut(b, call[b].id)
    <3>1. b # c /\ call'[b] = call[b]
      BY <1>2, <1>6, <2>1
    <3>2. PICK i : i = call[b].id
      OBVIOUS
    <3>3. \A s \in 0..MaxSecrets : ~Carried(c, i, s)'
      BY <1>2, <1>6 DEF Carried
    <3>4. KnownBut(b, i)' => KnownBut(b, i)
      BY <1>1, <1>2, <1>6, <3>1, <3>3, KnownLess DEF KnownBut
    <3> QED
      BY <2>1, <3>1, <3>2, <3>4 DEF KnownBut
  <2> QED
    BY <2>1, AloneKept DEF PwInv
<1>13. OneArmed'
  BY <1>1 DEF PwInv, OneArmed
<1> QED
  BY <1>6, <1>7, <1>9, <1>10, <1>11, <1>12, <1>13 DEF PwInv

\* The types after a step that makes no id and no secret.
LEMMA PlainTyped ==
  ASSUME PwTyped, UNCHANGED <<entry_ids, secrets, meant>>,
         odd' \subseteq {"splice", "overtaken", "lost", "left"},
         table' \in Vaults(entry_ids, secrets), entries' \in Vaults(entry_ids, secrets),
         busy' \in BOOLEAN, arming' \in {arming, NoEntry}, arming_paste' \in {arming_paste, NoEntry},
         draft' = draft \/ draft' = Shut, DOMAIN call' = Calls,
         \A d \in Calls : call'[d] = call[d] \/ CallTyped(call'[d], entry_ids, secrets)
  PROVE  PwTyped'
<1>1. entry_ids \in Nat /\ secrets \in Nat /\ secrets <= MaxSecrets /\ MaxSecrets \in Nat
      /\ entry_ids <= MaxEntryIds /\ MaxEntryIds \in Nat
  BY Bounds
<1>2. entry_ids' \in Nat /\ secrets' \in Nat /\ entry_ids <= entry_ids' /\ secrets <= secrets'
      /\ entry_ids' <= MaxEntryIds /\ secrets' <= MaxSecrets
  BY <1>1
<1>3. arming' \in 0..entry_ids' /\ arming_paste' \in 0..entry_ids'
  BY <1>1 DEF PwTyped, NoEntry
<1>4. draft' = draft \/ draft' \in [of : -1..entry_ids', secret : 0..secrets']
  BY <1>1 DEF Shut, Nowhere
<1>5. meant' \in [1..MaxSecrets -> Nat]
  BY DEF PwTyped
<1>6. \A d \in Calls : call'[d] = call[d] \/ CallTyped(call'[d], entry_ids', secrets')
  OBVIOUS
<1>7. table' \in Vaults(entry_ids', secrets') /\ entries' \in Vaults(entry_ids', secrets')
  OBVIOUS
<1> QED
  BY <1>2, <1>3, <1>4, <1>5, <1>6, <1>7, TypedStep

\* A form that is shut stands at no row and holds no secret.
LEMMA ShutHas == Shut.of = Nowhere /\ Shut.secret = 0
BY DEF Shut

\* An id being minted into an entry is one.
LEMMA NewIds ==
  ASSUME PwTyped, NEW b \in Calls, call[b].do = "create"
  PROVE  call[b].id \in 1..entry_ids /\ call[b].id \in EntryIds /\ call[b].id # Nowhere /\ call[b].id # NoEntry
<1>1. call[b].id \in 1..entry_ids
  BY Fields DEF PwTyped
<1>2. entry_ids \in Nat /\ entry_ids <= MaxEntryIds /\ MaxEntryIds \in Nat
  BY Bounds
<1> QED
  BY <1>1, <1>2 DEF EntryIds, Nowhere, NoEntry

\* A step of one call that makes no secret, files none anew and tells nobody of a new id.
LEMMA PlainStep ==
  ASSUME PwInv, NEW c \in Calls, NEW x, call' = [call EXCEPT ![c] = x],
         CallTyped(x, entry_ids, secrets), x.do \notin {"copy", "create"},
         UNCHANGED <<entry_ids, secrets, meant>>,
         odd \subseteq odd', odd' \subseteq {"splice", "overtaken", "lost", "left"},
         table' \in Vaults(entry_ids, secrets), entries' \in Vaults(entry_ids, secrets),
         busy' \in BOOLEAN, arming' \in {arming, NoEntry}, arming_paste' \in {arming_paste, NoEntry},
         draft' = draft \/ draft' = Shut,
         \A i \in EntryIds, s \in 1..MaxSecrets :
             /\ i \in DOMAIN table' /\ table'[i] = s => Filed(i, s)
             /\ i \in DOMAIN entries' /\ entries'[i] = s => Filed(i, s)
             /\ Carried(c, i, s)' => Filed(i, s),
         \A b \in Calls \ {c}, i \in EntryIds :
             /\ i \in DOMAIN table' \/ i \in DOMAIN entries' => KnownBut(b, i)
             /\ x.do = "clipboard" /\ x.id = i => KnownBut(b, i)
             /\ \A s \in 0..MaxSecrets : Carried(c, i, s)' => KnownBut(b, i),
         ("lost" \notin odd' /\ draft' = draft /\ draft.of = NoEntry
            /\ call[c].do \in {"create", "done create"} /\ call[c].here) =>
             \/ x.do = "done create" /\ x.here /\ x.secret = call[c].secret
             \/ \A i \in EntryIds, s \in 1..MaxSecrets : s = call[c].secret => ~Filed(i, s)'
  PROVE  /\ PwTyped' /\ FiledHome' /\ DraftLoose' /\ CopiesLoose' /\ CreateAlone' /\ OneArmed'
         /\ DOMAIN call' = Calls /\ call'[c] = x /\ \A d \in Calls \ {c} : call'[d] = call[d]
<1>1. DOMAIN call' = Calls /\ call'[c] = x /\ \A d \in Calls \ {c} : call'[d] = call[d]
  BY OthersRest DEF PwInv
<1>2. PwTyped /\ entry_ids \in Nat /\ secrets \in Nat /\ secrets <= MaxSecrets /\ MaxSecrets \in Nat
      /\ entry_ids <= MaxEntryIds /\ MaxEntryIds \in Nat
  BY Bounds DEF PwInv
<1>3. \A i \in EntryIds, s \in 1..MaxSecrets : Filed(i, s)' => Filed(i, s)
  BY <1>1, FiledLess
<1>4. PwTyped'
  <2>1. \A d \in Calls : call'[d] = call[d] \/ CallTyped(call'[d], entry_ids, secrets)
    BY <1>1
  <2>2. odd' \subseteq {"splice", "overtaken", "lost", "left"} /\ busy' \in BOOLEAN
        /\ table' \in Vaults(entry_ids, secrets) /\ entries' \in Vaults(entry_ids, secrets)
    OBVIOUS
  <2>3. /\ arming' \in {arming, NoEntry} /\ arming_paste' \in {arming_paste, NoEntry}
        /\ draft' = draft \/ draft' = Shut
        /\ UNCHANGED <<entry_ids, secrets, meant>>
    OBVIOUS
  <2> QED
    BY <1>1, <1>2, <2>1, <2>2, <2>3, PlainTyped
<1>5. draft' = draft \/ (draft'.of = Nowhere /\ draft'.secret = 0)
  <2>1. Shut.of = Nowhere /\ Shut.secret = 0
    BY ShutHas
  <2> QED
    BY <2>1, Zenon
<1>6. FiledHome'
  BY <1>3, <1>5, HomeKept DEF PwInv
<1>7. DraftLoose'
  <2> SUFFICES ASSUME "lost" \notin odd', draft'.of = NoEntry, draft'.secret # 0
               PROVE  \/ \A i \in EntryIds : ~Filed(i, draft.secret)'
                      \/ \E d \in Calls : /\ call'[d].do \in {"create", "done create"} /\ call'[d].here
                                          /\ call'[d].secret = draft'.secret
    BY DEF DraftLoose
  <2>1. draft' = draft /\ "lost" \notin odd
    BY <1>5
  <2>2. draft.secret \in 1..MaxSecrets
    BY <1>2, <2>1, Bounds
  <2>3. CASE \A i \in EntryIds : ~Filed(i, draft.secret)
    <3>1. \A i \in EntryIds, s \in {draft'.secret} : ~Filed(i, s)'
      BY <1>3, <2>1, <2>2, <2>3
    <3> QED
      BY <3>1 DEF Filed
  <2>4. CASE \E d \in Calls : /\ call[d].do \in {"create", "done create"} /\ call[d].here
                              /\ call[d].secret = draft.secret
    <3>1. PICK d \in Calls : /\ call[d].do \in {"create", "done create"} /\ call[d].here
                             /\ call[d].secret = draft.secret
      BY <2>4
    <3>2. CASE d # c
      BY <1>1, <2>1, <3>1, <3>2
    <3>3. CASE d = c /\ x.do = "done create" /\ x.here /\ x.secret = call[c].secret
      BY <1>1, <2>1, <3>1, <3>3
    <3>4. CASE \A i \in EntryIds, s \in 1..MaxSecrets : s = call[d].secret => ~Filed(i, s)'
      <4>1. \A i \in EntryIds, s \in {draft'.secret} : ~Filed(i, s)'
        BY <2>1, <2>2, <3>1, <3>4
      <4> QED
        BY <4>1 DEF Filed
    <3> QED
      BY <2>1, <3>1, <3>2, <3>3, <3>4
  <2> QED
    BY <2>1, <2>3, <2>4 DEF PwInv, DraftLoose
<1>8. CopiesLoose'
  <2>1. \A d \in Calls : call'[d].do = "copy" => call[d].do = "copy" /\ call'[d].secret = call[d].secret
    BY <1>1
  <2> QED
    BY <1>2, <1>3, <1>5, <2>1, CopiesKept DEF PwInv
<1>9. CreateAlone'
  <2>1. ASSUME NEW b \in Calls, call'[b].do = "create"
        PROVE  /\ call[b].do = "create" /\ call'[b].id = call[b].id
               /\ KnownBut(b, call[b].id)' => KnownBut(b, call[b].id)
    <3>1. b # c /\ call'[b] = call[b]
      BY <1>1, <2>1
    <3>2. PICK i : i = call[b].id
      OBVIOUS
    <3>4. i \in EntryIds /\ i # Nowhere
      BY <1>2, <2>1, <3>1, <3>2, NewIds
    <3>5. draft'.of = i => KnownBut(b, i)
      <4>1. draft.of = i => KnownBut(b, i)
        BY DEF KnownBut
      <4> QED
        BY <1>5, <3>4, <4>1
    <3>6. KnownBut(b, i)' => KnownBut(b, i)
      BY <1>1, <3>1, <3>4, <3>5, KnownLess
    <3> QED
      BY <2>1, <3>1, <3>2, <3>6 DEF KnownBut
  <2> QED
    BY <2>1, AloneKept DEF PwInv
<1>10. OneArmed'
  BY DEF PwInv, OneArmed
<1> QED
  BY <1>1, <1>4, <1>6, <1>7, <1>8, <1>9, <1>10

\* A removal goes out, or a paste asks for the clipboard.
LEMMA ArmedStep ==
  ASSUME PwInv, NEW c \in Calls, NEW id \in EntryIds, remove(c, id) \/ paste(c, id)
  PROVE  PwInv'
<1>1. PICK what \in {"remove", "clipboard"} :
        /\ id \in DOMAIN entries /\ call[c] = Resting
        /\ arming' \in {arming, NoEntry} /\ arming_paste' \in {arming_paste, NoEntry}
        /\ call' = [call EXCEPT ![c] = [do |-> what, id |-> id, here |-> TRUE]]
        /\ UNCHANGED <<table, entries, draft, busy, served, overtaken, entry_ids, secrets, meant, odd>>
  BY DEF remove, paste, Start
<1> DEFINE x == [do |-> what, id |-> id, here |-> TRUE]
<1>2. x.do = what /\ x.id = id /\ x.here /\ call[c].do = "nothing"
  BY <1>1 DEF Resting
<1>3. PwTyped
  BY DEF PwInv
<1>4. id \in 1..entry_ids
  <2>1. entries \in Vaults(entry_ids, secrets)
    BY <1>3 DEF PwTyped
  <2> QED
    BY <1>1, <2>1, VaultOf
<1>5. x \in [do : {"remove", "done remove", "clipboard"}, id : 1..entry_ids, here : BOOLEAN]
  BY <1>4
<1>6. call' = [call EXCEPT ![c] = x]
  BY <1>1
<1> HIDE DEF x
<1>7. CallTyped(x, entry_ids, secrets)
  BY <1>5 DEF CallTyped
<1>8. /\ DOMAIN call' = Calls /\ call'[c] = x /\ \A d \in Calls \ {c} : call'[d] = call[d]
      /\ InOrder' /\ WillList' /\ AllHere' /\ OneSave'
  BY <1>1, <1>2, <1>6, AwayFrame
<1>9. \A i, s : ~Carried(c, i, s)'
  BY <1>2, <1>8 DEF Carried
<1>10. /\ odd \subseteq odd' /\ odd' \subseteq {"splice", "overtaken", "lost", "left"}
       /\ table' \in Vaults(entry_ids, secrets) /\ entries' \in Vaults(entry_ids, secrets) /\ busy' \in BOOLEAN
  BY <1>1, <1>3 DEF PwTyped
<1>11. \A i \in EntryIds, s \in 1..MaxSecrets :
             /\ i \in DOMAIN table' /\ table'[i] = s => Filed(i, s)
             /\ i \in DOMAIN entries' /\ entries'[i] = s => Filed(i, s)
             /\ Carried(c, i, s)' => Filed(i, s)
  BY <1>1, <1>9 DEF Filed
<1>12. \A b \in Calls \ {c}, i \in EntryIds :
             /\ i \in DOMAIN table' \/ i \in DOMAIN entries' => KnownBut(b, i)
             /\ x.do = "clipboard" /\ x.id = i => KnownBut(b, i)
             /\ \A s \in 0..MaxSecrets : Carried(c, i, s)' => KnownBut(b, i)
  BY <1>1, <1>2, <1>9 DEF KnownBut
<1>13. PwTyped' /\ FiledHome' /\ DraftLoose' /\ CopiesLoose' /\ CreateAlone' /\ OneArmed'
  <2>1. x.do \notin {"copy", "create"} /\ UNCHANGED <<entry_ids, secrets, meant>> /\ draft' = draft
        /\ call[c].do \notin {"create", "done create"}
    BY <1>1, <1>2
  <2> QED
    BY <1>1, <1>6, <1>7, <1>10, <1>11, <1>12, <2>1, PlainStep
<1> QED
  BY <1>8, <1>13 DEF PwInv

\* What kinds of calls carry no secret.
LEMMA CarryNothing ==
  ASSUME NEW c \in Calls,
         call[c].do \in {"nothing", "failed", "list", "remove", "done remove", "clipboard", "copy"}
  PROVE  \A i, s : ~Carried(c, i, s)
BY DEF Carried

\* A call goes on without a secret, the rows and the form stay.
LEMMA QuietStep ==
  ASSUME PwInv, NEW c \in Calls, NEW x, call' = [call EXCEPT ![c] = x],
         CallTyped(x, entry_ids, secrets), x.do \in {"nothing", "failed", "list", "remove", "done remove"},
         UNCHANGED <<table, entries, draft, entry_ids, secrets, meant, arming, arming_paste>>,
         busy' \in BOOLEAN, odd \subseteq odd', odd' \subseteq {"splice", "overtaken", "lost", "left"},
         call[c].do \notin {"create", "done create"} \/ "lost" \in odd'
  PROVE  /\ PwTyped' /\ FiledHome' /\ DraftLoose' /\ CopiesLoose' /\ CreateAlone' /\ OneArmed'
         /\ DOMAIN call' = Calls /\ call'[c] = x /\ \A d \in Calls \ {c} : call'[d] = call[d]
<1>1. DOMAIN call' = Calls /\ call'[c] = x /\ \A d \in Calls \ {c} : call'[d] = call[d]
  BY OthersRest DEF PwInv
<1>2. \A i, s : ~Carried(c, i, s)'
  BY <1>1 DEF Carried
<1>3. \A i \in EntryIds, s \in 1..MaxSecrets :
             /\ i \in DOMAIN table' /\ table'[i] = s => Filed(i, s)
             /\ i \in DOMAIN entries' /\ entries'[i] = s => Filed(i, s)
             /\ Carried(c, i, s)' => Filed(i, s)
  BY <1>2 DEF Filed
<1>4. \A b \in Calls \ {c}, i \in EntryIds :
             /\ i \in DOMAIN table' \/ i \in DOMAIN entries' => KnownBut(b, i)
             /\ x.do = "clipboard" /\ x.id = i => KnownBut(b, i)
             /\ \A s \in 0..MaxSecrets : Carried(c, i, s)' => KnownBut(b, i)
  BY <1>2 DEF KnownBut
<1>5. table' \in Vaults(entry_ids, secrets) /\ entries' \in Vaults(entry_ids, secrets)
  BY DEF PwInv, PwTyped
<1>6. /\ x.do \notin {"copy", "create"} /\ UNCHANGED <<entry_ids, secrets, meant>>
      /\ arming' \in {arming, NoEntry} /\ arming_paste' \in {arming_paste, NoEntry} /\ draft' = draft
  OBVIOUS
<1> QED
  BY <1>3, <1>4, <1>5, <1>6, PlainStep

\* The clipboard has nothing: the paste is over.
LEMMA RefusedStep ==
  ASSUME PwInv, NEW c \in Calls, call[c].do \in {"clipboard", "copy"},
         call' = [call EXCEPT ![c] = Resting],
         UNCHANGED <<table, screen, served, overtaken, entry_ids, secrets, meant, odd>>
  PROVE  PwInv'
<1>1. Resting.do = "nothing" /\ CallTyped(Resting, entry_ids, secrets)
  BY DEF Resting, CallTyped
<1>2. /\ InOrder' /\ WillList' /\ AllHere' /\ OneSave'
  BY <1>1, AwayFrame DEF screen
<1>3. UNCHANGED <<table, entries, draft, entry_ids, secrets, meant, arming, arming_paste, busy, odd>>
  BY DEF screen
<1>4. busy' \in BOOLEAN /\ odd \subseteq odd' /\ odd' \subseteq {"splice", "overtaken", "lost", "left"}
  BY <1>3 DEF PwInv, PwTyped
<1>5. PwTyped' /\ FiledHome' /\ DraftLoose' /\ CopiesLoose' /\ CreateAlone' /\ OneArmed'
  BY <1>1, <1>3, <1>4, QuietStep
<1> QED
  BY <1>2, <1>5 DEF PwInv

\* A fast password opens a form of its own, which holds what nobody else does.
LEMMA CopiedStep ==
  ASSUME PwInv, NEW c \in Calls, Copied(c)
  PROVE  PwInv'
<1>1. /\ call[c].do = "copy" /\ call' = [call EXCEPT ![c] = Resting]
      /\ draft' = draft \/ draft' = [of |-> NoEntry, secret |-> call[c].secret]
      /\ UNCHANGED <<table, entries, busy, arming, arming_paste, served, overtaken, entry_ids,
                     secrets, asked, meant, odd>>
  BY DEF Copied
<1>2. CASE draft' = draft
  BY <1>1, <1>2, RefusedStep DEF screen
<1>3. CASE draft' = [of |-> NoEntry, secret |-> call[c].secret]
  <2>1. Resting.do = "nothing" /\ CallTyped(Resting, entry_ids, secrets)
    BY DEF Resting, CallTyped
  <2>2. PwTyped /\ entry_ids \in Nat /\ secrets \in Nat /\ secrets <= MaxSecrets /\ MaxSecrets \in Nat
        /\ entry_ids <= MaxEntryIds /\ MaxEntryIds \in Nat
    BY Bounds DEF PwInv
  <2>3. /\ DOMAIN call' = Calls /\ call'[c] = Resting /\ \A d \in Calls \ {c} : call'[d] = call[d]
        /\ InOrder' /\ WillList' /\ AllHere' /\ OneSave'
    BY <1>1, <2>1, AwayFrame
  <2>4. call[c].secret \in 1..secrets /\ call[c].secret \in 1..MaxSecrets
    BY <1>1, <2>2, CopiesBounded
  <2>5. draft'.of = NoEntry /\ draft'.secret = call[c].secret
    BY <1>3
  <2>6. PwTyped'
    <3>1. draft' \in [of : -1..entry_ids', secret : 0..secrets']
      BY <1>1, <1>3, <2>2, <2>4 DEF NoEntry
    <3>2. \A d \in Calls : CallTyped(call'[d], entry_ids', secrets')
      BY <1>1, <2>1, <2>2, <2>3 DEF PwTyped
    <3> QED
      BY <1>1, <2>2, <2>3, <3>1, <3>2 DEF PwTyped
  <2>7. \A i \in EntryIds, s \in 1..MaxSecrets : Filed(i, s)' => Filed(i, s)
    <3>1. \A i, s : ~Carried(c, i, s)'
      BY <2>1, <2>3 DEF Carried
    <3> QED
      BY <1>1, <2>3, <3>1, FiledLess DEF Filed
  <2>8. FiledHome'
    BY <1>1, <2>5, <2>7, HomeKept DEF PwInv
  <2>9. DraftLoose'
    <3>1. \A i \in EntryIds, s \in {draft'.secret} : ~Filed(i, s)'
      BY <1>1, <2>4, <2>5, <2>7 DEF PwInv, CopiesLoose
    <3>2. \A i \in EntryIds : ~Filed(i, draft.secret)'
      BY <3>1 DEF Filed
    <3> QED
      BY <3>2 DEF DraftLoose
  <2>10. CopiesLoose'
    <3>1. ASSUME NEW d \in Calls, call'[d].do = "copy"
          PROVE  /\ \A i \in EntryIds : ~Filed(i, call[d].secret)'
                 /\ draft'.secret # call'[d].secret
                 /\ \A e \in Calls \ {d} : call'[e].do = "copy" => call'[e].secret # call'[d].secret
      <4>1. d # c /\ call'[d] = call[d] /\ call[d].do = "copy"
        BY <2>1, <2>3, <3>1
      <4>2. call[d].secret \in 1..MaxSecrets
        BY <2>2, <4>1, CopiesBounded
      <4>3. \A i \in EntryIds, s \in {call'[d].secret} : ~Filed(i, s)'
        BY <2>7, <4>1, <4>2 DEF PwInv, CopiesLoose
      <4>4. \A i \in EntryIds : ~Filed(i, call[d].secret)'
        BY <4>3 DEF Filed
      <4>5. \A e \in Calls \ {d} : call'[e].do = "copy" => call'[e].secret # call'[d].secret
        BY <2>1, <2>3, <4>1 DEF PwInv, CopiesLoose
      <4>6. draft'.secret # call'[d].secret
        BY <1>1, <2>5, <4>1 DEF PwInv, CopiesLoose
      <4> QED
        BY <4>4, <4>5, <4>6
    <3> QED
      BY <3>1 DEF CopiesLoose
  <2>11. CreateAlone'
    <3>1. ASSUME NEW b \in Calls, call'[b].do = "create"
          PROVE  /\ call[b].do = "create" /\ call'[b].id = call[b].id
                 /\ KnownBut(b, call[b].id)' => KnownBut(b, call[b].id)
      <4>1. b # c /\ call'[b] = call[b]
        BY <2>1, <2>3, <3>1
      <4>2. PICK i : i = call[b].id
        OBVIOUS
      <4>3. i # draft'.of
        BY <2>2, <2>5, <3>1, <4>1, <4>2, NewIds
      <4>4. \A s \in 0..MaxSecrets : ~Carried(c, i, s)'
        BY <2>1, <2>3 DEF Carried
      <4>5. KnownBut(b, i)' => KnownBut(b, i)
        BY <1>1, <2>1, <2>3, <4>1, <4>3, <4>4, KnownLess DEF KnownBut
      <4> QED
        BY <3>1, <4>1, <4>2, <4>5 DEF KnownBut
    <3> QED
      BY <3>1, AloneKept DEF PwInv
  <2>12. OneArmed'
    BY <1>1 DEF PwInv, OneArmed
  <2> QED
    BY <2>3, <2>6, <2>8, <2>9, <2>10, <2>11, <2>12 DEF PwInv
<1> QED
  BY <1>1, <1>2, <1>3

\* The clipboard answers: what it holds is sealed for the row of the click.
LEMMA ClipboardStep ==
  ASSUME PwInv, NEW c \in Calls, Clipboard(c)
  PROVE  PwInv'
<1>1. call[c].do = "clipboard" /\ UNCHANGED <<table, screen, served, overtaken, entry_ids, asked, odd>>
      /\ \/ call' = [call EXCEPT ![c] = Resting] /\ UNCHANGED <<secrets, meant>>
         \/ /\ Fresh(call[c].id)
            /\ call' = [call EXCEPT ![c] =
                   [do |-> "paste", id |-> call[c].id, secret |-> secrets', here |-> call[c].here]]
  BY DEF Clipboard
<1>2. CASE call' = [call EXCEPT ![c] = Resting] /\ UNCHANGED <<secrets, meant>>
  BY <1>1, <1>2, RefusedStep
<1>3. CASE /\ Fresh(call[c].id)
           /\ call' = [call EXCEPT ![c] =
                  [do |-> "paste", id |-> call[c].id, secret |-> secrets', here |-> call[c].here]]
  <2> DEFINE x == [do |-> "paste", id |-> call[c].id, secret |-> secrets', here |-> call[c].here]
  <2>1. PwTyped /\ entry_ids \in Nat /\ secrets \in Nat /\ secrets <= MaxSecrets /\ MaxSecrets \in Nat
        /\ entry_ids <= MaxEntryIds /\ MaxEntryIds \in Nat
    BY Bounds DEF PwInv
  <2>2. call[c] # Resting /\ call[c].here \in BOOLEAN /\ call[c].id \in 1..entry_ids
    BY <1>1, <2>1, Fields DEF PwTyped
  <2>3. PICK id \in EntryIds : id = call[c].id
    BY <2>1, <2>2 DEF EntryIds
  <2>4. id \in Nat /\ id # NoEntry /\ id # Nowhere
    BY <2>1, <2>2, <2>3 DEF NoEntry, Nowhere
  <2>5. /\ secrets < MaxSecrets /\ secrets' = secrets + 1 /\ meant' = [meant EXCEPT ![secrets'] = id]
        /\ UNCHANGED <<table, entries, draft, busy, arming, arming_paste, served, overtaken, entry_ids, odd>>
    BY <1>1, <1>3, <2>3 DEF Fresh, screen
  <2>6. /\ secrets' \in 1..MaxSecrets /\ meant' \in [1..MaxSecrets -> Nat] /\ meant'[secrets'] = id
        /\ \A i, s : Filed(i, s) => s # secrets'
        /\ \A s : s # secrets' => meant'[s] = meant[s]
        /\ draft.secret # secrets' /\ \A d \in Calls : call[d].do = "copy" => call[d].secret # secrets'
    BY <2>1, <2>4, <2>5, FreshSecret
  <2>7. x.do = "paste" /\ x.id = id /\ x.secret = secrets' /\ x.here = call[c].here
    BY <2>3
  <2>8. x \in [do : {"paste", "done paste"}, id : 1..entry_ids, secret : {secrets'}, here : BOOLEAN]
    BY <2>2
  <2>9. call' = [call EXCEPT ![c] = x]
    BY <1>3
  <2> HIDE DEF x
  <2>10. /\ DOMAIN call' = Calls /\ call'[c] = x /\ \A d \in Calls \ {c} : call'[d] = call[d]
         /\ InOrder' /\ WillList' /\ AllHere' /\ OneSave'
    BY <1>1, <2>2, <2>5, <2>7, <2>9, AwayFrame
  <2>11. PwTyped'
    <3>1. entry_ids' \in Nat /\ secrets' \in Nat /\ entry_ids <= entry_ids' /\ secrets <= secrets'
          /\ entry_ids' <= MaxEntryIds /\ secrets' <= MaxSecrets
      BY <2>1, <2>5
    <3>2. /\ table' \in Vaults(entry_ids', secrets') /\ entries' \in Vaults(entry_ids', secrets')
          /\ arming' \in 0..entry_ids' /\ arming_paste' \in 0..entry_ids'
      BY <2>1, <2>5, <3>1, RowsGrow
    <3>3. busy' \in BOOLEAN /\ odd' \subseteq {"splice", "overtaken", "lost", "left"}
      BY <2>1, <2>5 DEF PwTyped
    <3>4. CallTyped(x, entry_ids', secrets')
      <4>1. secrets' \in 0..secrets'
        BY <3>1
      <4> QED
        BY <2>5, <2>8, <4>1 DEF CallTyped
    <3>5. \A d \in Calls : call'[d] = call[d] \/ CallTyped(call'[d], entry_ids', secrets')
      BY <2>10, <3>4
    <3> QED
      BY <2>1, <2>5, <2>6, <2>10, <3>1, <3>2, <3>3, <3>5, TypedStep
  <2>12. \A i, s : Carried(c, i, s)' => i = id /\ s = secrets'
    BY <2>7, <2>10 DEF Carried
  <2>13. \A i \in EntryIds, s \in 1..MaxSecrets : Filed(i, s)' => Filed(i, s) \/ (i = id /\ s = secrets')
    <3>1. ASSUME NEW i \in EntryIds, NEW s \in 1..MaxSecrets, Filed(i, s)', ~(i = id /\ s = secrets')
          PROVE  Filed(i, s)
      <4>1. \A d \in Calls : Carried(d, i, s)' => Carried(d, i, s)
        <5>1. ~Carried(c, i, s)'
          BY <2>12, <3>1
        <5>2. \A d \in Calls \ {c} : Carried(d, i, s)' => Carried(d, i, s)
          BY <2>10 DEF Carried
        <5> QED
          BY <5>1, <5>2
      <4> QED
        BY <2>5, <3>1, <4>1 DEF Filed
    <3> QED
      BY <3>1
  <2>14. FiledHome'
    <3>1. "lost" \notin odd => /\ \A i \in EntryIds, s \in 1..MaxSecrets : Filed(i, s) => meant[s] = i
                               /\ draft.of > 0 /\ draft.secret # 0 => meant[draft.secret] = draft.of
      BY DEF PwInv, FiledHome
    <3>2. "lost" \notin odd' => \A i \in EntryIds, s \in 1..MaxSecrets : Filed(i, s)' => meant'[s] = i
      BY <2>5, <2>6, <2>13, <3>1
    <3>3. "lost" \notin odd' => (draft'.of > 0 /\ draft'.secret # 0 => meant'[draft'.secret] = draft'.of)
      BY <2>5, <2>6, <3>1
    <3> QED
      BY <3>2, <3>3 DEF FiledHome
  <2>15. DraftLoose'
    <3> SUFFICES ASSUME "lost" \notin odd', draft'.of = NoEntry, draft'.secret # 0
                 PROVE  \/ \A i \in EntryIds : ~Filed(i, draft.secret)'
                        \/ \E d \in Calls : /\ call'[d].do \in {"create", "done create"} /\ call'[d].here
                                            /\ call'[d].secret = draft'.secret
      BY DEF DraftLoose
    <3>1. draft.secret \in 1..MaxSecrets /\ draft'.secret = draft.secret
      BY <2>1, <2>5, Bounds
    <3>2. CASE \A i \in EntryIds : ~Filed(i, draft.secret)
      <4>1. \A i \in EntryIds, s \in {draft'.secret} : ~Filed(i, s)'
        BY <2>6, <2>13, <3>1, <3>2
      <4> QED
        BY <4>1 DEF Filed
    <3>3. CASE \E d \in Calls : /\ call[d].do \in {"create", "done create"} /\ call[d].here
                                /\ call[d].secret = draft.secret
      BY <1>1, <2>10, <3>1, <3>3
    <3> QED
      BY <2>5, <3>2, <3>3 DEF PwInv, DraftLoose
  <2>16. CopiesLoose'
    <3>1. ASSUME NEW d \in Calls, call'[d].do = "copy"
          PROVE  /\ \A i \in EntryIds : ~Filed(i, call[d].secret)'
                 /\ draft'.secret # call'[d].secret
                 /\ \A e \in Calls \ {d} : call'[e].do = "copy" => call'[e].secret # call'[d].secret
      <4>1. d # c /\ call'[d] = call[d] /\ call[d].do = "copy"
        BY <2>7, <2>10, <3>1
      <4>2. call[d].secret \in 1..MaxSecrets
        BY <2>1, <4>1, CopiesBounded
      <4>3. \A i \in EntryIds, s \in {call'[d].secret} : ~Filed(i, s)'
        BY <2>6, <2>13, <4>1, <4>2 DEF PwInv, CopiesLoose
      <4>4. \A i \in EntryIds : ~Filed(i, call[d].secret)'
        BY <4>3 DEF Filed
      <4>5. \A e \in Calls \ {d} : call'[e].do = "copy" => call'[e].secret # call'[d].secret
        BY <2>7, <2>10, <4>1 DEF PwInv, CopiesLoose
      <4>6. draft'.secret # call'[d].secret
        BY <2>5, <4>1 DEF PwInv, CopiesLoose
      <4> QED
        BY <4>4, <4>5, <4>6
    <3> QED
      BY <3>1 DEF CopiesLoose
  <2>17. CreateAlone'
    <3>1. ASSUME NEW b \in Calls, call'[b].do = "create"
          PROVE  /\ call[b].do = "create" /\ call'[b].id = call[b].id
                 /\ KnownBut(b, call[b].id)' => KnownBut(b, call[b].id)
      <4>1. b # c /\ call'[b] = call[b]
        BY <2>7, <2>10, <3>1
      <4>2. PICK i : i = call[b].id
        OBVIOUS
      <4>3. \A s \in 0..MaxSecrets : Carried(c, i, s)' => KnownBut(b, i)
        BY <1>1, <2>3, <2>12, <4>1 DEF KnownBut
      <4>4. KnownBut(b, i)' => KnownBut(b, i)
        BY <2>5, <2>7, <2>10, <4>1, <4>3, KnownLess DEF KnownBut
      <4> QED
        BY <3>1, <4>1, <4>2, <4>4 DEF KnownBut
    <3> QED
      BY <3>1, AloneKept DEF PwInv
  <2>18. OneArmed'
    BY <2>5 DEF PwInv, OneArmed
  <2> QED
    BY <2>10, <2>11, <2>14, <2>15, <2>16, <2>17, <2>18 DEF PwInv
<1> QED
  BY <1>1, <1>2, <1>3

\* A save is started: of the form's entry, or of one just minted.
LEMMA SaveStarts ==
  ASSUME PwInv, NEW c \in Calls, save(c)
  PROVE  /\ draft.of # Nowhere /\ ~busy /\ call[c] = Resting /\ busy' = TRUE
         /\ UNCHANGED <<table, entries, draft, arming, arming_paste, served, overtaken, secrets, odd>>
         /\ \E id \in EntryIds, what \in {"create", "replace"} :
               /\ call' = [call EXCEPT ![c] = [do |-> what, id |-> id, secret |-> draft.secret,
                                               snapshot |-> entries, here |-> TRUE]]
               /\ what = "replace" => id = draft.of /\ draft.of # NoEntry /\ UNCHANGED <<entry_ids, meant>>
               /\ what = "create" =>
                     /\ draft.of = NoEntry /\ entry_ids < MaxEntryIds /\ entry_ids' = entry_ids + 1
                     /\ id = entry_ids'
                     /\ meant' = [s \in DOMAIN meant |-> IF s = draft.secret THEN id ELSE meant[s]]
<1>1. PwTyped /\ entry_ids \in Nat /\ entry_ids <= MaxEntryIds /\ MaxEntryIds \in Nat
      /\ draft.of \in Int /\ draft.of <= entry_ids
  BY Bounds DEF PwInv
<1>2. /\ draft.of # Nowhere /\ ~busy /\ busy' = TRUE
      /\ UNCHANGED <<table, entries, draft, arming, arming_paste, served, overtaken, secrets, odd>>
  BY DEF save
<1>3. CASE draft.of # NoEntry
  <2>1. /\ call[c] = Resting /\ UNCHANGED <<entry_ids, meant>>
        /\ call' = [call EXCEPT ![c] = [do |-> "replace", id |-> draft.of, secret |-> draft.secret,
                                        snapshot |-> entries, here |-> TRUE]]
    BY <1>3 DEF save, Start
  <2>2. draft.of \in -1..entry_ids
    BY <1>1 DEF PwTyped
  <2>3. draft.of \in EntryIds
    BY <1>1, <1>2, <1>3, <2>2 DEF EntryIds, NoEntry, Nowhere
  <2> QED
    BY <1>2, <1>3, <2>1, <2>3
<1>4. CASE draft.of = NoEntry
  <2>1. /\ call[c] = Resting /\ entry_ids < MaxEntryIds /\ entry_ids' = entry_ids + 1
        /\ call' = [call EXCEPT ![c] = [do |-> "create", id |-> entry_ids', secret |-> draft.secret,
                                        snapshot |-> entries, here |-> TRUE]]
        /\ meant' = [s \in DOMAIN meant |-> IF s = draft.secret THEN entry_ids' ELSE meant[s]]
    BY <1>4 DEF save, Start
  <2>2. PICK id \in EntryIds : id = entry_ids'
    BY <1>1, <2>1 DEF EntryIds
  <2> QED
    BY <1>2, <1>4, <2>1, <2>2
<1> QED
  BY <1>3, <1>4

\* save: what is in the form goes out for the entry it was typed for.
LEMMA SaveStep ==
  ASSUME PwInv, NEW c \in Calls, save(c)
  PROVE  PwInv'
<1>1. /\ draft.of # Nowhere /\ ~busy /\ call[c] = Resting /\ busy' = TRUE
      /\ UNCHANGED <<table, entries, draft, arming, arming_paste, served, overtaken, secrets, odd>>
  BY SaveStarts
<1>2. PICK id \in EntryIds, what \in {"create", "replace"} :
         /\ call' = [call EXCEPT ![c] = [do |-> what, id |-> id, secret |-> draft.secret,
                                         snapshot |-> entries, here |-> TRUE]]
         /\ what = "replace" => id = draft.of /\ draft.of # NoEntry /\ UNCHANGED <<entry_ids, meant>>
         /\ what = "create" =>
               /\ draft.of = NoEntry /\ entry_ids < MaxEntryIds /\ entry_ids' = entry_ids + 1
               /\ id = entry_ids'
               /\ meant' = [s \in DOMAIN meant |-> IF s = draft.secret THEN id ELSE meant[s]]
  BY SaveStarts
<1> DEFINE x == [do |-> what, id |-> id, secret |-> draft.secret, snapshot |-> entries, here |-> TRUE]
<1>3. /\ x.do = what /\ x.id = id /\ x.secret = draft.secret /\ x.snapshot = entries /\ x.here = TRUE
      /\ call[c].do = "nothing"
  BY <1>1 DEF Resting
<1>4. x \in [do : {"create", "replace", "done create", "done replace"}, id : {id}, secret : {draft.secret},
             snapshot : {entries}, here : BOOLEAN]
  OBVIOUS
<1>5. call' = [call EXCEPT ![c] = x]
  BY <1>2
<1> HIDE DEF x
<1>6. PwTyped /\ entry_ids \in Nat /\ secrets \in Nat /\ secrets <= MaxSecrets /\ MaxSecrets \in Nat
      /\ entry_ids <= MaxEntryIds /\ MaxEntryIds \in Nat /\ draft.of \in Int /\ draft.of <= entry_ids
      /\ draft.secret \in Nat /\ draft.secret <= secrets
  BY Bounds DEF PwInv
<1>7. draft.secret # 0 => draft.secret \in 1..MaxSecrets
  BY <1>6, Bounds
<1>8. id \in Nat /\ id # NoEntry /\ id # Nowhere
  BY <1>6 DEF EntryIds, NoEntry, Nowhere
<1>9. /\ DOMAIN call' = Calls /\ call'[c] = x /\ \A d \in Calls \ {c} : call'[d] = call[d]
      /\ InOrder' /\ WillList' /\ AllHere'
  BY <1>1, <1>3, <1>5, AwayFrame
<1>10. OneSave'
  <2>1. \A d \in Calls : ~Saving(d)
    BY <1>1 DEF PwInv, OneSave
  <2>2. \A d \in Calls \ {c} : ~Saving(d)'
    BY <1>9, <2>1 DEF Saving
  <2> QED
    BY <1>1, <2>2 DEF OneSave
<1>11. entry_ids' \in Nat /\ entry_ids <= entry_ids' /\ entry_ids' <= MaxEntryIds /\ id \in 1..entry_ids'
  BY <1>2, <1>6, <1>8 DEF EntryIds
<1>12. meant' \in [1..MaxSecrets -> Nat]
  <2>1. meant \in [1..MaxSecrets -> Nat]
    BY <1>6 DEF PwTyped
  <2> QED
    BY <1>2, <1>8, <2>1
<1>13. PwTyped'
  <2>1. secrets' \in Nat /\ secrets <= secrets' /\ secrets' <= MaxSecrets
    BY <1>1, <1>6
  <2>2. /\ table' \in Vaults(entry_ids', secrets') /\ entries' \in Vaults(entry_ids', secrets')
        /\ arming' \in 0..entry_ids' /\ arming_paste' \in 0..entry_ids'
    BY <1>1, <1>6, <1>11, <2>1, RowsGrow
  <2>3. busy' \in BOOLEAN /\ odd' \subseteq {"splice", "overtaken", "lost", "left"}
    BY <1>1, <1>6 DEF PwTyped
  <2>4. CallTyped(x, entry_ids', secrets')
    <3>1. draft.secret \in 0..secrets' /\ entries \in Vaults(entry_ids', secrets')
      BY <1>1, <1>6, <2>2
    <3> QED
      BY <1>4, <1>11, <3>1 DEF CallTyped
  <2>5. \A d \in Calls : call'[d] = call[d] \/ CallTyped(call'[d], entry_ids', secrets')
    BY <1>9, <2>4
  <2>6. draft' = draft
    BY <1>1
  <2> QED
    BY <1>6, <1>9, <1>11, <1>12, <2>1, <2>2, <2>3, <2>5, <2>6, TypedStep
<1>14. \A i, s : Carried(c, i, s)' => (i = id /\ s = draft.secret) \/ (i \in DOMAIN entries /\ entries[i] = s)
  BY <1>3, <1>9 DEF Carried
<1>15. \A i, s : Filed(i, s)' => Filed(i, s) \/ (i = id /\ s = draft.secret)
  <2>1. ASSUME NEW i, NEW s, Filed(i, s)', ~(i = id /\ s = draft.secret)
        PROVE  Filed(i, s)
    <3>1. Carried(c, i, s)' => Filed(i, s)
      BY <1>14, <2>1 DEF Filed
    <3>2. \A d \in Calls \ {c} : Carried(d, i, s)' => Carried(d, i, s)
      BY <1>9 DEF Carried
    <3>3. \A d \in Calls \ {c} : Carried(d, i, s)' => Filed(i, s)
      BY <3>2 DEF Filed
    <3>4. \/ i \in DOMAIN table' /\ table'[i] = s
          \/ i \in DOMAIN entries' /\ entries'[i] = s
          \/ \E d \in Calls : Carried(d, i, s)'
      BY <2>1 DEF Filed
    <3> QED
      BY <1>1, <3>1, <3>3, <3>4 DEF Filed
  <2> QED
    BY <2>1
<1>16. \A d \in Calls : call[d].do \in {"create", "done create"} => ~call[d].here
  <2>1. \A d \in Calls : call[d].do \in {"create", "done create"} /\ call[d].here => Saving(d)
    BY DEF Saving
  <2> QED
    BY <1>1, <2>1 DEF PwInv, OneSave
<1>17. "lost" \notin odd' => \A i \in EntryIds, s \in 1..MaxSecrets : Filed(i, s)' => meant'[s] = i
  <2> SUFFICES ASSUME "lost" \notin odd', NEW i \in EntryIds, NEW s \in 1..MaxSecrets, Filed(i, s)'
               PROVE  meant'[s] = i
    OBVIOUS
  <2>1. Filed(i, s) => meant[s] = i
    BY <1>1 DEF PwInv, FiledHome
  <2>2. meant \in [1..MaxSecrets -> Nat]
    BY <1>6 DEF PwTyped
  <2>3. CASE what = "replace"
    <3>1. draft.of > 0 /\ draft.secret # 0 => meant[draft.secret] = draft.of
      BY <1>1 DEF PwInv, FiledHome
    <3>2. draft.of > 0
      BY <1>1, <1>2, <1>8, <2>3 DEF NoEntry
    <3>3. s = draft.secret => draft.secret # 0
      OBVIOUS
    <3> QED
      BY <1>2, <1>15, <2>1, <2>3, <3>1, <3>2, <3>3
  <2>4. CASE what = "create"
    <3>1. s = draft.secret => ~Filed(i, s)
      <4>1. s # 0 /\ draft.of = NoEntry /\ "lost" \notin odd
        BY <1>1, <1>2, <2>4
      <4>2. DraftLoose
        BY DEF PwInv
      <4>3. draft.secret # 0 => \A j \in EntryIds : ~Filed(j, draft.secret)
        BY <1>16, <4>1, <4>2, Zenon DEF DraftLoose
      <4> QED
        BY <4>1, <4>3, Zenon
    <3>2. meant'[s] = IF s = draft.secret THEN id ELSE meant[s]
      BY <1>2, <2>2, <2>4
    <3> QED
      BY <1>15, <2>1, <3>1, <3>2
  <2> QED
    BY <2>3, <2>4
<1>18. FiledHome'
  <2>1. "lost" \notin odd' => (draft'.of > 0 /\ draft'.secret # 0 => meant'[draft'.secret] = draft'.of)
    <3>1. "lost" \notin odd => (draft.of > 0 /\ draft.secret # 0 => meant[draft.secret] = draft.of)
      BY DEF PwInv, FiledHome
    <3>2. CASE what = "replace"
      BY <1>1, <1>2, <3>1, <3>2
    <3>3. CASE what = "create"
      BY <1>1, <1>2, <3>3 DEF NoEntry
    <3> QED
      BY <3>2, <3>3
  <2> QED
    BY <1>17, <2>1 DEF FiledHome
<1>19. DraftLoose'
  <2>1. CASE what = "replace"
    <3>1. draft'.of # NoEntry
      BY <1>1, <1>2, <2>1
    <3> QED
      BY <3>1 DEF DraftLoose
  <2>2. CASE what = "create"
    <3>1. call'[c].do = "create" /\ call'[c].here /\ call'[c].secret = draft'.secret
      BY <1>1, <1>3, <1>9, <2>2
    <3> QED
      BY <3>1 DEF DraftLoose
  <2> QED
    BY <2>1, <2>2
<1>20. CopiesLoose'
  <2>1. ASSUME NEW d \in Calls, call'[d].do = "copy"
        PROVE  /\ \A i \in EntryIds : ~Filed(i, call[d].secret)'
               /\ draft'.secret # call'[d].secret
               /\ \A e \in Calls \ {d} : call'[e].do = "copy" => call'[e].secret # call'[d].secret
    <3>1. d # c /\ call'[d] = call[d] /\ call[d].do = "copy"
      BY <1>3, <1>9, <2>1
    <3>2. draft.secret # call[d].secret
      BY <3>1 DEF PwInv, CopiesLoose
    <3>3. \A i \in EntryIds, s \in {call'[d].secret} : ~Filed(i, s)'
      BY <1>15, <3>1, <3>2 DEF PwInv, CopiesLoose
    <3>4. \A i \in EntryIds : ~Filed(i, call[d].secret)'
      BY <3>3 DEF Filed
    <3>5. \A e \in Calls \ {d} : call'[e].do = "copy" => call'[e].secret # call'[d].secret
      BY <1>3, <1>9, <3>1 DEF PwInv, CopiesLoose
    <3> QED
      BY <1>1, <3>1, <3>2, <3>4, <3>5
  <2> QED
    BY <2>1 DEF CopiesLoose
<1>21. CreateAlone'
  <2>1. ASSUME NEW b \in Calls \ {c}, call'[b].do = "create"
        PROVE  ~KnownBut(b, call[b].id)'
    <3>1. call'[b] = call[b] /\ call[b].do = "create"
      BY <1>9, <2>1
    <3>2. PICK i : i = call[b].id
      OBVIOUS
    <3>3. i \in 1..entry_ids /\ ~KnownBut(b, i)
      BY <1>6, <3>1, <3>2, NewIds DEF PwInv, CreateAlone
    <3>4. i # id
      <4>1. CASE what = "replace"
        BY <1>2, <3>3, <4>1 DEF KnownBut
      <4>2. CASE what = "create"
        BY <1>2, <1>6, <3>3, <4>2
      <4> QED
        BY <4>1, <4>2
    <3>5. \A s \in 0..MaxSecrets : Carried(c, i, s)' => KnownBut(b, i)
      BY <1>14, <3>4 DEF KnownBut
    <3>6. KnownBut(b, i)' => KnownBut(b, i)
      BY <1>1, <1>3, <1>9, <3>5, KnownLess DEF KnownBut
    <3> QED
      BY <3>1, <3>2, <3>3, <3>6 DEF KnownBut
  <2>2. ASSUME call'[c].do = "create"
        PROVE  ~KnownBut(c, call[c].id)'
    <3>1. what = "create" /\ draft.of = NoEntry /\ id = entry_ids + 1
      BY <1>2, <1>3, <1>9, <2>2
    <3>2. \A i, s : Filed(i, s) => i # id
      BY <1>6, <3>1, FiledBounded
    <3>3. \A f \in {table, entries} : id \notin DOMAIN f
      <4>1. {table, entries} \subseteq Vaults(entry_ids, secrets)
        BY <1>6 DEF PwTyped
      <4> QED
        BY <1>6, <3>1, <4>1, VaultOf
    <3>4. \A d \in Calls \ {c} : call[d].do = "clipboard" => call[d].id # id
      <4>1. \A d \in Calls : call[d].do = "clipboard" => call[d].id \in 1..entry_ids
        BY <1>6, Fields DEF PwTyped
      <4> QED
        BY <1>6, <3>1, <4>1
    <3>5. \A d \in Calls \ {c} : \A s : ~Carried(d, id, s)'
      <4>1. \A d \in Calls \ {c} : \A s : Carried(d, id, s)' => Carried(d, id, s)
        BY <1>9 DEF Carried
      <4>2. \A d \in Calls \ {c} : \A s : Carried(d, id, s) => Filed(id, s)
        BY DEF Filed
      <4> QED
        BY <3>2, <4>1, <4>2
    <3>6. \A i \in {id} : ~KnownBut(c, i)'
      BY <1>1, <1>3, <1>8, <1>9, <3>1, <3>3, <3>4, <3>5 DEF KnownBut
    <3> QED
      BY <1>3, <1>9, <3>6 DEF KnownBut
  <2> QED
    BY <2>1, <2>2 DEF CreateAlone
<1>22. OneArmed'
  BY <1>1 DEF PwInv, OneArmed
<1> QED
  BY <1>9, <1>10, <1>13, <1>18, <1>19, <1>20, <1>21, <1>22 DEF PwInv

-----------------------------------------------------------------------------
(***************************************************************************)
(* The server.                                                               *)
(***************************************************************************)

\* What an answer changes on its way, whatever it says.
LEMMA ReplyFrame ==
  ASSUME PwInv, NEW c \in Calls, NEW x, Reply(c, x), x # Resting,
         call[c].do \in {"list", "create", "replace", "paste", "remove"},
         x.do \in {"listed", "done create", "done replace", "done paste", "done remove", "failed"},
         x.here = call[c].here, x.do = "failed" => x.was = call[c].do,
         x.do \in {"done create", "done replace"} => call[c].do \in {"create", "replace"}
  PROVE  /\ DOMAIN call' = Calls /\ call'[c] = x /\ \A d \in Calls \ {c} : call'[d] = call[d]
         /\ call' = [call EXCEPT ![c] = x]
         /\ UNCHANGED <<entries, draft, busy, arming, arming_paste, overtaken, entry_ids, secrets, meant, odd>>
         /\ busy' \in BOOLEAN /\ odd \subseteq odd' /\ odd' \subseteq {"splice", "overtaken", "lost", "left"}
         /\ InOrder' /\ AllHere' /\ OneSave'
         /\ \A a, b \in Calls : <<a, b>> \in served' <=> <<a, b>> \in served \/ (b = c /\ HasAnswer(a))
         /\ ~HasAnswer(c) /\ c \notin overtaken
<1>1. /\ call' = [call EXCEPT ![c] = x]
      /\ served' = served \cup {<<d, c>> : d \in {d \in Calls : HasAnswer(d)}}
      /\ UNCHANGED <<entries, draft, busy, arming, arming_paste, overtaken, entry_ids, secrets, meant, odd>>
  BY DEF Reply, screen
<1>2. DOMAIN call' = Calls /\ call'[c] = x /\ \A d \in Calls \ {c} : call'[d] = call[d]
  BY <1>1, OthersRest DEF PwInv
<1>3. ~HasAnswer(c) /\ HasAnswer(c)' /\ c \notin overtaken
  BY <1>2 DEF HasAnswer, PwInv, InOrder
<1>4. InOrder'
  BY <1>1, <1>2, <1>3, ReplyOrder DEF PwInv
<1>5. AllHere'
  <2>1. call[c] # Resting
    <3>1. Resting.do = "nothing"
      BY DEF Resting
    <3> QED
      BY <3>1
  <2> QED
    BY <1>1, <1>2, <2>1 DEF PwInv, AllHere
<1>6. OneSave'
  <2>1. Saving(c)' => Saving(c)
    BY <1>2 DEF Saving
  <2>2. \A d \in Calls \ {c} : Saving(d)' => Saving(d)
    BY <1>2 DEF Saving
  <2>3. OneSave /\ busy' = busy
    BY <1>1 DEF PwInv
  <2>4. \A d \in Calls : Saving(d)' => Saving(d)
    BY <2>1, <2>2
  <2> QED
    BY <2>3, <2>4, SaveKept
<1>7. busy' \in BOOLEAN /\ odd \subseteq odd' /\ odd' \subseteq {"splice", "overtaken", "lost", "left"}
  BY <1>1 DEF PwInv, PwTyped
<1>8. \A a, b \in Calls : <<a, b>> \in served' <=> <<a, b>> \in served \/ (b = c /\ HasAnswer(a))
  BY <1>1
<1> QED
  BY <1>1, <1>2, <1>3, <1>4, <1>5, <1>6, <1>7, <1>8

\* A refusal and a loss are answers of the right kind, and so is a success.
LEMMA AnswerTyped ==
  ASSUME PwTyped, NEW c \in Calls
  PROVE  /\ call[c].do \in {"create", "replace", "paste", "remove"} =>
                /\ CallTyped(Error(c), entry_ids, secrets) /\ Error(c) # Resting
                /\ Error(c).do = "failed" /\ Error(c).was = call[c].do /\ Error(c).here = call[c].here
         /\ call[c].do \in {"create", "replace"} =>
                /\ CallTyped(Done(c), entry_ids, secrets) /\ Done(c) # Resting
                /\ Done(c).do = DoneAs[call[c].do] /\ Done(c).do \in {"done create", "done replace"}
                /\ Done(c).do = "done create" <=> call[c].do = "create"
                /\ Done(c).id = call[c].id /\ Done(c).secret = call[c].secret
                /\ Done(c).snapshot = call[c].snapshot /\ Done(c).here = call[c].here
         /\ call[c].do = "paste" =>
                /\ CallTyped(Done(c), entry_ids, secrets) /\ Done(c) # Resting
                /\ Done(c).do = "done paste" /\ Done(c).id = call[c].id
                /\ Done(c).secret = call[c].secret /\ Done(c).here = call[c].here
         /\ call[c].do = "remove" =>
                /\ CallTyped(Done(c), entry_ids, secrets) /\ Done(c) # Resting
                /\ Done(c).do = "done remove" /\ Done(c).here = call[c].here
<1> DEFINE V == Vaults(entry_ids, secrets)
           I == 1..entry_ids
           M == 0..secrets
<1>1. CallTyped(call[c], entry_ids, secrets)
  BY DEF PwTyped
<1>2. Resting.do = "nothing"
  BY DEF Resting
<1>3. ASSUME call[c].do \in {"create", "replace", "paste", "remove"}
      PROVE  /\ CallTyped(Error(c), entry_ids, secrets) /\ Error(c) # Resting
             /\ Error(c).do = "failed" /\ Error(c).was = call[c].do /\ Error(c).here = call[c].here
  <2>1. call[c].here \in BOOLEAN
    BY <1>1, <1>3, Fields
  <2>2. Error(c) \in [do : {"failed"}, was : {"list", "listed", "create", "replace", "paste", "remove",
                                              "done paste", "done remove"}, here : BOOLEAN]
    BY <1>3, <2>1 DEF Error
  <2> QED
    BY <1>2, <2>2 DEF CallTyped, Error
<1>4. ASSUME call[c].do \in {"create", "replace"}
      PROVE  /\ CallTyped(Done(c), entry_ids, secrets) /\ Done(c) # Resting
             /\ Done(c).do = DoneAs[call[c].do] /\ Done(c).do \in {"done create", "done replace"}
             /\ Done(c).do = "done create" <=> call[c].do = "create"
             /\ Done(c).id = call[c].id /\ Done(c).secret = call[c].secret
             /\ Done(c).snapshot = call[c].snapshot /\ Done(c).here = call[c].here
  <2>1. call[c] \in [do : {"create", "replace", "done create", "done replace"}, id : I, secret : M,
                     snapshot : V, here : BOOLEAN]
    BY <1>1, <1>2, <1>4 DEF CallTyped
  <2>2. DoneAs["create"] = "done create" /\ DoneAs["replace"] = "done replace"
    BY DEF DoneAs
  <2> HIDE DEF V, I, M
  <2>3. Done(c) \in [do : {"create", "replace", "done create", "done replace"}, id : I, secret : M,
                     snapshot : V, here : BOOLEAN]
    BY <1>4, <2>1, <2>2 DEF Done
  <2>4. CallTyped(Done(c), entry_ids, secrets)
    BY <2>3 DEF CallTyped, V, I, M
  <2>5. /\ Done(c).do = DoneAs[call[c].do] /\ Done(c).do \in {"done create", "done replace"}
        /\ Done(c).do = "done create" <=> call[c].do = "create"
        /\ Done(c).id = call[c].id /\ Done(c).secret = call[c].secret
        /\ Done(c).snapshot = call[c].snapshot /\ Done(c).here = call[c].here
    BY <1>4, <2>1, <2>2 DEF Done
  <2> QED
    BY <1>2, <2>4, <2>5
<1>5. ASSUME call[c].do = "paste"
      PROVE  /\ CallTyped(Done(c), entry_ids, secrets) /\ Done(c) # Resting
             /\ Done(c).do = "done paste" /\ Done(c).id = call[c].id
             /\ Done(c).secret = call[c].secret /\ Done(c).here = call[c].here
  <2>1. call[c] \in [do : {"paste", "done paste"}, id : I, secret : M, here : BOOLEAN]
    BY <1>1, <1>2, <1>5 DEF CallTyped
  <2>2. DoneAs["paste"] = "done paste"
    BY DEF DoneAs
  <2>3. Done(c) \in [do : {"paste", "done paste"}, id : I, secret : M, here : BOOLEAN]
    BY <1>5, <2>1, <2>2 DEF Done
  <2>4. /\ Done(c).do = "done paste" /\ Done(c).id = call[c].id
        /\ Done(c).secret = call[c].secret /\ Done(c).here = call[c].here
    BY <1>5, <2>1, <2>2 DEF Done
  <2> QED
    BY <1>2, <2>3, <2>4 DEF CallTyped
<1>6. ASSUME call[c].do = "remove"
      PROVE  /\ CallTyped(Done(c), entry_ids, secrets) /\ Done(c) # Resting
             /\ Done(c).do = "done remove" /\ Done(c).here = call[c].here
  <2>1. call[c] \in [do : {"remove", "done remove", "clipboard"}, id : I, here : BOOLEAN]
    BY <1>1, <1>2, <1>6 DEF CallTyped
  <2>2. DoneAs["remove"] = "done remove"
    BY DEF DoneAs
  <2>3. Done(c) \in [do : {"remove", "done remove", "clipboard"}, id : I, here : BOOLEAN]
    BY <1>6, <2>1, <2>2 DEF Done
  <2>4. Done(c).do = "done remove" /\ Done(c).here = call[c].here
    BY <1>6, <2>1, <2>2 DEF Done
  <2> QED
    BY <1>2, <2>3, <2>4 DEF CallTyped
<1> QED
  BY <1>3, <1>4, <1>5, <1>6

\* The list is answered with what the table holds now.
LEMMA ListStep ==
  ASSUME PwInv, NEW c \in Calls, list(c)
  PROVE  PwInv'
<1> DEFINE x == [do |-> "listed", entries |-> table, here |-> call[c].here]
<1>1. call[c].do = "list" /\ Reply(c, x) /\ table' = table
  BY DEF list
<1>2. x.do = "listed" /\ x.entries = table /\ x.here = call[c].here
  OBVIOUS
<1>3. CallTyped(x, entry_ids, secrets) /\ x # Resting
  <2>1. call[c].here \in BOOLEAN /\ table \in Vaults(entry_ids, secrets)
    BY <1>1, Fields DEF PwInv, PwTyped
  <2>2. x \in [do : {"listed"}, entries : Vaults(entry_ids, secrets), here : BOOLEAN]
    BY <2>1
  <2>3. Resting.do = "nothing"
    BY DEF Resting
  <2> QED
    BY <1>2, <2>2, <2>3 DEF CallTyped
<1> HIDE DEF x
<1>4. /\ DOMAIN call' = Calls /\ call'[c] = x /\ \A d \in Calls \ {c} : call'[d] = call[d]
      /\ call' = [call EXCEPT ![c] = x]
      /\ UNCHANGED <<entries, draft, busy, arming, arming_paste, overtaken, entry_ids, secrets, meant, odd>>
      /\ busy' \in BOOLEAN /\ odd \subseteq odd' /\ odd' \subseteq {"splice", "overtaken", "lost", "left"}
      /\ InOrder' /\ AllHere' /\ OneSave'
      /\ \A a, b \in Calls : <<a, b>> \in served' <=> <<a, b>> \in served \/ (b = c /\ HasAnswer(a))
      /\ ~HasAnswer(c) /\ c \notin overtaken
  BY <1>1, <1>2, <1>3, ReplyFrame
<1>5. WillList'
  <2> SUFFICES ASSUME odd' = {}
               PROVE  /\ (\A e \in Calls : ~Lists(e)') => Spliced(entries, {d \in Calls : Saves(d)})'
                      /\ \A e \in Calls : Lists(e)' /\ (\A d \in Calls : Lists(d)' => <<e, d>> \notin served') =>
                           Spliced(call[e].entries, {d \in Calls : Saves(d) /\ <<e, d>> \in served})'
    BY DEF WillList
  <2>1. Lists(c)' /\ ~Saves(c)'
    BY <1>2, <1>4 DEF Lists, Saves
  <2>2. ASSUME NEW e \in Calls, Lists(e)', \A d \in Calls : Lists(d)' => <<e, d>> \notin served'
        PROVE  Spliced(call[e].entries, {d \in Calls : Saves(d) /\ <<e, d>> \in served})'
    <3>1. e = c
      <4>1. SUFFICES ASSUME e # c PROVE FALSE
        OBVIOUS
      <4>2. HasAnswer(e)
        BY <1>4, <2>2, <4>1 DEF Lists, HasAnswer
      <4> QED
        BY <1>4, <2>1, <2>2, <4>2
    <3>2. \A d \in Calls : <<c, d>> \notin served'
      <4>1. \A d \in Calls : <<c, d>> \notin served
        BY <1>4 DEF PwInv, InOrder
      <4> QED
        BY <1>4, <4>1
    <3>3. {d \in Calls : Saves(d) /\ <<e, d>> \in served}' = {}
      BY <3>1, <3>2
    <3>4. call'[e].entries = table'
      BY <1>1, <1>2, <1>4, <3>1
    <3> QED
      BY <3>3, <3>4 DEF Spliced
  <2> QED
    BY <2>1, <2>2
<1>6. \A i, s : Carried(c, i, s)' => i \in DOMAIN table /\ table[i] = s
  BY <1>2, <1>4 DEF Carried
<1>7. \A i \in EntryIds, s \in 1..MaxSecrets :
             /\ i \in DOMAIN table' /\ table'[i] = s => Filed(i, s)
             /\ i \in DOMAIN entries' /\ entries'[i] = s => Filed(i, s)
             /\ Carried(c, i, s)' => Filed(i, s)
  BY <1>1, <1>4, <1>6 DEF Filed
<1>8. \A b \in Calls \ {c}, i \in EntryIds :
             /\ i \in DOMAIN table' \/ i \in DOMAIN entries' => KnownBut(b, i)
             /\ x.do = "clipboard" /\ x.id = i => KnownBut(b, i)
             /\ \A s \in 0..MaxSecrets : Carried(c, i, s)' => KnownBut(b, i)
  BY <1>1, <1>2, <1>4, <1>6 DEF KnownBut
<1>9. table' \in Vaults(entry_ids, secrets) /\ entries' \in Vaults(entry_ids, secrets)
  BY <1>1, <1>4 DEF PwInv, PwTyped
<1>10. PwTyped' /\ FiledHome' /\ DraftLoose' /\ CopiesLoose' /\ CreateAlone' /\ OneArmed'
  <2>1. /\ x.do \notin {"copy", "create"} /\ UNCHANGED <<entry_ids, secrets, meant>>
        /\ arming' \in {arming, NoEntry} /\ arming_paste' \in {arming_paste, NoEntry} /\ draft' = draft
        /\ call[c].do \notin {"create", "done create"}
    BY <1>1, <1>2, <1>4
  <2> QED
    BY <1>3, <1>4, <1>7, <1>8, <1>9, <2>1, PlainStep
<1> QED
  BY <1>4, <1>5, <1>10 DEF PwInv

\* A request is refused: nothing is filed, and a new id that was refused is gone.
LEMMA RefuseStep ==
  ASSUME PwInv, NEW c \in Calls, call[c].do \in {"create", "replace", "paste", "remove"},
         Reply(c, Error(c)), table' = table
  PROVE  PwInv'
<1>1. PwTyped
  BY DEF PwInv
<1>2. /\ CallTyped(Error(c), entry_ids, secrets) /\ Error(c) # Resting
      /\ Error(c).do = "failed" /\ Error(c).was = call[c].do /\ Error(c).here = call[c].here
  BY <1>1, AnswerTyped
<1>3. PICK x : x = Error(c)
  OBVIOUS
<1>4. /\ DOMAIN call' = Calls /\ call'[c] = x /\ \A d \in Calls \ {c} : call'[d] = call[d]
      /\ call' = [call EXCEPT ![c] = x]
      /\ UNCHANGED <<entries, draft, busy, arming, arming_paste, overtaken, entry_ids, secrets, meant, odd>>
      /\ busy' \in BOOLEAN /\ odd \subseteq odd' /\ odd' \subseteq {"splice", "overtaken", "lost", "left"}
      /\ InOrder' /\ AllHere' /\ OneSave'
      /\ \A a, b \in Calls : <<a, b>> \in served' <=> <<a, b>> \in served \/ (b = c /\ HasAnswer(a))
      /\ ~HasAnswer(c) /\ c \notin overtaken
  BY <1>2, <1>3, ReplyFrame
<1>5. WillList'
  <2>1. \A d \in Calls : /\ Lists(d)' <=> Lists(d)
                         /\ Saves(d)' <=> Saves(d)
                         /\ Lists(d) \/ Saves(d) => call'[d] = call[d]
                         /\ d \in overtaken /\ (Lists(d) \/ Saves(d)) => d \in overtaken'
    BY <1>2, <1>3, <1>4 DEF Lists, Saves
  <2>2. RefreshDue => RefreshDue'
    BY <1>4 DEF RefreshDue
  <2>3. overtaken \subseteq Calls
    BY DEF PwInv, InOrder
  <2>4. \A a, b \in Calls : (Lists(a) \/ Saves(a)) /\ (Lists(b) \/ Saves(b)) =>
                                 (<<a, b>> \in served' <=> <<a, b>> \in served)
    <3>1. ~Lists(c) /\ ~Saves(c)
      BY DEF Lists, Saves
    <3> QED
      BY <1>4, <3>1
  <2>5. WillList /\ table' = table /\ entries' = entries /\ odd \subseteq odd'
    BY <1>4 DEF PwInv
  <2> QED
    BY <2>1, <2>2, <2>3, <2>4, <2>5, WillListKept
<1>6. x.do = "failed" /\ CallTyped(x, entry_ids, secrets)
  BY <1>2, <1>3
<1>7. \A i, s : ~Carried(c, i, s)'
  BY <1>4, <1>6 DEF Carried
<1>8. \A i \in EntryIds, s \in 1..MaxSecrets :
             /\ i \in DOMAIN table' /\ table'[i] = s => Filed(i, s)
             /\ i \in DOMAIN entries' /\ entries'[i] = s => Filed(i, s)
             /\ Carried(c, i, s)' => Filed(i, s)
  BY <1>4, <1>7 DEF Filed
<1>9. \A b \in Calls \ {c}, i \in EntryIds :
             /\ i \in DOMAIN table' \/ i \in DOMAIN entries' => KnownBut(b, i)
             /\ x.do = "clipboard" /\ x.id = i => KnownBut(b, i)
             /\ \A s \in 0..MaxSecrets : Carried(c, i, s)' => KnownBut(b, i)
  BY <1>4, <1>6, <1>7 DEF KnownBut
<1>10. table' \in Vaults(entry_ids, secrets) /\ entries' \in Vaults(entry_ids, secrets)
  BY <1>4 DEF PwInv, PwTyped
<1>11. ASSUME "lost" \notin odd', call[c].do = "create"
       PROVE  \A i \in EntryIds, s \in 1..MaxSecrets : s = call[c].secret => ~Filed(i, s)'
  <2> SUFFICES ASSUME NEW i \in EntryIds, NEW s \in 1..MaxSecrets, s = call[c].secret, Filed(i, s)'
               PROVE  FALSE
    OBVIOUS
  <2>1. PICK id \in EntryIds : id = call[c].id
    BY <1>1, <1>11, NewIds
  <2>2. Carried(c, id, s)
    BY <1>11, <2>1 DEF Carried
  <2>3. Filed(id, s)
    BY <2>2 DEF Filed
  <2>4. Filed(i, s)
    BY <1>4, <1>8, FiledLess
  <2>5. meant[s] = i /\ meant[s] = id
    BY <1>4, <1>11, <2>3, <2>4 DEF PwInv, FiledHome
  <2>6. ~KnownBut(c, id)
    BY <1>11, <2>1 DEF PwInv, CreateAlone
  <2>7. \A d \in Calls \ {c} : ~Carried(d, i, s)'
    <3>1. s \in 0..MaxSecrets
      OBVIOUS
    <3>2. \A d \in Calls \ {c} : ~Carried(d, id, s)
      BY <2>6, <3>1 DEF KnownBut
    <3>3. \A d \in Calls \ {c} : Carried(d, i, s)' => Carried(d, i, s)
      BY <1>4 DEF Carried
    <3> QED
      BY <2>5, <3>2, <3>3
  <2>8. i \notin DOMAIN table' /\ i \notin DOMAIN entries'
    BY <1>4, <2>5, <2>6 DEF KnownBut
  <2> QED
    BY <1>7, <2>7, <2>8 DEF Filed
<1>12. PwTyped' /\ FiledHome' /\ DraftLoose' /\ CopiesLoose' /\ CreateAlone' /\ OneArmed'
  <2>1. /\ x.do \notin {"copy", "create"} /\ UNCHANGED <<entry_ids, secrets, meant>>
        /\ arming' \in {arming, NoEntry} /\ arming_paste' \in {arming_paste, NoEntry} /\ draft' = draft
    BY <1>4, <1>6
  <2>2. "lost" \notin odd' /\ draft' = draft /\ call[c].do \in {"create", "done create"} /\ call[c].here =>
          \A i \in EntryIds, s \in 1..MaxSecrets : s = call[c].secret => ~Filed(i, s)'
    BY <1>11
  <2> QED
    BY <1>4, <1>6, <1>8, <1>9, <1>10, <2>1, <2>2, PlainStep, ZenonT(30)
<1> QED
  BY <1>4, <1>5, <1>12 DEF PwInv

\* A save is filed: once the lists before it are folded, its answer is what is missing.
LEMMA SaveFiled ==
  ASSUME PwInv, NEW c \in Calls, call[c].do \in {"create", "replace"}, Reply(c, Done(c)),
         table' = With(table, call[c].id, call[c].secret)
  PROVE  WillList'
<1>1. PwTyped
  BY DEF PwInv
<1>2. /\ CallTyped(Done(c), entry_ids, secrets) /\ Done(c) # Resting
      /\ Done(c).do \in {"done create", "done replace"}
      /\ Done(c).id = call[c].id /\ Done(c).secret = call[c].secret /\ Done(c).here = call[c].here
  BY <1>1, AnswerTyped
<1>3. PICK x : x = Done(c)
  OBVIOUS
<1>4. /\ DOMAIN call' = Calls /\ call'[c] = x /\ \A d \in Calls \ {c} : call'[d] = call[d]
      /\ UNCHANGED <<entries, draft, busy, arming, arming_paste, overtaken, entry_ids, secrets, meant, odd>>
      /\ \A a, b \in Calls : <<a, b>> \in served' <=> <<a, b>> \in served \/ (b = c /\ HasAnswer(a))
      /\ ~HasAnswer(c) /\ c \notin overtaken
  BY <1>2, <1>3, ReplyFrame
<1>5. x.do \in {"done create", "done replace"} /\ x.id = call[c].id /\ x.secret = call[c].secret
  BY <1>2, <1>3
<1> SUFFICES ASSUME odd' = {}, ~RefreshDue', ~FoldLate'
             PROVE  /\ (\A e \in Calls : ~Lists(e)') => Spliced(entries, {d \in Calls : Saves(d)})'
                    /\ \A e \in Calls : Lists(e)' /\ (\A d \in Calls : Lists(d)' => <<e, d>> \notin served') =>
                         Spliced(call[e].entries, {d \in Calls : Saves(d) /\ <<e, d>> \in served})'
  BY DEF WillList
<1>6. odd = {} /\ ~RefreshDue
  BY <1>4 DEF RefreshDue
<1>7. \A d \in Calls : (Lists(d)' <=> Lists(d)) /\ (Saves(d)' <=> Saves(d) \/ d = c)
  BY <1>4, <1>5 DEF Lists, Saves
<1>8. ~FoldLate
  BY <1>4, <1>7 DEF FoldLate, PwInv, InOrder
<1>9. \A d \in Calls : ~Saves(d)
  <2>1. \A d \in Calls : call[d] # Resting => call[d].here
    BY <1>6 DEF PwInv, AllHere
  <2>2. Resting.do = "nothing"
    BY DEF Resting
  <2>3. Saving(c)
    BY <2>1, <2>2 DEF Saving
  <2>4. \A d \in Calls : Saves(d) => Saving(d) /\ d # c
    BY <2>1, <2>2 DEF Saving, Saves
  <2> QED
    BY <2>3, <2>4 DEF PwInv, OneSave
<1>10. \A d \in Calls : Saves(d)' <=> d = c
  BY <1>7, <1>9
<1>11. \A f : f = table => With(f, call'[c].id, call'[c].secret) = table'
  BY <1>4, <1>5
<1>12. \A f : f = table => Spliced(f, {c})'
  BY <1>11 DEF Spliced
<1>13. ASSUME \A e \in Calls : ~Lists(e)' PROVE Spliced(entries, {d \in Calls : Saves(d)})'
  <2>1. Spliced(entries, {d \in Calls : Saves(d)})
    BY <1>6, <1>7, <1>8, <1>13 DEF PwInv, WillList
  <2>2. entries = table
    BY <1>9, <2>1 DEF Spliced
  <2>3. {d \in Calls : Saves(d)}' = {c}
    BY <1>10
  <2>4. entries' = entries
    BY <1>4
  <2> QED
    BY <1>11, <2>2, <2>3, <2>4 DEF Spliced
<1>14. ASSUME NEW e \in Calls, Lists(e)', \A d \in Calls : Lists(d)' => <<e, d>> \notin served'
       PROVE  Spliced(call[e].entries, {d \in Calls : Saves(d) /\ <<e, d>> \in served})'
  <2>1. Lists(e) /\ \A d \in Calls : Lists(d) => <<e, d>> \notin served
    BY <1>4, <1>7, <1>14
  <2>2. Spliced(call[e].entries, {d \in Calls : Saves(d) /\ <<e, d>> \in served})
    BY <1>6, <1>8, <2>1 DEF PwInv, WillList
  <2>3. call[e].entries = table
    BY <1>9, <2>2 DEF Spliced
  <2>4. HasAnswer(e) /\ e # c
    BY <1>4, <2>1 DEF Lists, HasAnswer
  <2>5. {d \in Calls : Saves(d) /\ <<e, d>> \in served}' = {c}
    BY <1>4, <1>10, <2>4
  <2>6. call'[e] = call[e]
    BY <1>4, <2>4
  <2> QED
    BY <1>11, <2>3, <2>5, <2>6 DEF Spliced
<1> QED
  BY <1>13, <1>14

\* A new entry is created, a stored one replaced.
LEMMA FiledStep ==
  ASSUME PwInv, NEW c \in Calls, call[c].do \in {"create", "replace", "paste"}, Reply(c, Done(c)),
         table' = With(table, call[c].id, call[c].secret)
  PROVE  PwInv'
<1>1. PwTyped
  BY DEF PwInv
<1>2. /\ CallTyped(Done(c), entry_ids, secrets) /\ Done(c) # Resting
      /\ Done(c).do \in {"done create", "done replace", "done paste"}
      /\ call[c].do = "create" => Done(c).do = "done create"
      /\ Done(c).do \in {"done create", "done replace"} =>
             call[c].do \in {"create", "replace"} /\ Done(c).snapshot = call[c].snapshot
      /\ Done(c).id = call[c].id /\ Done(c).secret = call[c].secret /\ Done(c).here = call[c].here
  BY <1>1, AnswerTyped
<1>3. PICK x : x = Done(c)
  OBVIOUS
<1>4. /\ DOMAIN call' = Calls /\ call'[c] = x /\ \A d \in Calls \ {c} : call'[d] = call[d]
      /\ call' = [call EXCEPT ![c] = x]
      /\ UNCHANGED <<entries, draft, busy, arming, arming_paste, overtaken, entry_ids, secrets, meant, odd>>
      /\ busy' \in BOOLEAN /\ odd \subseteq odd' /\ odd' \subseteq {"splice", "overtaken", "lost", "left"}
      /\ InOrder' /\ AllHere' /\ OneSave'
  BY <1>2, <1>3, ReplyFrame
<1>5. WillList'
  <2>1. CASE call[c].do \in {"create", "replace"}
    BY <2>1, SaveFiled
  <2>2. CASE call[c].do = "paste"
    <3>1. Done(c).do = "done paste"
      BY <1>1, <2>2, AnswerTyped
    <3>2. RefreshDue'
      BY <1>3, <1>4, <3>1 DEF RefreshDue
    <3> QED
      BY <3>2 DEF WillList
  <2> QED
    BY <2>1, <2>2
<1>6. \A i, s : Carried(c, i, s)' => Carried(c, i, s)
  <2>1. /\ x.do \in {"done create", "done replace", "done paste"}
        /\ x.do \in {"done create", "done replace"} =>
             call[c].do \in {"create", "replace"} /\ x.snapshot = call[c].snapshot
        /\ x.id = call[c].id /\ x.secret = call[c].secret
    BY <1>2, <1>3
  <2> QED
    BY <1>4, <2>1 DEF Carried
<1>7. call[c].id \in 1..entry_ids /\ call[c].secret \in 0..secrets /\ table \in Vaults(entry_ids, secrets)
  BY <1>1, Fields DEF PwTyped
<1>8. /\ table' \in Vaults(entry_ids, secrets)
      /\ \A j : j \in DOMAIN table' <=> j \in DOMAIN table \/ j = call[c].id
      /\ \A j \in DOMAIN table' : table'[j] = IF j = call[c].id THEN call[c].secret ELSE table[j]
  BY <1>7, WithVault
<1>9. Carried(c, call[c].id, call[c].secret)
  BY DEF Carried
<1>10. \A i, s : i \in DOMAIN table' /\ table'[i] = s => (i \in DOMAIN table /\ table[i] = s) \/ Carried(c, i, s)
  BY <1>8, <1>9
<1>11. \A i \in EntryIds, s \in 1..MaxSecrets :
             /\ i \in DOMAIN table' /\ table'[i] = s => Filed(i, s)
             /\ i \in DOMAIN entries' /\ entries'[i] = s => Filed(i, s)
             /\ Carried(c, i, s)' => Filed(i, s)
  BY <1>4, <1>6, <1>10 DEF Filed
<1>12. call[c].secret \in 0..MaxSecrets
  <2>1. secrets \in Nat /\ secrets <= MaxSecrets /\ MaxSecrets \in Nat
    BY <1>1, Bounds
  <2> QED
    BY <1>7, <2>1
<1>13. \A b \in Calls \ {c}, i \in EntryIds :
             /\ i \in DOMAIN table' \/ i \in DOMAIN entries' => KnownBut(b, i)
             /\ x.do = "clipboard" /\ x.id = i => KnownBut(b, i)
             /\ \A s \in 0..MaxSecrets : Carried(c, i, s)' => KnownBut(b, i)
  <2> SUFFICES ASSUME NEW b \in Calls \ {c}, NEW i \in EntryIds
               PROVE  /\ i \in DOMAIN table' \/ i \in DOMAIN entries' => KnownBut(b, i)
                      /\ x.do = "clipboard" /\ x.id = i => KnownBut(b, i)
                      /\ \A s \in 0..MaxSecrets : Carried(c, i, s)' => KnownBut(b, i)
    OBVIOUS
  <2>1. \A s \in 0..MaxSecrets : Carried(c, i, s) => KnownBut(b, i)
    BY Knows
  <2>2. i \in DOMAIN table' => KnownBut(b, i)
    <3>1. i \in DOMAIN table => KnownBut(b, i)
      BY DEF KnownBut
    <3>2. i = call[c].id => KnownBut(b, i)
      BY <1>9, <1>12, <2>1
    <3> QED
      BY <1>8, <3>1, <3>2
  <2>3. i \in DOMAIN entries' => KnownBut(b, i)
    BY <1>4 DEF KnownBut
  <2>4. x.do # "clipboard"
    BY <1>2, <1>3
  <2> QED
    BY <1>6, <2>1, <2>2, <2>3, <2>4
<1>14. PwTyped' /\ FiledHome' /\ DraftLoose' /\ CopiesLoose' /\ CreateAlone' /\ OneArmed'
  <2>1. /\ x.do \notin {"copy", "create"} /\ CallTyped(x, entry_ids, secrets)
        /\ UNCHANGED <<entry_ids, secrets, meant>>
        /\ arming' \in {arming, NoEntry} /\ arming_paste' \in {arming_paste, NoEntry} /\ draft' = draft
    BY <1>2, <1>3, <1>4
  <2>2. entries' \in Vaults(entry_ids, secrets)
    BY <1>1, <1>4 DEF PwTyped
  <2>3. "lost" \notin odd' /\ draft' = draft /\ call[c].do \in {"create", "done create"} /\ call[c].here =>
             x.do = "done create" /\ x.here /\ x.secret = call[c].secret
    BY <1>2, <1>3
  <2> QED
    BY <1>4, <1>8, <1>11, <1>13, <2>1, <2>2, <2>3, PlainStep, ZenonT(30)
<1> QED
  BY <1>4, <1>5, <1>14 DEF PwInv

\* An entry is deleted.
LEMMA DeletedStep ==
  ASSUME PwInv, NEW c \in Calls, call[c].do = "remove", Reply(c, Done(c)),
         table' = Without(table, call[c].id)
  PROVE  PwInv'
<1>1. PwTyped
  BY DEF PwInv
<1>2. /\ CallTyped(Done(c), entry_ids, secrets) /\ Done(c) # Resting
      /\ Done(c).do = "done remove" /\ Done(c).here = call[c].here
  BY <1>1, AnswerTyped
<1>3. PICK x : x = Done(c)
  OBVIOUS
<1>4. /\ DOMAIN call' = Calls /\ call'[c] = x /\ \A d \in Calls \ {c} : call'[d] = call[d]
      /\ call' = [call EXCEPT ![c] = x]
      /\ UNCHANGED <<entries, draft, busy, arming, arming_paste, overtaken, entry_ids, secrets, meant, odd>>
      /\ busy' \in BOOLEAN /\ odd \subseteq odd' /\ odd' \subseteq {"splice", "overtaken", "lost", "left"}
      /\ InOrder' /\ AllHere' /\ OneSave'
  BY <1>2, <1>3, ReplyFrame
<1>5. x.do = "done remove" /\ CallTyped(x, entry_ids, secrets)
  BY <1>2, <1>3
<1>6. WillList'
  <2>1. RefreshDue'
    BY <1>4, <1>5 DEF RefreshDue
  <2> QED
    BY <2>1 DEF WillList
<1>7. \A i, s : ~Carried(c, i, s)'
  BY <1>4, <1>5 DEF Carried
<1>8. table \in Vaults(entry_ids, secrets)
  BY <1>1 DEF PwTyped
<1>9. /\ table' \in Vaults(entry_ids, secrets) /\ DOMAIN table' \subseteq DOMAIN table
      /\ \A j \in DOMAIN table' : table'[j] = table[j]
  <2>1. PICK id : id = call[c].id
    OBVIOUS
  <2>2. Without(table, id) \in Vaults(entry_ids, secrets)
    BY <1>8, WithoutVault
  <2>3. DOMAIN Without(table, id) = DOMAIN table \ {id}
        /\ \A j \in DOMAIN table \ {id} : Without(table, id)[j] = table[j]
    BY DEF Without, Restrict
  <2>4. table' = Without(table, id)
    BY <2>1
  <2> QED
    BY <2>2, <2>3, <2>4
<1>10. \A i \in EntryIds, s \in 1..MaxSecrets :
             /\ i \in DOMAIN table' /\ table'[i] = s => Filed(i, s)
             /\ i \in DOMAIN entries' /\ entries'[i] = s => Filed(i, s)
             /\ Carried(c, i, s)' => Filed(i, s)
  BY <1>4, <1>7, <1>9 DEF Filed
<1>11. \A b \in Calls \ {c}, i \in EntryIds :
             /\ i \in DOMAIN table' \/ i \in DOMAIN entries' => KnownBut(b, i)
             /\ x.do = "clipboard" /\ x.id = i => KnownBut(b, i)
             /\ \A s \in 0..MaxSecrets : Carried(c, i, s)' => KnownBut(b, i)
  BY <1>4, <1>5, <1>7, <1>9 DEF KnownBut
<1>12. PwTyped' /\ FiledHome' /\ DraftLoose' /\ CopiesLoose' /\ CreateAlone' /\ OneArmed'
  <2>1. /\ x.do \notin {"copy", "create"} /\ UNCHANGED <<entry_ids, secrets, meant>>
        /\ arming' \in {arming, NoEntry} /\ arming_paste' \in {arming_paste, NoEntry} /\ draft' = draft
    BY <1>4, <1>5
  <2>2. entries' \in Vaults(entry_ids, secrets)
    BY <1>1, <1>4 DEF PwTyped
  <2> QED
    BY <1>4, <1>5, <1>9, <1>10, <1>11, <2>1, <2>2, PlainStep
<1> QED
  BY <1>4, <1>6, <1>12 DEF PwInv

\* Every handler of the server.
LEMMA ServerStep ==
  ASSUME PwInv, NEW c \in Calls, list(c) \/ create_capped(c) \/ replace(c) \/ delete(c)
  PROVE  PwInv'
<1>1. CASE list(c)
  BY <1>1, ListStep
<1>2. CASE create_capped(c)
  BY <1>2, RefuseStep, FiledStep DEF create_capped
<1>3. CASE replace(c)
  BY <1>3, RefuseStep, FiledStep DEF replace
<1>4. CASE delete(c)
  BY <1>4, RefuseStep, DeletedStep DEF delete
<1> QED
  BY <1>1, <1>2, <1>3, <1>4

-----------------------------------------------------------------------------
(***************************************************************************)
(* Answers, and leaving.                                                     *)
(***************************************************************************)

\* A request or its answer is lost.
LEMMA LoseStep ==
  ASSUME PwInv, NEW c \in Calls, Lose(c)
  PROVE  PwInv'
<1> DEFINE w == IF call[c].do = "done create" THEN "create"
                ELSE IF call[c].do = "done replace" THEN "replace" ELSE call[c].do
           x == [do |-> "failed", here |-> call[c].here, was |-> w]
<1>1. /\ call[c].do \in {"list", "create", "replace", "paste", "remove", "listed", "done create",
                         "done replace", "done paste", "done remove"}
      /\ call' = [call EXCEPT ![c] = x] /\ odd' = odd \cup {"lost"}
      /\ UNCHANGED <<table, entries, draft, busy, arming, arming_paste, served, overtaken, entry_ids,
                     secrets, asked, meant>>
  BY DEF Lose, screen
<1>2. PwTyped
  BY DEF PwInv
<1>3. call[c] # Resting /\ call[c].here \in BOOLEAN
  <2>1. Resting.do = "nothing"
    BY DEF Resting
  <2> QED
    BY <1>1, <1>2, <2>1, Fields DEF PwTyped
<1>4. x \in [do : {"failed"}, was : {"list", "listed", "create", "replace", "paste", "remove",
                                     "done paste", "done remove"}, here : BOOLEAN]
  BY <1>1, <1>3
<1>5. /\ x.do = "failed" /\ x.here = call[c].here /\ CallTyped(x, entry_ids, secrets)
      /\ x.was \in {"create", "replace"} =>
             call[c].do \in {"create", "replace", "done create", "done replace"}
  BY <1>1, <1>4 DEF CallTyped
<1> HIDE DEF x, w
<1>6. busy' \in BOOLEAN /\ odd \subseteq odd' /\ odd' \subseteq {"splice", "overtaken", "lost", "left"}
      /\ "lost" \in odd'
  BY <1>1, <1>2 DEF PwTyped
<1>7. /\ PwTyped' /\ FiledHome' /\ DraftLoose' /\ CopiesLoose' /\ CreateAlone' /\ OneArmed'
      /\ DOMAIN call' = Calls /\ call'[c] = x /\ \A d \in Calls \ {c} : call'[d] = call[d]
  BY <1>1, <1>5, <1>6, QuietStep
<1>8. WillList'
  BY <1>6 DEF WillList
<1>9. InOrder'
  <2>1. \A d \in Calls : HasAnswer(d) => HasAnswer(d)'
    BY <1>5, <1>7 DEF HasAnswer
  <2> QED
    BY <1>1, <1>6, <2>1 DEF PwInv, InOrder
<1>10. OneSave'
  <2>1. Saving(c)' => Saving(c)
    BY <1>5, <1>7 DEF Saving
  <2>2. \A d \in Calls \ {c} : Saving(d)' => Saving(d)
    BY <1>7 DEF Saving
  <2>3. OneSave /\ busy' = busy
    BY <1>1 DEF PwInv
  <2>4. \A d \in Calls : Saving(d)' => Saving(d)
    BY <2>1, <2>2
  <2> QED
    BY <2>3, <2>4, SaveKept
<1>11. AllHere'
  BY <1>3, <1>5, <1>6, <1>7 DEF PwInv, AllHere
<1> QED
  BY <1>7, <1>8, <1>9, <1>10, <1>11 DEF PwInv

\* What the lists that are left will show, once an answer beside them is taken.
LEMMA ListsAfter ==
  ASSUME PwInv, NEW c \in Calls, Taken(c), c \notin overtaken, odd = {}, ~RefreshDue, ~FoldLate',
         HasAnswer(c), ~HasAnswer(c)', \A d \in Calls \ {c} : call'[d] = call[d],
         NEW e \in Calls, Lists(e)', \A d \in Calls : Lists(d)' => <<e, d>> \notin served'
  PROVE  Spliced(call[e].entries, {d \in Calls : Saves(d) /\ <<e, d>> \in served})'
<1>1. /\ \A a, b \in Calls : <<a, b>> \in served' <=> <<a, b>> \in served /\ c # a /\ c # b
      /\ \A a \in Calls : a \in overtaken' <=> (a \in overtaken \/ <<a, c>> \in served) /\ a # c
  <2>1. InOrder /\ odd \subseteq odd'
    BY DEF PwInv
  <2> QED
    BY <2>1, TakenOrder
<1>2. e # c /\ call'[e] = call[e] /\ Lists(e)
  BY DEF Lists, HasAnswer
<1>3. <<e, c>> \notin served
  BY <1>1, <1>2 DEF FoldLate
<1>4. \A d \in Calls \ {c} : (Lists(d)' <=> Lists(d)) /\ (Saves(d)' <=> Saves(d))
  BY DEF Lists, Saves
<1>5. \A d \in Calls : Lists(d) => <<e, d>> \notin served
  BY <1>1, <1>2, <1>3, <1>4
<1>6. ~FoldLate
  <2>1. overtaken \subseteq Calls
    BY DEF PwInv, InOrder
  <2> QED
    BY <1>1, <1>4, <2>1 DEF FoldLate
<1>7. Spliced(call[e].entries, {d \in Calls : Saves(d) /\ <<e, d>> \in served})
  BY <1>2, <1>5, <1>6 DEF PwInv, WillList
<1>8. ~Saves(c)'
  BY DEF Saves, HasAnswer
<1>9. {d \in Calls : Saves(d) /\ <<e, d>> \in served}' = {d \in Calls : Saves(d) /\ <<e, d>> \in served}
  BY <1>1, <1>2, <1>3, <1>4, <1>8
<1>10. table' = table
  BY DEF Taken
<1>11. \A d \in {d \in Calls : Saves(d) /\ <<e, d>> \in served} : call'[d] = call[d]
  BY <1>3
<1> QED
  BY <1>2, <1>7, <1>9, <1>10, <1>11 DEF Spliced

\* What an answer that is taken leaves to every case of it.
LEMMA TakenFrame ==
  ASSUME PwInv, NEW c \in Calls, NEW x, Taken(c), HasAnswer(c), call' = [call EXCEPT ![c] = x],
         x.do \in {"nothing", "list"}, x = Resting \/ x.here = call[c].here,
         odd \subseteq odd', odd' \subseteq {"splice", "overtaken", "lost", "left"}
  PROVE  /\ DOMAIN call' = Calls /\ call'[c] = x /\ \A d \in Calls \ {c} : call'[d] = call[d]
         /\ UNCHANGED <<table, entry_ids, secrets, meant>>
         /\ ~HasAnswer(c)' /\ InOrder' /\ AllHere'
         /\ \A a, b \in Calls : <<a, b>> \in served' <=> <<a, b>> \in served /\ c # a /\ c # b
         /\ \A a \in Calls : a \in overtaken' <=> (a \in overtaken \/ <<a, c>> \in served) /\ a # c
         /\ ~Saving(c)' /\ \A d \in Calls \ {c} : Saving(d)' <=> Saving(d)
         /\ \A i, s : ~Carried(c, i, s)'
<1>1. DOMAIN call' = Calls /\ call'[c] = x /\ \A d \in Calls \ {c} : call'[d] = call[d]
  BY OthersRest DEF PwInv
<1>2. ~HasAnswer(c)'
  BY <1>1 DEF HasAnswer
<1>3. /\ InOrder'
      /\ \A a, b \in Calls : <<a, b>> \in served' <=> <<a, b>> \in served /\ c # a /\ c # b
      /\ \A a \in Calls : a \in overtaken' <=> (a \in overtaken \/ <<a, c>> \in served) /\ a # c
  BY <1>1, <1>2, TakenOrder DEF PwInv
<1>4. AllHere'
  <2>1. call[c] # Resting
    <3>1. Resting.do = "nothing"
      BY DEF Resting
    <3> QED
      BY <3>1 DEF HasAnswer
  <2> QED
    BY <1>1, <2>1 DEF PwInv, AllHere
<1>5. ~Saving(c)' /\ \A d \in Calls \ {c} : Saving(d)' <=> Saving(d)
  BY <1>1 DEF Saving
<1>6. \A i, s : ~Carried(c, i, s)'
  BY <1>1 DEF Carried
<1>7. UNCHANGED <<table, entry_ids, secrets, meant>>
  BY DEF Taken
<1> QED
  BY <1>1, <1>2, <1>3, <1>4, <1>5, <1>6, <1>7

\* What the rows show after an answer, from what was to be shown.
LEMMA ListedShows ==
  ASSUME PwInv, NEW c \in Calls, call[c].do = "listed", Taken(c), Ends(c), call[c].here,
         entries' = call[c].entries, Note(c, {})
  PROVE  WillList'
<1>1. Resting.do = "nothing"
  BY DEF Resting
<1>2. HasAnswer(c) /\ Lists(c) /\ ~Saves(c)
  BY DEF HasAnswer, Lists, Saves
<1> SUFFICES ASSUME odd' = {}, ~RefreshDue', ~FoldLate'
             PROVE  /\ (\A e \in Calls : ~Lists(e)') => Spliced(entries, {d \in Calls : Saves(d)})'
                    /\ \A e \in Calls : Lists(e)' /\ (\A d \in Calls : Lists(d)' => <<e, d>> \notin served') =>
                         Spliced(call[e].entries, {d \in Calls : Saves(d) /\ <<e, d>> \in served})'
  BY DEF WillList
<1>3. odd = {} /\ c \notin overtaken
  BY DEF Note
<1>4. /\ DOMAIN call' = Calls /\ call'[c] = Resting /\ \A d \in Calls \ {c} : call'[d] = call[d]
      /\ table' = table /\ ~HasAnswer(c)'
      /\ \A a, b \in Calls : <<a, b>> \in served' <=> <<a, b>> \in served /\ c # a /\ c # b
      /\ \A a \in Calls : a \in overtaken' <=> (a \in overtaken \/ <<a, c>> \in served) /\ a # c
  <2>1. odd \subseteq odd' /\ odd' \subseteq {"splice", "overtaken", "lost", "left"}
    BY <1>3
  <2>2. call' = [call EXCEPT ![c] = Resting]
    BY DEF Ends
  <2> QED
    BY <1>1, <1>2, <2>1, <2>2, TakenFrame
<1>5. ~Lists(c)' /\ ~Saves(c)' /\ \A d \in Calls \ {c} : (Lists(d)' <=> Lists(d)) /\ (Saves(d)' <=> Saves(d))
  BY <1>1, <1>4 DEF Lists, Saves
<1>6. ~RefreshDue
  BY <1>4 DEF RefreshDue
<1>7. ~FoldLate
  <2>1. overtaken \subseteq Calls
    BY DEF PwInv, InOrder
  <2> QED
    BY <1>3, <1>4, <1>5, <2>1 DEF FoldLate
<1>8. \A d \in Calls \ {c} : Lists(d) \/ Saves(d) => <<c, d>> \in served
  <2> SUFFICES ASSUME NEW d \in Calls \ {c}, Lists(d) \/ Saves(d) PROVE <<c, d>> \in served
    OBVIOUS
  <2>1. HasAnswer(d)
    BY DEF Lists, Saves, HasAnswer
  <2>2. <<c, d>> \in served \/ <<d, c>> \in served
    BY <1>2, <1>3, <2>1 DEF PwInv, InOrder
  <2>3. <<d, c>> \notin served
    BY <1>4, <1>5 DEF FoldLate
  <2> QED
    BY <2>2, <2>3
<1>9. ASSUME \A e \in Calls : ~Lists(e)' PROVE Spliced(entries, {d \in Calls : Saves(d)})'
  <2>1. \A d \in Calls : Lists(d) => d = c
    BY <1>5, <1>9
  <2>2. \A d \in Calls : Lists(d) => <<c, d>> \notin served
    BY <2>1 DEF PwInv, InOrder
  <2>3. Spliced(call[c].entries, {d \in Calls : Saves(d) /\ <<c, d>> \in served})
    BY <1>2, <1>3, <1>6, <1>7, <2>2 DEF PwInv, WillList
  <2>4. {d \in Calls : Saves(d)}' = {d \in Calls : Saves(d) /\ <<c, d>> \in served}
    BY <1>2, <1>5, <1>8
  <2>5. \A d \in {d \in Calls : Saves(d) /\ <<c, d>> \in served} : call'[d] = call[d]
    BY <1>2, <1>4
  <2> QED
    BY <1>4, <2>3, <2>4, <2>5 DEF Spliced
<1>10. ASSUME NEW e \in Calls, Lists(e)', \A d \in Calls : Lists(d)' => <<e, d>> \notin served'
       PROVE  Spliced(call[e].entries, {d \in Calls : Saves(d) /\ <<e, d>> \in served})'
  BY <1>2, <1>3, <1>4, <1>6, <1>10, ListsAfter
<1> QED
  BY <1>9, <1>10

\* A list is folded.
LEMMA ListedStep ==
  ASSUME PwInv, NEW c \in Calls, Listed(c)
  PROVE  PwInv'
<1>1. /\ call[c].do = "listed" /\ Taken(c) /\ Ends(c) /\ call' = [call EXCEPT ![c] = Resting]
      /\ UNCHANGED <<draft, busy, arming, arming_paste>>
      /\ IF call[c].here THEN entries' = call[c].entries /\ Note(c, {}) ELSE UNCHANGED <<entries, odd>>
  BY DEF Listed, Ends
<1>2. Resting.do = "nothing" /\ CallTyped(Resting, entry_ids, secrets)
  BY DEF Resting, CallTyped
<1>3. PwTyped /\ HasAnswer(c) /\ call[c].entries \in Vaults(entry_ids, secrets)
  BY <1>1, Fields DEF PwInv, PwTyped, HasAnswer
<1>4. busy' \in BOOLEAN /\ odd \subseteq odd' /\ odd' \subseteq {"splice", "overtaken", "lost", "left"}
      /\ entries' \in {entries, call[c].entries}
  BY <1>1, <1>3 DEF PwTyped, Note
<1>5. /\ DOMAIN call' = Calls /\ call'[c] = Resting /\ \A d \in Calls \ {c} : call'[d] = call[d]
      /\ UNCHANGED <<table, entry_ids, secrets, meant>>
      /\ ~HasAnswer(c)' /\ InOrder' /\ AllHere'
      /\ ~Saving(c)' /\ \A d \in Calls \ {c} : Saving(d)' <=> Saving(d)
      /\ \A i, s : ~Carried(c, i, s)'
  BY <1>1, <1>2, <1>3, <1>4, TakenFrame
<1>6. WillList'
  <2>1. CASE call[c].here
    BY <1>1, <2>1, ListedShows
  <2>2. CASE ~call[c].here
    <3>1. call[c] # Resting
      BY <1>1, <1>2
    <3>2. "left" \in odd'
      BY <1>1, <2>2, <3>1 DEF PwInv, AllHere
    <3> QED
      BY <3>2 DEF WillList
  <2> QED
    BY <2>1, <2>2
<1>7. OneSave'
  BY <1>1, <1>5 DEF PwInv, OneSave
<1>8. \A i, s : i \in DOMAIN call[c].entries /\ call[c].entries[i] = s => Carried(c, i, s)
  BY <1>1 DEF Carried
<1>9. \A i \in EntryIds, s \in 1..MaxSecrets :
             /\ i \in DOMAIN table' /\ table'[i] = s => Filed(i, s)
             /\ i \in DOMAIN entries' /\ entries'[i] = s => Filed(i, s)
             /\ Carried(c, i, s)' => Filed(i, s)
  BY <1>4, <1>5, <1>8 DEF Filed
<1>10. \A i \in DOMAIN call[c].entries : call[c].entries[i] \in 0..MaxSecrets
  <2>1. secrets \in Nat /\ secrets <= MaxSecrets /\ MaxSecrets \in Nat
    BY <1>3, Bounds
  <2>2. \A i \in DOMAIN call[c].entries : call[c].entries[i] \in 0..secrets
    BY <1>3, VaultOf
  <2> QED
    BY <2>1, <2>2
<1>11. \A b \in Calls \ {c}, i \in EntryIds :
             /\ i \in DOMAIN table' \/ i \in DOMAIN entries' => KnownBut(b, i)
             /\ Resting.do = "clipboard" /\ Resting.id = i => KnownBut(b, i)
             /\ \A s \in 0..MaxSecrets : Carried(c, i, s)' => KnownBut(b, i)
  <2> SUFFICES ASSUME NEW b \in Calls \ {c}, NEW i \in EntryIds
               PROVE  i \in DOMAIN table' \/ i \in DOMAIN entries' => KnownBut(b, i)
    BY <1>2, <1>5
  <2>1. i \in DOMAIN table \/ i \in DOMAIN entries => KnownBut(b, i)
    BY DEF KnownBut
  <2>2. i \in DOMAIN call[c].entries => KnownBut(b, i)
    BY <1>8, <1>10, Knows
  <2> QED
    BY <1>4, <1>5, <2>1, <2>2
<1>12. PwTyped' /\ FiledHome' /\ DraftLoose' /\ CopiesLoose' /\ CreateAlone' /\ OneArmed'
  <2>1. /\ Resting.do \notin {"copy", "create"} /\ UNCHANGED <<entry_ids, secrets, meant>>
        /\ arming' \in {arming, NoEntry} /\ arming_paste' \in {arming_paste, NoEntry} /\ draft' = draft
        /\ call[c].do \notin {"create", "done create"}
    BY <1>1, <1>2, <1>5
  <2>2. table' \in Vaults(entry_ids, secrets) /\ entries' \in Vaults(entry_ids, secrets)
    BY <1>3, <1>4, <1>5 DEF PwTyped
  <2> QED
    BY <1>1, <1>2, <1>4, <1>9, <1>11, <2>1, <2>2, PlainStep
<1> QED
  BY <1>5, <1>6, <1>7, <1>12 DEF PwInv

\* A save folded into rows that agree with its own beside its entry shows what they would.
LEMMA SpliceSame ==
  ASSUME NEW c \in Calls, Without(entries, call[c].id) = Without(call[c].snapshot, call[c].id)
  PROVE  With(entries, call[c].id, call[c].secret) = With(call[c].snapshot, call[c].id, call[c].secret)
BY SameSplice

\* A save carries all its answer shows.
LEMMA SpliceCarried ==
  ASSUME PwTyped, NEW c \in Calls, call[c].do \in {"done create", "done replace"}
  PROVE  /\ With(call[c].snapshot, call[c].id, call[c].secret) \in Vaults(entry_ids, secrets)
         /\ \A i, s : (i \in DOMAIN With(call[c].snapshot, call[c].id, call[c].secret)
                         /\ With(call[c].snapshot, call[c].id, call[c].secret)[i] = s) => Carried(c, i, s)
<1>1. CallTyped(call[c], entry_ids, secrets)
  BY DEF PwTyped
<1>2. /\ call[c].snapshot \in Vaults(entry_ids, secrets)
      /\ call[c].id \in 1..entry_ids /\ call[c].secret \in 0..secrets
  BY <1>1, Fields
<1>3. /\ With(call[c].snapshot, call[c].id, call[c].secret) \in Vaults(entry_ids, secrets)
      /\ \A j : j \in DOMAIN With(call[c].snapshot, call[c].id, call[c].secret) <=>
                     j \in DOMAIN call[c].snapshot \/ j = call[c].id
      /\ \A j \in DOMAIN With(call[c].snapshot, call[c].id, call[c].secret) :
             With(call[c].snapshot, call[c].id, call[c].secret)[j] =
                 IF j = call[c].id THEN call[c].secret ELSE call[c].snapshot[j]
  <2>1. PICK g, k, t : g = call[c].snapshot /\ k = call[c].id /\ t = call[c].secret
    OBVIOUS
  <2>2. g \in Vaults(entry_ids, secrets) /\ k \in 1..entry_ids /\ t \in 0..secrets
    BY <1>2, <2>1
  <2>3. With(g, k, t) \in Vaults(entry_ids, secrets)
    BY <2>2, WithVault
  <2>4. /\ \A j : j \in DOMAIN With(g, k, t) <=> j \in DOMAIN g \/ j = k
        /\ \A j \in DOMAIN With(g, k, t) : With(g, k, t)[j] = IF j = k THEN t ELSE g[j]
    BY DEF With
  <2> QED
    BY <2>1, <2>3, <2>4
<1>4. ASSUME NEW i, NEW s, i \in DOMAIN With(call[c].snapshot, call[c].id, call[c].secret),
             With(call[c].snapshot, call[c].id, call[c].secret)[i] = s
      PROVE  Carried(c, i, s)
  BY <1>3, <1>4 DEF Carried
<1> QED
  BY <1>3, <1>4

\* A save's answer of this visit lets the form go, and no other save is out.
LEMMA SavedShows ==
  ASSUME PwInv, NEW c \in Calls, call[c].do \in {"done create", "done replace"}, Taken(c), Ends(c),
         call[c].here, entries' = With(call[c].snapshot, call[c].id, call[c].secret),
         Note(c, IF Without(entries, call[c].id) # Without(call[c].snapshot, call[c].id)
                 THEN {"splice"} ELSE {})
  PROVE  WillList'
<1>1. Resting.do = "nothing"
  BY DEF Resting
<1>2. HasAnswer(c) /\ Saves(c) /\ ~Lists(c)
  BY DEF HasAnswer, Lists, Saves
<1> SUFFICES ASSUME odd' = {}, ~RefreshDue', ~FoldLate'
             PROVE  /\ (\A e \in Calls : ~Lists(e)') => Spliced(entries, {d \in Calls : Saves(d)})'
                    /\ \A e \in Calls : Lists(e)' /\ (\A d \in Calls : Lists(d)' => <<e, d>> \notin served') =>
                         Spliced(call[e].entries, {d \in Calls : Saves(d) /\ <<e, d>> \in served})'
  BY DEF WillList
<1>3. odd = {} /\ c \notin overtaken /\ Without(entries, call[c].id) = Without(call[c].snapshot, call[c].id)
  BY DEF Note
<1>4. /\ DOMAIN call' = Calls /\ call'[c] = Resting /\ \A d \in Calls \ {c} : call'[d] = call[d]
      /\ table' = table /\ ~HasAnswer(c)'
      /\ \A a, b \in Calls : <<a, b>> \in served' <=> <<a, b>> \in served /\ c # a /\ c # b
      /\ \A a \in Calls : a \in overtaken' <=> (a \in overtaken \/ <<a, c>> \in served) /\ a # c
  <2>1. odd \subseteq odd' /\ odd' \subseteq {"splice", "overtaken", "lost", "left"}
    BY <1>3
  <2>2. call' = [call EXCEPT ![c] = Resting]
    BY DEF Ends
  <2> QED
    BY <1>1, <1>2, <2>1, <2>2, TakenFrame
<1>5. ~Lists(c)' /\ ~Saves(c)' /\ \A d \in Calls \ {c} : (Lists(d)' <=> Lists(d)) /\ (Saves(d)' <=> Saves(d))
  BY <1>1, <1>4 DEF Lists, Saves
<1>6. ~RefreshDue
  BY <1>4 DEF RefreshDue
<1>7. ~FoldLate
  <2>1. overtaken \subseteq Calls
    BY DEF PwInv, InOrder
  <2> QED
    BY <1>3, <1>4, <1>5, <2>1 DEF FoldLate
<1>8. \A d \in Calls : ~Saves(d)'
  <2>1. \A d \in Calls : call[d] # Resting => call[d].here
    BY <1>3 DEF PwInv, AllHere
  <2>2. \A d \in Calls : Saves(d) => Saving(d)
    BY <1>1, <2>1 DEF Saving, Saves
  <2>3. \A d \in Calls \ {c} : ~Saves(d)
    BY <1>2, <2>2 DEF PwInv, OneSave
  <2> QED
    BY <1>5, <2>3
<1>9. ASSUME \A e \in Calls : ~Lists(e)' PROVE Spliced(entries, {d \in Calls : Saves(d)})'
  <2>1. \A d \in Calls : ~Lists(d)
    BY <1>2, <1>5, <1>9
  <2>2. Spliced(entries, {d \in Calls : Saves(d)})
    BY <1>3, <1>6, <1>7, <2>1 DEF PwInv, WillList
  <2>3. With(entries, call[c].id, call[c].secret) = table
    BY <1>2, <2>2 DEF Spliced
  <2>4. With(entries, call[c].id, call[c].secret) = With(call[c].snapshot, call[c].id, call[c].secret)
    BY <1>3, SpliceSame DEF PwInv
  <2>5. entries' = table'
    BY <1>4, <2>3, <2>4
  <2>6. {d \in Calls : Saves(d)}' = {}
    BY <1>8
  <2> QED
    BY <2>5, <2>6 DEF Spliced
<1>10. ASSUME NEW e \in Calls, Lists(e)', \A d \in Calls : Lists(d)' => <<e, d>> \notin served'
       PROVE  Spliced(call[e].entries, {d \in Calls : Saves(d) /\ <<e, d>> \in served})'
  BY <1>2, <1>3, <1>4, <1>6, <1>10, ListsAfter
<1> QED
  BY <1>9, <1>10

\* A save is folded: its entry is spliced into the rows of its click.
LEMMA SavedStep ==
  ASSUME PwInv, NEW c \in Calls, Saved(c)
  PROVE  PwInv'
<1>1. /\ call[c].do \in {"done create", "done replace"} /\ Taken(c) /\ Ends(c)
      /\ call' = [call EXCEPT ![c] = Resting] /\ UNCHANGED <<arming, arming_paste>>
      /\ IF call[c].here
         THEN /\ draft' = Shut /\ busy' = FALSE
              /\ entries' = With(call[c].snapshot, call[c].id, call[c].secret)
              /\ Note(c, IF Without(entries, call[c].id) # Without(call[c].snapshot, call[c].id)
                         THEN {"splice"} ELSE {})
         ELSE UNCHANGED <<draft, busy, entries, odd>>
  BY DEF Saved, Ends
<1>2. Resting.do = "nothing" /\ CallTyped(Resting, entry_ids, secrets)
  BY DEF Resting, CallTyped
<1>3. /\ PwTyped /\ HasAnswer(c) /\ call[c].snapshot \in Vaults(entry_ids, secrets)
      /\ call[c].id \in 1..entry_ids /\ call[c].secret \in 0..secrets
  BY <1>1, Fields DEF PwInv, PwTyped, HasAnswer
<1>4. busy' \in BOOLEAN /\ odd \subseteq odd' /\ odd' \subseteq {"splice", "overtaken", "lost", "left"}
      /\ entries' \in {entries, With(call[c].snapshot, call[c].id, call[c].secret)}
  BY <1>1, <1>3 DEF PwTyped, Note
<1>5. /\ DOMAIN call' = Calls /\ call'[c] = Resting /\ \A d \in Calls \ {c} : call'[d] = call[d]
      /\ UNCHANGED <<table, entry_ids, secrets, meant>>
      /\ ~HasAnswer(c)' /\ InOrder' /\ AllHere'
      /\ ~Saving(c)' /\ \A d \in Calls \ {c} : Saving(d)' <=> Saving(d)
      /\ \A i, s : ~Carried(c, i, s)'
  BY <1>1, <1>2, <1>3, <1>4, TakenFrame
<1>6. WillList'
  <2>1. CASE call[c].here
    BY <1>1, <2>1, SavedShows
  <2>2. CASE ~call[c].here
    <3>1. call[c] # Resting
      BY <1>1, <1>2
    <3>2. "left" \in odd'
      BY <1>1, <2>2, <3>1 DEF PwInv, AllHere
    <3> QED
      BY <3>2 DEF WillList
  <2> QED
    BY <2>1, <2>2
<1>7. OneSave'
  <2>1. CASE call[c].here
    <3>1. Saving(c)
      BY <1>1, <2>1 DEF Saving
    <3>2. \A d \in Calls : ~Saving(d)'
      BY <1>5, <3>1 DEF PwInv, OneSave
    <3> QED
      BY <3>2 DEF OneSave
  <2>2. CASE ~call[c].here
    <3>1. OneSave /\ busy' = busy
      BY <1>1, <2>2 DEF PwInv
    <3>2. \A d \in Calls : Saving(d)' => Saving(d)
      BY <1>5
    <3> QED
      BY <3>1, <3>2, SaveKept
  <2> QED
    BY <2>1, <2>2
<1>8. /\ With(call[c].snapshot, call[c].id, call[c].secret) \in Vaults(entry_ids, secrets)
      /\ \A i, s : (i \in DOMAIN With(call[c].snapshot, call[c].id, call[c].secret)
                      /\ With(call[c].snapshot, call[c].id, call[c].secret)[i] = s) => Carried(c, i, s)
  BY <1>1, <1>3, SpliceCarried
<1>9. \A i \in EntryIds, s \in 1..MaxSecrets :
             /\ i \in DOMAIN table' /\ table'[i] = s => Filed(i, s)
             /\ i \in DOMAIN entries' /\ entries'[i] = s => Filed(i, s)
             /\ Carried(c, i, s)' => Filed(i, s)
  BY <1>4, <1>5, <1>8 DEF Filed
<1>10. \A i \in DOMAIN With(call[c].snapshot, call[c].id, call[c].secret) :
           With(call[c].snapshot, call[c].id, call[c].secret)[i] \in 0..MaxSecrets
  <2>1. secrets \in Nat /\ secrets <= MaxSecrets /\ MaxSecrets \in Nat
    BY <1>3, Bounds
  <2>2. \A i \in DOMAIN With(call[c].snapshot, call[c].id, call[c].secret) :
           With(call[c].snapshot, call[c].id, call[c].secret)[i] \in 0..secrets
    BY <1>8, VaultOf
  <2> QED
    BY <2>1, <2>2
<1>11. \A b \in Calls \ {c}, i \in EntryIds :
             /\ i \in DOMAIN table' \/ i \in DOMAIN entries' => KnownBut(b, i)
             /\ Resting.do = "clipboard" /\ Resting.id = i => KnownBut(b, i)
             /\ \A s \in 0..MaxSecrets : Carried(c, i, s)' => KnownBut(b, i)
  <2> SUFFICES ASSUME NEW b \in Calls \ {c}, NEW i \in EntryIds
               PROVE  i \in DOMAIN table' \/ i \in DOMAIN entries' => KnownBut(b, i)
    BY <1>2, <1>5
  <2>1. i \in DOMAIN table \/ i \in DOMAIN entries => KnownBut(b, i)
    BY DEF KnownBut
  <2>2. i \in DOMAIN With(call[c].snapshot, call[c].id, call[c].secret) => KnownBut(b, i)
    BY <1>8, <1>10, Knows
  <2> QED
    BY <1>4, <1>5, <2>1, <2>2
<1>12. PwTyped' /\ FiledHome' /\ DraftLoose' /\ CopiesLoose' /\ CreateAlone' /\ OneArmed'
  <2>1. /\ Resting.do \notin {"copy", "create"} /\ UNCHANGED <<entry_ids, secrets, meant>>
        /\ arming' \in {arming, NoEntry} /\ arming_paste' \in {arming_paste, NoEntry}
        /\ draft' = draft \/ draft' = Shut
    BY <1>1, <1>2, <1>5
  <2>2. table' \in Vaults(entry_ids, secrets) /\ entries' \in Vaults(entry_ids, secrets)
    BY <1>3, <1>4, <1>5, <1>8 DEF PwTyped
  <2>3. ~(draft' = draft /\ draft.of = NoEntry /\ call[c].here)
    <3>1. call[c].here => draft'.of = Nowhere
      BY <1>1, ShutHas
    <3>2. Nowhere # NoEntry
      BY DEF Nowhere, NoEntry
    <3> QED
      BY <3>1, <3>2
  <2> QED
    BY <1>1, <1>2, <1>4, <1>9, <1>11, <2>1, <2>2, <2>3, PlainStep
<1> QED
  BY <1>5, <1>6, <1>7, <1>12 DEF PwInv

\* A paste or a removal that succeeded asks for the list again.
LEMMA ChangedStep ==
  ASSUME PwInv, NEW c \in Calls, Changed(c)
  PROVE  PwInv'
<1> DEFINE x == [do |-> "list", here |-> call[c].here]
<1>1. /\ call[c].do \in {"done paste", "done remove"} /\ Taken(c) /\ call' = [call EXCEPT ![c] = x]
      /\ UNCHANGED <<entries, draft, busy, arming, arming_paste, odd>>
  BY DEF Changed, Reask, screen
<1>2. PwTyped /\ HasAnswer(c)
  BY <1>1 DEF PwInv, HasAnswer
<1>3. call[c].here \in BOOLEAN
  BY <1>1, <1>2, Fields DEF PwTyped
<1>4. x.do = "list" /\ x.here = call[c].here /\ CallTyped(x, entry_ids, secrets)
  <2>1. x \in [do : {"list"}, here : BOOLEAN]
    BY <1>3
  <2> QED
    BY <2>1 DEF CallTyped
<1> HIDE DEF x
<1>5. busy' \in BOOLEAN /\ odd \subseteq odd' /\ odd' \subseteq {"splice", "overtaken", "lost", "left"}
  BY <1>1, <1>2 DEF PwTyped
<1>6. /\ DOMAIN call' = Calls /\ call'[c] = x /\ \A d \in Calls \ {c} : call'[d] = call[d]
      /\ UNCHANGED <<table, entry_ids, secrets, meant>>
      /\ InOrder' /\ AllHere' /\ ~Saving(c)' /\ \A d \in Calls \ {c} : Saving(d)' <=> Saving(d)
  BY <1>1, <1>2, <1>4, <1>5, TakenFrame
<1>7. WillList'
  <2>1. RefreshDue'
    BY <1>4, <1>6 DEF RefreshDue
  <2> QED
    BY <2>1 DEF WillList
<1>8. OneSave'
  <2>1. \A d \in Calls : Saving(d)' => Saving(d)
    BY <1>6
  <2> QED
    BY <1>1, <2>1, SaveKept DEF PwInv
<1>9. PwTyped' /\ FiledHome' /\ DraftLoose' /\ CopiesLoose' /\ CreateAlone' /\ OneArmed'
  <2>1. /\ UNCHANGED <<table, entries, draft, entry_ids, secrets, meant, arming, arming_paste>>
        /\ x.do \in {"nothing", "failed", "list", "remove", "done remove"}
        /\ call[c].do \notin {"create", "done create"}
    BY <1>1, <1>4, <1>6
  <2> QED
    BY <1>1, <1>4, <1>5, <2>1, QuietStep
<1> QED
  BY <1>6, <1>7, <1>8, <1>9 DEF PwInv

\* An error is shown; a save's lets the form go.
LEMMA FailedStep ==
  ASSUME PwInv, NEW c \in Calls, Failed(c)
  PROVE  PwInv'
<1>1. /\ call[c].do = "failed" /\ Taken(c) /\ call' = [call EXCEPT ![c] = Resting]
      /\ busy' = (busy /\ ~(call[c].here /\ call[c].was \in {"create", "replace"}))
      /\ UNCHANGED <<entries, draft, arming, arming_paste, odd>>
  BY DEF Failed, Ends
<1>2. Resting.do = "nothing" /\ CallTyped(Resting, entry_ids, secrets)
  BY DEF Resting, CallTyped
<1>3. PwTyped /\ HasAnswer(c) /\ ~Lists(c) /\ ~Saves(c)
  BY <1>1 DEF PwInv, HasAnswer, Lists, Saves
<1>4. busy' \in BOOLEAN
  BY <1>1
<1>5. odd \subseteq odd' /\ odd' \subseteq {"splice", "overtaken", "lost", "left"}
  BY <1>1, <1>3 DEF PwTyped
<1>6. /\ DOMAIN call' = Calls /\ call'[c] = Resting /\ \A d \in Calls \ {c} : call'[d] = call[d]
      /\ UNCHANGED <<table, entry_ids, secrets, meant>>
      /\ InOrder' /\ AllHere'
      /\ \A a, b \in Calls : <<a, b>> \in served' <=> <<a, b>> \in served /\ c # a /\ c # b
      /\ \A a \in Calls : a \in overtaken' <=> (a \in overtaken \/ <<a, c>> \in served) /\ a # c
      /\ ~Saving(c)' /\ \A d \in Calls \ {c} : Saving(d)' <=> Saving(d)
  BY <1>1, <1>2, <1>3, <1>5, TakenFrame
<1>7. WillList'
  <2>1. \A d \in Calls : /\ Lists(d)' <=> Lists(d)
                         /\ Saves(d)' <=> Saves(d)
                         /\ Lists(d) \/ Saves(d) => call'[d] = call[d]
                         /\ d \in overtaken /\ (Lists(d) \/ Saves(d)) => d \in overtaken'
    BY <1>2, <1>3, <1>6 DEF Lists, Saves
  <2>2. RefreshDue => RefreshDue'
    BY <1>1, <1>6 DEF RefreshDue
  <2>3. overtaken \subseteq Calls
    BY DEF PwInv, InOrder
  <2>4. \A a, b \in Calls : (Lists(a) \/ Saves(a)) /\ (Lists(b) \/ Saves(b)) =>
                                 (<<a, b>> \in served' <=> <<a, b>> \in served)
    BY <1>3, <1>6
  <2>5. WillList /\ table' = table /\ entries' = entries
    BY <1>1, <1>6 DEF PwInv
  <2> QED
    BY <1>5, <2>1, <2>2, <2>3, <2>4, <2>5, WillListKept
<1>8. OneSave'
  <2>1. CASE call[c].here /\ call[c].was \in {"create", "replace"}
    <3>1. Saving(c)
      BY <1>1, <2>1 DEF Saving
    <3>2. \A d \in Calls : ~Saving(d)'
      BY <1>6, <3>1 DEF PwInv, OneSave
    <3> QED
      BY <3>2 DEF OneSave
  <2>2. CASE ~(call[c].here /\ call[c].was \in {"create", "replace"})
    <3>1. busy' = busy
      <4>1. busy \in BOOLEAN
        BY <1>3 DEF PwTyped
      <4> QED
        BY <1>1, <2>2, <4>1
    <3>2. \A d \in Calls : Saving(d)' => Saving(d)
      BY <1>6
    <3> QED
      BY <3>1, <3>2, SaveKept DEF PwInv
  <2> QED
    BY <2>1, <2>2
<1>9. PwTyped' /\ FiledHome' /\ DraftLoose' /\ CopiesLoose' /\ CreateAlone' /\ OneArmed'
  <2>1. /\ UNCHANGED <<table, entries, draft, entry_ids, secrets, meant, arming, arming_paste>>
        /\ Resting.do \in {"nothing", "failed", "list", "remove", "done remove"}
        /\ call[c].do \notin {"create", "done create"}
    BY <1>1, <1>2, <1>6
  <2> QED
    BY <1>1, <1>2, <1>4, <1>5, <2>1, QuietStep
<1> QED
  BY <1>6, <1>7, <1>8, <1>9 DEF PwInv

\* A call of a screen that was left is the same call, for nobody.
LEMMA LeftCall ==
  ASSUME NEW n, NEW m, NEW x, CallTyped(x, n, m), x # Resting
  PROVE  /\ CallTyped([x EXCEPT !.here = FALSE], n, m) /\ [x EXCEPT !.here = FALSE] # Resting
         /\ [x EXCEPT !.here = FALSE].do = x.do /\ [x EXCEPT !.here = FALSE].here = FALSE
         /\ x.do \in {"create", "replace", "done create", "done replace", "paste", "done paste"} =>
                [x EXCEPT !.here = FALSE].id = x.id /\ [x EXCEPT !.here = FALSE].secret = x.secret
         /\ x.do \in {"create", "replace", "done create", "done replace"} =>
                [x EXCEPT !.here = FALSE].snapshot = x.snapshot
         /\ x.do \in {"remove", "done remove", "clipboard"} => [x EXCEPT !.here = FALSE].id = x.id
         /\ x.do = "copy" => [x EXCEPT !.here = FALSE].secret = x.secret
         /\ x.do = "listed" => [x EXCEPT !.here = FALSE].entries = x.entries
<1> DEFINE V == Vaults(n, m)
           I == 1..n
           M == 0..m
           M1 == 1..m
           y == [x EXCEPT !.here = FALSE]
           T(z) == \/ z \in [do : {"list"}, here : BOOLEAN]
                   \/ z \in [do : {"create", "replace", "done create", "done replace"}, id : I, secret : M,
                             snapshot : V, here : BOOLEAN]
                   \/ z \in [do : {"paste", "done paste"}, id : I, secret : M, here : BOOLEAN]
                   \/ z \in [do : {"remove", "done remove", "clipboard"}, id : I, here : BOOLEAN]
                   \/ z \in [do : {"copy"}, secret : M1, here : BOOLEAN]
                   \/ z \in [do : {"listed"}, entries : V, here : BOOLEAN]
                   \/ z \in [do : {"failed"}, was : {"list", "listed", "create", "replace", "paste", "remove",
                                     "done paste", "done remove"}, here : BOOLEAN]
<1>1. T(x)
  BY DEF CallTyped
<1>2. Resting.do = "nothing"
  BY DEF Resting
<1>3. T(y) => CallTyped(y, n, m)
  BY DEF CallTyped
<1> HIDE DEF V, I, M, M1
<1>4. T(y) /\ y.do = x.do /\ y.here = FALSE /\ y.do # "nothing"
  BY <1>1
<1>5. /\ x.do \in {"create", "replace", "done create", "done replace", "paste", "done paste"} =>
                y.id = x.id /\ y.secret = x.secret
      /\ x.do \in {"create", "replace", "done create", "done replace"} => y.snapshot = x.snapshot
      /\ x.do \in {"remove", "done remove", "clipboard"} => y.id = x.id
      /\ x.do = "copy" => y.secret = x.secret
      /\ x.do = "listed" => y.entries = x.entries
  BY <1>1
<1> QED
  BY <1>2, <1>3, <1>4, <1>5

\* The screen is left and opened again.
LEMMA RevisitStep ==
  ASSUME PwInv, NEW c \in Calls, Revisit(c)
  PROVE  PwInv'
<1>1. /\ call[c] = Resting
      /\ entries' = <<>> /\ draft' = Shut /\ busy' = FALSE /\ arming' = NoEntry /\ arming_paste' = NoEntry
      /\ call' = [d \in Calls |-> IF d = c THEN [do |-> "list", here |-> TRUE]
                                  ELSE IF call[d] = Resting THEN Resting ELSE [call[d] EXCEPT !.here = FALSE]]
      /\ odd' = IF \A d \in Calls : call[d] = Resting THEN odd ELSE odd \cup {"left"}
      /\ UNCHANGED <<table, served, overtaken, entry_ids, secrets, meant>>
  BY DEF Revisit
<1>2. PwTyped /\ entry_ids \in Nat /\ secrets \in Nat /\ secrets <= MaxSecrets /\ MaxSecrets \in Nat
      /\ entry_ids <= MaxEntryIds /\ MaxEntryIds \in Nat
  BY Bounds DEF PwInv
<1>3. Resting.do = "nothing"
  BY DEF Resting
<1>4. call'[c].do = "list" /\ call'[c].here = TRUE /\ CallTyped(call'[c], entry_ids, secrets)
  <2>1. call'[c] = [do |-> "list", here |-> TRUE]
    BY <1>1
  <2>2. call'[c] \in [do : {"list"}, here : BOOLEAN]
    BY <2>1
  <2> QED
    BY <2>1, <2>2 DEF CallTyped
<1>5. ASSUME NEW d \in Calls \ {c}
      PROVE  /\ CallTyped(call'[d], entry_ids, secrets) /\ call'[d].do = call[d].do
             /\ call[d] = Resting => call'[d] = Resting
             /\ call[d] # Resting => call'[d].here = FALSE
             /\ call[d].do \in {"create", "replace", "done create", "done replace", "paste", "done paste"} =>
                    call'[d].id = call[d].id /\ call'[d].secret = call[d].secret
             /\ call[d].do \in {"create", "replace", "done create", "done replace"} =>
                    call'[d].snapshot = call[d].snapshot
             /\ call[d].do \in {"remove", "done remove", "clipboard"} => call'[d].id = call[d].id
             /\ call[d].do = "copy" => call'[d].secret = call[d].secret
             /\ call[d].do = "listed" => call'[d].entries = call[d].entries
  <2>1. CallTyped(call[d], entry_ids, secrets)
    BY <1>2 DEF PwTyped
  <2>2. CASE call[d] = Resting
    BY <1>1, <1>3, <2>1, <2>2
  <2>3. CASE call[d] # Resting
    <3>1. call'[d] = [call[d] EXCEPT !.here = FALSE]
      BY <1>1, <2>3
    <3> QED
      BY <2>1, <2>3, <3>1, LeftCall
  <2> QED
    BY <2>2, <2>3
<1>6. \A d \in Calls : \A i, s : Carried(d, i, s)' => Carried(d, i, s)
  <2>1. \A i, s : ~Carried(c, i, s)'
    BY <1>4 DEF Carried
  <2>2. \A d \in Calls \ {c} : \A i, s : Carried(d, i, s)' => Carried(d, i, s)
    BY <1>5 DEF Carried
  <2> QED
    BY <2>1, <2>2
<1>7. \A i, s : Filed(i, s)' => Filed(i, s)
  BY <1>1, <1>6 DEF Filed
<1>8. entries' \in Vaults(entry_ids, secrets) /\ DOMAIN entries' = {}
  <2>1. entries' \in [{} -> 0..secrets] /\ DOMAIN entries' = {}
    BY <1>1
  <2> QED
    BY <2>1, VaultFrom
<1>9. odd \subseteq odd' /\ odd' \subseteq {"splice", "overtaken", "lost", "left"}
  BY <1>1, <1>2 DEF PwTyped
<1>10. draft'.of = Nowhere /\ draft'.secret = 0
  BY <1>1, ShutHas
<1>11. PwTyped'
  <2>1. \A d \in Calls : call'[d] = call[d] \/ CallTyped(call'[d], entry_ids, secrets)
    BY <1>4, <1>5
  <2>2. DOMAIN call' = Calls /\ busy' \in BOOLEAN /\ draft' = Shut /\ arming' = NoEntry
        /\ arming_paste' = NoEntry /\ UNCHANGED <<entry_ids, secrets, meant>>
    BY <1>1
  <2>3. table' \in Vaults(entry_ids, secrets)
    BY <1>1, <1>2 DEF PwTyped
  <2> QED
    BY <1>2, <1>8, <1>9, <2>1, <2>2, <2>3, PlainTyped
<1>12. OneSave'
  <2>1. \A d \in Calls : ~Saving(d)'
    <3>1. ~Saving(c)'
      BY <1>4 DEF Saving
    <3>2. \A d \in Calls \ {c} : ~Saving(d)'
      BY <1>3, <1>5 DEF Saving
    <3> QED
      BY <3>1, <3>2
  <2> QED
    BY <2>1 DEF OneSave
<1>13. AllHere'
  <2>1. CASE \A d \in Calls : call[d] = Resting
    BY <1>4, <1>5, <2>1 DEF AllHere
  <2>2. CASE ~(\A d \in Calls : call[d] = Resting)
    <3>1. "left" \in odd'
      BY <1>1, <2>2
    <3> QED
      BY <3>1 DEF AllHere
  <2> QED
    BY <2>1, <2>2
<1>14. InOrder'
  <2>1. \A d \in Calls : HasAnswer(d)' <=> HasAnswer(d)
    <3>1. ~HasAnswer(c) /\ ~HasAnswer(c)'
      BY <1>1, <1>3, <1>4 DEF HasAnswer
    <3>2. \A d \in Calls \ {c} : HasAnswer(d)' <=> HasAnswer(d)
      BY <1>5 DEF HasAnswer
    <3> QED
      BY <3>1, <3>2
  <2> QED
    BY <1>1, <1>9, <2>1, OrderKept DEF PwInv
<1>15. WillList'
  <2>1. RefreshDue'
    BY <1>4 DEF RefreshDue
  <2> QED
    BY <2>1 DEF WillList
<1>16. FiledHome'
  BY <1>1, <1>7, <1>9, <1>10, HomeKept DEF PwInv
<1>17. DraftLoose'
  <2>1. draft'.of # NoEntry
    BY <1>10 DEF Nowhere, NoEntry
  <2> QED
    BY <2>1 DEF DraftLoose
<1>18. CopiesLoose'
  <2>1. \A d \in Calls : call'[d].do = "copy" => call[d].do = "copy" /\ call'[d].secret = call[d].secret
    BY <1>4, <1>5
  <2> QED
    BY <1>2, <1>7, <1>10, <2>1, CopiesKept DEF PwInv
<1>19. CreateAlone'
  <2>1. ASSUME NEW b \in Calls, call'[b].do = "create"
        PROVE  /\ call[b].do = "create" /\ call'[b].id = call[b].id
               /\ KnownBut(b, call[b].id)' => KnownBut(b, call[b].id)
    <3>1. b # c
      BY <1>4, <2>1
    <3>2. call[b].do = "create" /\ call'[b].id = call[b].id /\ call'[b].snapshot = call[b].snapshot
      BY <1>5, <2>1, <3>1
    <3>3. PICK i : i = call[b].id
      OBVIOUS
    <3>4. i # Nowhere
      BY <1>2, <3>2, <3>3, NewIds
    <3>5. \A d \in Calls : call'[d].do = "clipboard" => call[d].do = "clipboard" /\ call'[d].id = call[d].id
      BY <1>4, <1>5
    <3>6. KnownBut(b, i)' => KnownBut(b, i)
      BY <1>1, <1>6, <1>8, <1>10, <3>2, <3>4, <3>5 DEF KnownBut
    <3> QED
      BY <3>2, <3>3, <3>6 DEF KnownBut
  <2> QED
    BY <2>1, AloneKept DEF PwInv
<1>20. OneArmed'
  BY <1>1 DEF OneArmed
<1> QED
  BY <1>11, <1>12, <1>13, <1>14, <1>15, <1>16, <1>17, <1>18, <1>19, <1>20 DEF PwInv

-----------------------------------------------------------------------------
(***************************************************************************)
(* The vault.                                                                *)
(***************************************************************************)

\* Nothing happens.
LEMMA PwStutter ==
  ASSUME PwInv, UNCHANGED pwVars
  PROVE  PwInv'
<1>1. UNCHANGED <<table, entries, draft, busy, arming, arming_paste, call, served, overtaken, entry_ids,
                  secrets, meant, odd>>
  BY DEF pwVars, screen
<1>2. /\ AllHere' /\ InOrder' /\ WillList' /\ OneSave'
      /\ \A i \in EntryIds, s \in 1..MaxSecrets : Filed(i, s)' => Filed(i, s)
  BY <1>1, FormFrame
<1>3. PwTyped /\ PwTyped'
  BY <1>1 DEF PwInv, PwTyped
<1>4. CreateAlone'
  <2>1. \A b \in Calls : call[b].do = "create" => draft'.of # call[b].id
    BY <1>1 DEF PwInv, CreateAlone, KnownBut
  <2> QED
    BY <1>1, <2>1, FormFrame
<1>5. FiledHome'
  BY <1>1, <1>2, HomeKept DEF PwInv
<1>6. DraftLoose'
  BY <1>1, <1>2, <1>3, LooseKept DEF PwInv
<1>7. CopiesLoose'
  BY <1>1, <1>2, <1>3, CopiesKept DEF PwInv
<1>8. OneArmed'
  BY <1>1 DEF PwInv, OneArmed
<1> QED
  BY <1>2, <1>3, <1>4, <1>5, <1>6, <1>7, <1>8 DEF PwInv

\* Every step of the screen, the clipboard and the server keeps the invariant.
LEMMA PwStepInv == PwInv /\ [PwNext]_pwVars => PwInv'
<1> SUFFICES ASSUME PwInv, [PwNext]_pwVars PROVE PwInv'
  OBVIOUS
<1>1. CASE start_new \/ close_draft
  BY <1>1, OpenCloseStep
<1>2. CASE generate
  BY <1>2, GenerateStep
<1>3. ASSUME NEW id \in EntryIds, start_edit(id) \/ FirstClick(id, TRUE) \/ FirstClick(id, FALSE)
      PROVE  PwInv'
  BY <1>3, StartEditStep, FirstClickStep
<1>4. ASSUME NEW c \in Calls, save(c) \/ fast(c) \/ Clipboard(c) \/ Copied(c) \/ Revisit(c)
      PROVE  PwInv'
  BY <1>4, SaveStep, FastStep, ClipboardStep, CopiedStep, RevisitStep
<1>5. ASSUME NEW c \in Calls, NEW id \in EntryIds, remove(c, id) \/ paste(c, id)
      PROVE  PwInv'
  BY <1>5, ArmedStep
<1>6. ASSUME NEW c \in Calls, list(c) \/ create_capped(c) \/ replace(c) \/ delete(c) \/ Lose(c)
      PROVE  PwInv'
  BY <1>6, ServerStep, LoseStep
<1>7. ASSUME NEW c \in Calls, Listed(c) \/ Saved(c) \/ Changed(c) \/ Failed(c)
      PROVE  PwInv'
  BY <1>7, ListedStep, SavedStep, ChangedStep, FailedStep
<1>8. CASE UNCHANGED pwVars
  BY <1>8, PwStutter
<1> QED
  BY <1>1, <1>2, <1>3, <1>4, <1>5, <1>6, <1>7, <1>8 DEF PwNext, PwStep

\* The screen before it is opened, with the entries stored so far.
LEMMA PwInitInv == PwInit => PwInv
<1> SUFFICES ASSUME PwInit PROVE PwInv
  OBVIOUS
<1>1. PICK c \in Calls : call = [d \in Calls |-> IF d = c THEN [do |-> "list", here |-> TRUE] ELSE Resting]
  BY DEF PwInit
<1>2. /\ table = [i \in 1..Before |-> i] /\ entry_ids = Before /\ secrets = Before
      /\ meant = [s \in 1..MaxSecrets |-> IF s <= Before THEN s ELSE NoEntry]
      /\ entries = <<>> /\ draft = Shut /\ busy = FALSE
      /\ arming = NoEntry /\ arming_paste = NoEntry
      /\ served = {} /\ overtaken = {} /\ odd = {}
  BY DEF PwInit, PwIdle
<1>3. Before \in Nat /\ MaxEntryIds \in Nat /\ MaxSecrets \in Nat /\ Before <= MaxEntryIds /\ Before <= MaxSecrets
  BY PasswordsAssumption
<1>4. Resting.do = "nothing"
  BY DEF Resting
<1>5. call[c].do = "list" /\ call[c].here = TRUE /\ \A d \in Calls \ {c} : call[d] = Resting
  BY <1>1
<1>6. \A d \in Calls : call[d].do \in {"nothing", "list"}
  BY <1>4, <1>5
<1>7. PwTyped
  <2>1. table \in Vaults(entry_ids, secrets)
    <3>1. table \in [1..Before -> 0..Before]
      BY <1>2, <1>3
    <3>2. 1..Before \in SUBSET (1..Before)
      OBVIOUS
    <3> QED
      BY <1>2, <3>1, <3>2, VaultFrom
  <2>2. entries \in Vaults(entry_ids, secrets)
    <3>1. entries \in [{} -> 0..secrets]
      BY <1>2
    <3> QED
      BY <3>1, VaultFrom
  <2>3. draft \in [of : -1..entry_ids, secret : 0..secrets]
    BY <1>2, <1>3 DEF Shut, Nowhere
  <2>4. \A d \in Calls : CallTyped(call[d], entry_ids, secrets)
    <3>1. call[c] \in [do : {"list"}, here : BOOLEAN]
      BY <1>1
    <3> QED
      BY <1>5, <3>1 DEF CallTyped
  <2>5. meant \in [1..MaxSecrets -> Nat]
    BY <1>2, <1>3 DEF NoEntry
  <2>6. entry_ids \in 0..MaxEntryIds /\ secrets \in 0..MaxSecrets /\ {arming, arming_paste} \subseteq 0..entry_ids
    BY <1>2, <1>3 DEF NoEntry
  <2>7. DOMAIN call = Calls /\ busy \in BOOLEAN /\ odd \subseteq {"splice", "overtaken", "lost", "left"}
    BY <1>1, <1>2
  <2> QED
    BY <2>1, <2>2, <2>3, <2>4, <2>5, <2>6, <2>7 DEF PwTyped
<1>8. OneSave
  BY <1>6 DEF OneSave, Saving
<1>9. AllHere
  BY <1>5 DEF AllHere
<1>10. InOrder
  BY <1>2, <1>6 DEF InOrder, HasAnswer
<1>11. WillList
  BY <1>5 DEF WillList, RefreshDue
<1>12. draft.of = Nowhere /\ draft.secret = 0
  BY <1>2, ShutHas
<1>13. \A i, s : Filed(i, s) => i \in 1..Before /\ s = i
  <2>1. \A d \in Calls : \A i, s : ~Carried(d, i, s)
    BY <1>6 DEF Carried
  <2> QED
    BY <1>2, <2>1 DEF Filed
<1>14. FiledHome
  <2>1. \A i \in EntryIds, s \in 1..MaxSecrets : Filed(i, s) => meant[s] = i
    BY <1>2, <1>3, <1>13
  <2>2. ~(draft.of > 0)
    BY <1>12 DEF Nowhere
  <2> QED
    BY <2>1, <2>2 DEF FiledHome
<1>15. DraftLoose
  BY <1>12 DEF DraftLoose, Nowhere, NoEntry
<1>16. CopiesLoose /\ CreateAlone
  BY <1>6 DEF CopiesLoose, CreateAlone
<1>17. OneArmed
  BY <1>2 DEF OneArmed
<1> QED
  BY <1>7, <1>8, <1>9, <1>10, <1>11, <1>14, <1>15, <1>16, <1>17 DEF PwInv

\* What will be listed is listed when nothing is under way, and what is filed is in the table.
LEMMA PwInvSound == PwInv => VaultSound
<1> SUFFICES ASSUME PwInv PROVE VaultSound
  OBVIOUS
<1>1. ASSUME odd = {}, \A c \in Calls : call[c] = Resting PROVE entries = table
  <2>1. \A c \in Calls : call[c].do = "nothing"
    BY <1>1 DEF Resting
  <2>2. ~RefreshDue /\ \A c \in Calls : ~Lists(c) /\ ~Saves(c)
    BY <2>1 DEF RefreshDue, Lists, Saves
  <2>3. ~FoldLate
    BY <2>2 DEF PwInv, InOrder, FoldLate
  <2>4. Spliced(entries, {d \in Calls : Saves(d)})
    BY <1>1, <2>2, <2>3 DEF PwInv, WillList
  <2>5. {d \in Calls : Saves(d)} = {}
    BY <2>2
  <2> QED
    BY <2>4, <2>5 DEF Spliced
<1>2. ASSUME "lost" \notin odd, NEW id \in DOMAIN table, table[id] # 0 PROVE meant[table[id]] = id
  <2>1. entry_ids \in Nat /\ secrets \in Nat /\ entry_ids <= MaxEntryIds /\ secrets <= MaxSecrets
        /\ MaxEntryIds \in Nat /\ MaxSecrets \in Nat
    BY Bounds DEF PwInv
  <2>2. id \in 1..entry_ids /\ table[id] \in 0..secrets
    BY VaultOf DEF PwInv, PwTyped
  <2>3. id \in EntryIds /\ table[id] \in 1..MaxSecrets
    BY <1>2, <2>1, <2>2 DEF EntryIds
  <2>4. Filed(id, table[id])
    BY <1>2 DEF Filed
  <2> QED
    BY <1>2, <2>3, <2>4 DEF PwInv, FiledHome
<1>3. OneArmed
  BY DEF PwInv
<1> QED
  BY <1>1, <1>2, <1>3 DEF VaultSound, ListsTheTable, SecretsStayHome

\* What the run Access checks on three entries, for any number of calls, entries, secrets and
\* clicks: the screen lists the table once its requests are settled, unless one was lost,
\* overtaken, left behind or spliced into a list that changed beside it; a secret is filed under
\* the entry it was typed for; one destructive button is armed at most (passwords.rs).
THEOREM VaultStaysSound == PwSpec => []VaultSound
<1>1. PwInit => PwInv
  BY PwInitInv
<1>2. PwInv /\ [PwNext]_pwVars => PwInv'
  BY PwStepInv
<1>3. PwInv => VaultSound
  BY PwInvSound
<1> QED
  BY <1>1, <1>2, <1>3, PTL DEF PwSpec
=============================================================================
