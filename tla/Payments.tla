------------------------------ MODULE Payments ------------------------------
(***************************************************************************)
(* What is paid for on chain: a dialog of the web client signs and broadcasts  *)
(* a transfer to the operator, waits for it and presents its hash; the server    *)
(* verifies the transfer, burns the hash and stores the shout or the site.       *)
(*                                                                         *)
(* The chain is external: it orders one wallet's transfers by nonce and mines    *)
(* or reverts them.  Every handler is cut short at any await by a disconnect, a  *)
(* database error or a crash.  Texts, archives and amounts beyond "enough or     *)
(* not" are left out.                                                        *)
(***************************************************************************)
EXTENDS Naturals, Sequences, FiniteSets

CONSTANTS
    Dialogs,    \* open dialogs of the one wallet that pays
    ShoutOf,    \* the dialogs that buy a shout; the others publish a site
    Jobs,       \* server requests that may be in flight at once
    MaxActive,  \* MAX_ACTIVE_PER_SENDER, and MAX_SITES
    MaxTx,      \* bound: transfers broadcast
    MaxOdd      \* bound: replayed hashes, cut handlers, lost answers, closed dialogs

Payer == "payer"
Stranger == "stranger"   \* another wallet, presenting hashes it saw on chain
Nobody == "nobody"

ASSUME PaymentsAssumption == Nobody \notin Dialogs /\ MaxTx \in Nat

VARIABLES
    chain,    \* sequence of transfers: nonce, state, whether it pays the price
    dlg,      \* per dialog: step, nonce read, transfer being awaited, paid_tx
    job,      \* per server request: caller, feature, hash, step, dialog waiting for it
    burnt,    \* the payments table
    posted,     \* shouts and published_sites, in order of insertion
    dirs,     \* sites whose directory exists, by the hash that paid for them
    removal,  \* the removal of a site in progress: its hash, 0 for none
    odd,      \* how many of the above have happened
    cut,      \* history: hashes whose handler died between burning and storing
    charged,  \* history: per dialog, its transfers since it was opened or served
    unsure    \* history: dialogs that lost the answer to a broadcast

payVars == <<chain, dlg, job, burnt, posted, dirs, removal, odd, cut, charged, unsure>>

Shut == [step |-> "idle", nonce |-> 0, tx |-> 0, paid |-> 0]
NoJob == [step |-> "free", who |-> Nobody, kind |-> "shout", tx |-> 0, dialog |-> Nobody]
PayInit ==
    /\ chain = <<>> /\ dlg = [d \in Dialogs |-> Shut] /\ job = [j \in Jobs |-> NoJob]
    /\ burnt = {} /\ posted = <<>> /\ dirs = {} /\ removal = 0 /\ odd = 0 /\ cut = {}
    /\ charged = [d \in Dialogs |-> {}] /\ unsure = {}

KindOf(d) == IF d \in ShoutOf THEN "shout" ELSE "site"
Odd == odd < MaxOdd /\ odd' = odd + 1
Mined(t) == t \in DOMAIN chain /\ chain[t].state = "ok"

-----------------------------------------------------------------------------
(***************************************************************************)
(* The dialog.                                                              *)
(***************************************************************************)

\* The button: nothing while busy; a hash already paid goes straight to the server.
Press(d) ==
    /\ dlg[d].step = "idle"
    /\ dlg' = [dlg EXCEPT ![d].step = IF dlg[d].paid # 0 THEN "post" ELSE "nonce"]
    /\ UNCHANGED <<chain, job, burnt, posted, dirs, removal, odd, cut, charged, unsure>>

\* send_contract_tx_inner: the account's transaction count, pending ones included.
ReadNonce(d) ==
    /\ dlg[d].step = "nonce"
    /\ dlg' = [dlg EXCEPT ![d].step = "send", ![d].nonce = Cardinality({chain[t].nonce : t \in DOMAIN chain})]
    /\ UNCHANGED <<chain, job, burnt, posted, dirs, removal, odd, cut, charged, unsure>>

\* The node refuses a used nonce, or replaces the transfer still pending under it;
\* the answer to an accepted broadcast may be lost, which reads as a failure.
Broadcast(d) ==
    LET n == dlg[d].nonce
        same == {t \in DOMAIN chain : chain[t].nonce = n /\ chain[t].state # "replaced"}
        new == Len(chain) + 1
    IN  /\ dlg[d].step = "send"
        /\ \/ /\ new <= MaxTx /\ \A t \in same : chain[t].state = "pending"
              /\ chain' = Append([t \in DOMAIN chain |-> IF t \in same THEN [chain[t] EXCEPT !.state = "replaced"]
                                                          ELSE chain[t]],
                                 [nonce |-> n, state |-> "pending"])
              /\ charged' = [charged EXCEPT ![d] = @ \cup {new}]
              /\ \/ dlg' = [dlg EXCEPT ![d] = [@ EXCEPT !.step = "confirm", !.nonce = 0, !.tx = new]] /\ UNCHANGED <<odd, unsure>>
                 \/ Odd /\ dlg' = [dlg EXCEPT ![d] = Shut] /\ unsure' = unsure \cup {d}
           \/ /\ same # {} /\ dlg' = [dlg EXCEPT ![d] = Shut]
              /\ UNCHANGED <<chain, odd, charged, unsure>>
    /\ UNCHANGED <<job, burnt, posted, dirs, removal, cut>>

\* The chain mines the transfer, or mines it as reverted.
Mine(t, outcome) ==
    /\ chain[t].state = "pending" /\ chain' = [chain EXCEPT ![t].state = outcome]
    /\ UNCHANGED <<dlg, job, burnt, posted, dirs, removal, odd, cut, charged, unsure>>

\* A receipt ends the wait, a reverted one as a failure; twenty polls without one
\* report the hash as paid (pay_operator hands it on, paid_tx keeps it).
Confirm(d) ==
    LET s == chain[dlg[d].tx].state IN
    /\ dlg[d].step = "confirm"
    /\ dlg' = [dlg EXCEPT ![d] = IF s = "reverted" THEN Shut
                                 ELSE [step |-> "post", nonce |-> 0, tx |-> 0, paid |-> @.tx]]
    /\ UNCHANGED <<chain, job, burnt, posted, dirs, removal, odd, cut, charged, unsure>>

\* POST /api/shout, or the upload session a site is published through.
Post(d, j) ==
    /\ dlg[d].step = "post" /\ job[j].step = "free"
    /\ job' = [job EXCEPT ![j] = [step |-> "cap", who |-> Payer, kind |-> KindOf(d),
                                  tx |-> dlg[d].paid, dialog |-> d]]
    /\ dlg' = [dlg EXCEPT ![d].step = "wait"]
    /\ UNCHANGED <<chain, burnt, posted, dirs, removal, odd, cut, charged, unsure>>

\* Any client may present any hash it has seen, also one already presented.  (One
\* that is not mined yet the dialogs present.)
Present(j, who, kind, t) ==
    /\ job[j].step = "free" /\ Mined(t) /\ Odd
    /\ job' = [job EXCEPT ![j] = [step |-> "cap", who |-> who, kind |-> kind, tx |-> t, dialog |-> Nobody]]
    /\ UNCHANGED <<chain, dlg, burnt, posted, dirs, removal, cut, charged, unsure>>

\* Faulty variant: a refused request forgets the hash it was paid with.
Failed_Forgets(d) == Shut
\* What a failed request leaves of the dialog: paid_tx stays for the retry.
Failed(d) == [dlg[d] EXCEPT !.step = "idle"]

\* A request ends; nobody waits for one that no dialog sent.
Ended(j, outcome) == IF job[j].dialog = Nobody THEN NoJob ELSE [job[j] EXCEPT !.step = outcome]

\* The answer: a served dialog closes, a refused one shows the error.
Answered(j) ==
    LET d == job[j].dialog IN
    /\ job[j].step \in {"done", "refused"}
    /\ job' = [job EXCEPT ![j] = NoJob]
    /\ IF job[j].step = "done"
       THEN /\ dlg' = [dlg EXCEPT ![d] = Shut] /\ charged' = [charged EXCEPT ![d] = {}]
            /\ unsure' = unsure \ {d}
       ELSE dlg' = [dlg EXCEPT ![d] = Failed(d)] /\ UNCHANGED <<charged, unsure>>
    /\ UNCHANGED <<chain, burnt, posted, dirs, removal, odd, cut>>

\* The connection breaks, a database call fails or the process dies: the handler is
\* dropped where it stands and the dialog sees an error.
Cut(j) ==
    /\ job[j].step # "free" /\ Odd
    /\ cut' = cut \cup {t \in {job[j].tx} : job[j].step \in {"files", "row"}}
    /\ job' = [job EXCEPT ![j] = NoJob]
    /\ dlg' = IF job[j].dialog = Nobody THEN dlg ELSE [dlg EXCEPT ![job[j].dialog] = Failed(job[j].dialog)]
    /\ UNCHANGED <<chain, burnt, posted, dirs, removal, charged, unsure>>

\* A dialog is closed while it is not busy; what it knew is gone.
Close(d) ==
    /\ dlg[d].step = "idle" /\ dlg[d] # Shut /\ Odd
    /\ dlg' = [dlg EXCEPT ![d] = Shut] /\ charged' = [charged EXCEPT ![d] = {}]
    /\ unsure' = unsure \ {d}
    /\ UNCHANGED <<chain, job, burnt, posted, dirs, removal, cut>>

-----------------------------------------------------------------------------
(***************************************************************************)
(* The server.                                                              *)
(***************************************************************************)

\* active_count_for, per sender, and sites::count.
Burning(kind, who) ==
    Cardinality({i \in DOMAIN posted : posted[i].live /\ posted[i].kind = kind /\ (kind = "shout" => posted[i].who = who)})

\* "The ceiling first": create, publish and finalize_upload.
CheckCap(j) ==
    /\ job[j].step = "cap"
    /\ job' = [job EXCEPT ![j] = IF Burning(@.kind, @.who) >= MaxActive THEN Ended(j, "refused")
                                 ELSE [@ EXCEPT !.step = "verify"]]
    /\ UNCHANGED <<chain, dlg, burnt, posted, dirs, removal, odd, cut, charged, unsure>>

\* verify_on_chain: mined, to the operator, from the caller, successful.
verify_on_chain(j) ==
    /\ job[j].step = "verify"
    /\ job' = [job EXCEPT ![j] = IF Mined(@.tx) /\ @.who = Payer THEN [@ EXCEPT !.step = "burn"]
                                 ELSE Ended(j, "refused")]
    /\ UNCHANGED <<chain, dlg, burnt, posted, dirs, removal, odd, cut, charged, unsure>>

\* Faulty variant: the insert's row count is ignored.
Burn_Ignored(j) ==
    /\ job[j].step = "burn"
    /\ burnt' = burnt \cup {job[j].tx}
    /\ job' = [job EXCEPT ![j].step = IF job[j].kind = "site" THEN "files" ELSE "row"]
    /\ UNCHANGED <<chain, dlg, posted, dirs, removal, odd, cut, charged, unsure>>
\* INSERT OR IGNORE INTO payments: exactly one request wins the hash.
Burn(j) ==
    /\ job[j].step = "burn"
    /\ burnt' = burnt \cup {job[j].tx}
    /\ job' = [job EXCEPT ![j] = IF @.tx \in burnt THEN Ended(j, "refused")
                                 ELSE [@ EXCEPT !.step = IF job[j].kind = "site" THEN "files" ELSE "row"]]
    /\ UNCHANGED <<chain, dlg, posted, dirs, removal, odd, cut, charged, unsure>>

\* commit_site: the files, in a directory of their own ...
WriteFiles(j) ==
    /\ job[j].step = "files"
    /\ dirs' = dirs \cup {job[j].tx}
    /\ job' = [job EXCEPT ![j].step = "row"]
    /\ UNCHANGED <<chain, dlg, burnt, posted, removal, odd, cut, charged, unsure>>

\* ... then the row; a shout is only a row.
StoreRow(j) ==
    /\ job[j].step = "row"
    /\ posted' = Append(posted, [tx |-> job[j].tx, kind |-> job[j].kind, who |-> job[j].who, live |-> TRUE])
    /\ job' = [job EXCEPT ![j] = Ended(j, "done")]
    /\ UNCHANGED <<chain, dlg, burnt, dirs, removal, odd, cut, charged, unsure>>

\* A shout's minute passes.
BurnOut(i) ==
    /\ posted[i].live /\ posted[i].kind = "shout"
    /\ posted' = [posted EXCEPT ![i].live = FALSE]
    /\ UNCHANGED <<chain, dlg, job, burnt, dirs, removal, odd, cut, charged, unsure>>

\* Faulty variant: the directory goes first.
RemoveSite_FilesFirst(i) ==
    /\ removal = 0 /\ posted[i].live /\ posted[i].kind = "site"
    /\ dirs' = dirs \ {posted[i].tx} /\ removal' = posted[i].tx
    /\ UNCHANGED <<chain, dlg, job, burnt, posted, odd, cut, charged, unsure>>
\* remove: the row ...
RemoveSite(i) ==
    /\ removal = 0 /\ posted[i].live /\ posted[i].kind = "site"
    /\ posted' = [posted EXCEPT ![i].live = FALSE]
    /\ removal' = posted[i].tx
    /\ UNCHANGED <<chain, dlg, job, burnt, dirs, odd, cut, charged, unsure>>

\* ... then the directory, which may fail or never be reached.
RemoveDir ==
    /\ removal # 0 /\ removal' = 0
    /\ (dirs' = dirs \ {removal} \/ UNCHANGED dirs)
    /\ UNCHANGED <<chain, dlg, job, burnt, posted, odd, cut, charged, unsure>>

PayNext ==
    \/ \E d \in Dialogs : \/ Press(d) \/ ReadNonce(d) \/ Broadcast(d) \/ Confirm(d) \/ Close(d)
                          \/ \E j \in Jobs : Post(d, j)
    \/ \E t \in DOMAIN chain, outcome \in {"ok", "reverted"} : Mine(t, outcome)
    \/ \E j \in Jobs : \/ \E who \in {Payer, Stranger}, kind \in {"shout", "site"}, t \in 1..MaxTx :
                            Present(j, who, kind, t)
                       \/ Answered(j) \/ Cut(j) \/ CheckCap(j) \/ verify_on_chain(j) \/ Burn(j)
                       \/ WriteFiles(j) \/ StoreRow(j)
    \/ \E i \in DOMAIN posted : BurnOut(i) \/ RemoveSite(i)
    \/ RemoveDir
PaySpec == PayInit /\ [][PayNext]_payVars

-----------------------------------------------------------------------------
\* "One payment, one action": every shout and site was paid for by its owner's own
\* successful transfer, and no transfer paid for two, whoever presented its hash
\* however often and at the same time.
PaidFor ==
    /\ \A i \in DOMAIN posted : Mined(posted[i].tx) /\ posted[i].who = Payer
    /\ \A i, k \in DOMAIN posted : posted[i].tx = posted[k].tx => i = k

\* A burnt hash has bought its feature, or is about to; nothing but a handler cut
\* short between the two calls (verify_and_record, then the row) takes the money for
\* nothing.  In particular no refusal does ("refusing before burning").
NothingWasted ==
    \A t \in burnt : \/ \E i \in DOMAIN posted : posted[i].tx = t
                     \/ \E j \in Jobs : job[j].tx = t /\ job[j].step \in {"files", "row"}
                     \/ t \in cut

\* Payments and what they bought balance: nothing is had for nothing or twice, and
\* no payment is taken for nothing.
PaymentsBalance == PaidFor /\ NothingWasted

\* A dialog never pays twice for one shout or site ("must retry with this hash,
\* never pay again"), through refusals, reverts, slow receipts and other dialogs'
\* nonces; only a lost answer to a broadcast can make it.
NeverPaysAgain ==
    \A d \in Dialogs \ unsure : Cardinality({t \in charged[d] : Mined(t)}) <= 1

\* A listed site is served: its row never outlives its directory ("a row serving
\* 404s is a broken product"), whatever step a publication or removal stopped at.
SiteServed == \A i \in DOMAIN posted : posted[i].live /\ posted[i].kind = "site" => posted[i].tx \in dirs
=============================================================================
