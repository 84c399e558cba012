------------------------------ MODULE Reversal ------------------------------
(***************************************************************************)
(* Giving captured money back: the refunds and chargebacks of one captured *)
(* payment (internal/payment/refund.go, dispute.go).  OrderRefund adds the  *)
(* refunds of the order a payment paid for.                                *)
(*                                                                         *)
(* The database is one record, db, and a transaction is a function of it:  *)
(* it holds the payment's lock, and commits whole or not at all.  What the *)
(* provider does is outside that: it keeps what it accepted in a           *)
(* transaction that was rolled back, and what a job fetched from it may be *)
(* stale when the job syncs.                                               *)
(***************************************************************************)
EXTENDS Books

CONSTANTS
    Sources,       \* where the captured money may be: "wallet", "unapplied", "order"
    Captured,      \* the amount captured
    Refunds,       \* refunds, by their public id
    RefundAmount,
    Disputes,      \* the chargebacks a bank may open
    DisputeAmount,
    Misreported,   \* the refunds that the provider may return at another sum
    Workers

ASSUME ReversalAssumption ==
    /\ Sources \subseteq {"wallet", "unapplied", "order"}
    /\ Captured \in Nat \ {0}
    /\ RefundAmount \in [Refunds -> Nat \ {0}]
    /\ DisputeAmount \in [Disputes -> 1..Captured]
    /\ Misreported \subseteq Refunds

VARIABLES
    source, \* where the payment's money went when it was captured
    db,     \* the payment, its refunds and disputes, and the books
    psp,    \* the provider's refunds and disputes
    jobs    \* what each worker fetched and is about to sync to

revVars == <<source, db, psp, jobs>>

RefundOpen   == {"initiated", "pending"}
RefundFinal  == {"processed", "failed"}
\* How a refund ends at the provider, also at another sum than we asked for.
Outcome      == RefundFinal \cup {"misreported"}
Unresolved   == {"open", "under_review"}
Resolved     == {"won", "lost"}

Idle == [kind |-> "idle"]

RevTypeOK ==
    /\ source \in Sources
    /\ db.status \in {"captured", "settled", "partially_refunded", "refunded",
                      "disputed", "dispute_won", "dispute_lost"}
    /\ db.refunded \in Nat
    /\ db.refunds \in [Refunds -> {"absent"} \cup RefundOpen \cup RefundFinal]
    /\ db.disputes \in [Disputes -> [status : {"absent"} \cup Unresolved \cup Resolved,
                                     wallet : Nat, unapplied : Nat, expense : Nat]]
    /\ psp.refunds \in [Refunds -> {"none", "pending"} \cup Outcome]
    /\ psp.disputes \in [Disputes -> {"none"} \cup Unresolved \cup Resolved]
    /\ jobs \in [Workers -> {Idle}
          \cup [kind : {"refund"}, of : Refunds, seen : {"pending"} \cup Outcome]
          \cup [kind : {"dispute"}, of : Disputes, seen : Unresolved \cup Resolved]]

\* The payment state machine, from captured on.
CanTransition(from, to) ==
    \/ from = "captured" /\ to \in {"settled", "partially_refunded", "refunded", "disputed"}
    \/ from = "settled" /\ to \in {"partially_refunded", "refunded", "disputed"}
    \/ from = "partially_refunded" /\ to \in {"refunded", "disputed"}
    \/ from = "refunded" /\ to = "disputed"
    \/ from = "disputed" /\ to \in {"dispute_won", "dispute_lost"}

\* A refused transition fails the transaction it is part of.
MayMove(d, to) == d.status = to \/ CanTransition(d.status, to)

Posted(d, id, debit, credit, n) ==
    IF n = 0 THEN d ELSE [d EXCEPT !.books = Post(@, id, Journal(debit, credit, n))]

SumRefunds(d, S) == LET R == {r \in Refunds : d.refunds[r] \in S} IN Total(RefundAmount, R)

-----------------------------------------------------------------------------
(* Refunds                                                                 *)

\* CreateRefund reserves the money: of a top-up, out of the wallet; of an
\* unapplied capture or an order it is in refunds_payable already.  The check
\* constraint on refunded_amount refuses more than was captured.  Every call
\* draws a new id: one the provider has seen is never used again.
CanReserve(d, r) ==
    /\ d.refunds[r] = "absent" /\ psp.refunds[r] = "none"
    /\ d.status \in {"captured", "settled", "partially_refunded"}
    /\ d.refunded + RefundAmount[r] <= Captured
    /\ source = "wallet" => Balance(d.books, "wallet") >= RefundAmount[r]

Reserve(d, r) ==
    LET e == [d EXCEPT !.refunds[r] = "initiated", !.refunded = @ + RefundAmount[r]]
    IN  IF source = "wallet"
        THEN Posted(e, <<"reserve", r>>, "wallet", "refunds_payable", RefundAmount[r]) ELSE e

\* Mutant: refunds that may still fail count too.
AfterAnyRefund(d) ==
    IF SumRefunds(d, RefundOpen \cup {"processed"}) >= Captured THEN "refunded" ELSE "partially_refunded"

\* completeRefund: the money has left, and the payment says how much of it.
AfterRefund(d) == IF SumRefunds(d, {"processed"}) >= Captured THEN "refunded" ELSE "partially_refunded"

Complete(d, r) ==
    LET e == [Posted(d, <<"processed", r>>, "refunds_payable", "receivable", RefundAmount[r])
                EXCEPT !.refunds[r] = "processed"]
    IN  [e EXCEPT !.status = AfterRefund(e)]

CanComplete(d, r) == MayMove(d, AfterRefund([d EXCEPT !.refunds[r] = "processed"]))

\* Mutant: the money comes back, and refunded_amount keeps its share.
FailUncounted(d, r) ==
    LET e == [d EXCEPT !.refunds[r] = "failed"]
    IN  IF source = "wallet"
        THEN Posted(e, <<"restore", r>>, "refunds_payable", "wallet", RefundAmount[r]) ELSE e

\* Mutant: an order's sales get back what its refund took from them.
FailIntoSales(d, r) ==
    LET e == [d EXCEPT !.refunds[r] = "failed", !.refunded = @ - RefundAmount[r]]
    IN  CASE source = "wallet" -> Posted(e, <<"restore", r>>, "refunds_payable", "wallet", RefundAmount[r])
          [] source = "order" -> Posted(e, <<"restore", r>>, "refunds_payable", "sales", RefundAmount[r])
          [] OTHER -> e

\* failRefund: a wallet gets back what was reserved, and it may be refunded again.
Fail(d, r) ==
    LET e == [d EXCEPT !.refunds[r] = "failed", !.refunded = @ - RefundAmount[r]]
    IN  IF source = "wallet"
        THEN Posted(e, <<"restore", r>>, "refunds_payable", "wallet", RefundAmount[r]) ELSE e

\* Mutant: a refund that is pending is taken for settled.
ApplyInitiated(d, r, seen) ==
    CASE d.refunds[r] # "initiated" -> d
      [] d.refunds[r] = "initiated" /\ seen = "pending" -> [d EXCEPT !.refunds[r] = "pending"]
      [] d.refunds[r] = "initiated" /\ seen = "processed" -> Complete(d, r)
      [] d.refunds[r] = "initiated" /\ seen = "failed" -> Fail(d, r)

\* applyRefund ignores a refund that is final.
ApplyRefund(d, r, seen) ==
    CASE d.refunds[r] \in RefundFinal -> d
      [] d.refunds[r] \in RefundOpen /\ seen = "pending" -> [d EXCEPT !.refunds[r] = "pending"]
      [] d.refunds[r] \in RefundOpen /\ seen = "processed" -> Complete(d, r)
      [] d.refunds[r] \in RefundOpen /\ seen = "failed" -> Fail(d, r)

\* completeRefund refuses another sum than was reserved: "leave it for a person".
CanApply(d, r, seen) ==
    d.refunds[r] \in RefundOpen =>
        seen # "misreported" /\ (seen = "processed" => CanComplete(d, r))

\* The provider has one refund per refund id, and refuses more than it captured.
Accepts(r) ==
    \/ psp.refunds[r] # "none"
    \/ LET live == {q \in Refunds : psp.refunds[q] \notin {"none", "failed"}}
       IN  Total(RefundAmount, live) + RefundAmount[r] <= Captured

Asked(r) == [psp EXCEPT !.refunds[r] = IF @ = "none" THEN "pending" ELSE @]

\* Mutant: no answer is taken for a refusal.
SubmitOrFail(d, r) ==
    \/ /\ Accepts(r)
       /\ psp' = Asked(r)
       /\ CanApply(d, r, psp'.refunds[r])
       /\ db' = ApplyRefund(d, r, psp'.refunds[r])
    \/ /\ psp' \in {psp, Asked(r)}
       /\ db' = Fail(d, r)

\* submitRefund, inside the transaction that reserved or found the refund: an
\* answer is applied, and an outage leaves it initiated, accepted or not.  A
\* transaction that fails after the provider accepted is rolled back alone.
Submit(d, r) ==
    \/ /\ Accepts(r)
       /\ psp' = Asked(r)
       /\ CanApply(d, r, psp'.refunds[r])
       /\ db' = ApplyRefund(d, r, psp'.refunds[r])
    \/ /\ Accepts(r)
       /\ psp' = Asked(r)
       /\ db' \in {d, db}
    \/ psp' = psp /\ db' = d

\* The operators' CreateRefund, for any payment.
CreateRefund(r) ==
    /\ CanReserve(db, r)
    /\ Submit(Reserve(db, r), r)
    /\ UNCHANGED <<source, jobs>>

\* PollRefund asks again for a refund that is still initiated.
ResubmitRefund(r) ==
    /\ db.refunds[r] = "initiated"
    /\ Submit(db, r)
    /\ UNCHANGED <<source, jobs>>

\* A poll of a pending refund, or a webhook about one the database knows the
\* provider's id of, fetches it.
FetchRefund(w, r) ==
    /\ jobs[w] = Idle
    /\ db.refunds[r] \in {"pending"} \cup RefundFinal
    /\ jobs' = [jobs EXCEPT ![w] = [kind |-> "refund", of |-> r, seen |-> psp.refunds[r]]]
    /\ UNCHANGED <<source, db, psp>>

SyncRefund(w) ==
    /\ jobs[w].kind = "refund"
    /\ CanApply(db, jobs[w].of, jobs[w].seen)
    /\ db' = ApplyRefund(db, jobs[w].of, jobs[w].seen)
    /\ jobs' = [jobs EXCEPT ![w] = Idle]
    /\ UNCHANGED <<source, psp>>

-----------------------------------------------------------------------------
(* Disputes                                                                *)

Least(S) == CHOOSE n \in S : \A m \in S : n <= m
Most(m, n) == IF m >= n THEN m ELSE n

\* Mutant: an unapplied capture is contested whole, refunds or not.
OpenedInFull(d, x) ==
    LET wallet == IF source = "wallet"
                  THEN Least({DisputeAmount[x], Most(Balance(d.books, "wallet"), 0)}) ELSE 0
        unapplied == IF source = "unapplied" THEN DisputeAmount[x] ELSE 0
        expense == DisputeAmount[x] - wallet - unapplied
        taken == Posted(Posted(Posted(d,
                    <<"wallet", x>>, "wallet", "disputed", wallet),
                    <<"unapplied", x>>, "refunds_payable", "disputed", unapplied),
                    <<"expense", x>>, "chargebacks", "disputed", expense)
    IN  [taken EXCEPT !.status = "disputed",
            !.disputes[x] = [status |-> "open", wallet |-> wallet, unapplied |-> unapplied, expense |-> expense]]

\* openDispute takes the contested money from where it still is, and the rest
\* from the product's expense.
Opened(d, x) ==
    LET outstanding == Most(Captured - d.refunded, 0)
        wallet == IF source = "wallet"
                  THEN Least({DisputeAmount[x], outstanding, Most(Balance(d.books, "wallet"), 0)}) ELSE 0
        unapplied == IF source = "unapplied" THEN Least({DisputeAmount[x], outstanding}) ELSE 0
        expense == DisputeAmount[x] - wallet - unapplied
        taken == Posted(Posted(Posted(d,
                    <<"wallet", x>>, "wallet", "disputed", wallet),
                    <<"unapplied", x>>, "refunds_payable", "disputed", unapplied),
                    <<"expense", x>>, "chargebacks", "disputed", expense)
    IN  [taken EXCEPT !.status = "disputed",
            !.disputes[x] = [status |-> "open", wallet |-> wallet, unapplied |-> unapplied, expense |-> expense]]

\* An applied order payment has no wallet, and openDispute dies looking for it.
CanOpen(d) == source # "order" /\ CanTransition(d.status, "disputed")

\* Mutant: a win pays the whole dispute into one account.
ResolveToWallet(d, x, decision) ==
    LET moved == IF decision = "lost"
                 THEN Posted(d, <<"lost", x>>, "disputed", "receivable", DisputeAmount[x])
                 ELSE Posted(d, <<"won:wallet", x>>, "disputed", "wallet", DisputeAmount[x])
    IN  [moved EXCEPT !.disputes[x].status = decision,
                      !.status = IF decision = "won" THEN "dispute_won" ELSE "dispute_lost"]

\* resolveDispute: lost, the provider keeps the money; won, every part goes
\* back where it came from.
Resolve(d, x, decision) ==
    LET parts == d.disputes[x]
        moved == IF decision = "lost"
                 THEN Posted(d, <<"lost", x>>, "disputed", "receivable", DisputeAmount[x])
                 ELSE Posted(Posted(Posted(d,
                    <<"won:wallet", x>>, "disputed", "wallet", parts.wallet),
                    <<"won:unapplied", x>>, "disputed", "refunds_payable", parts.unapplied),
                    <<"won:expense", x>>, "disputed", "chargebacks", parts.expense)
    IN  [moved EXCEPT !.disputes[x].status = decision,
                      !.status = IF decision = "won" THEN "dispute_won" ELSE "dispute_lost"]

\* Mutant: a dispute under review is not polled.
FetchOpenDispute(w, x) ==
    /\ jobs[w] = Idle
    /\ psp.disputes[x] # "none" /\ db.disputes[x].status # "under_review"
    /\ jobs' = [jobs EXCEPT ![w] = [kind |-> "dispute", of |-> x, seen |-> psp.disputes[x]]]
    /\ UNCHANGED <<source, db, psp>>

\* A webhook or a poll fetches a dispute; only a webhook can announce one.
FetchDispute(w, x) ==
    /\ jobs[w] = Idle
    /\ psp.disputes[x] # "none"
    /\ jobs' = [jobs EXCEPT ![w] = [kind |-> "dispute", of |-> x, seen |-> psp.disputes[x]]]
    /\ UNCHANGED <<source, db, psp>>

\* processDisputeEvent records a new dispute, in a transaction of its own.
OpenDispute(w) ==
    /\ jobs[w].kind = "dispute"
    /\ db.disputes[jobs[w].of].status = "absent"
    /\ CanOpen(db)
    /\ db' = Opened(db, jobs[w].of)
    /\ UNCHANGED <<source, psp, jobs>>

\* SyncDispute: only a decision touches the books, and only once.
SyncDispute(w) ==
    /\ jobs[w].kind = "dispute"
    /\ LET x == jobs[w].of
           status == db.disputes[x].status
           seen == jobs[w].seen
       IN  /\ status # "absent"
           /\ db' = CASE status \in Resolved -> db
                      [] status \in Unresolved /\ seen \in Unresolved -> [db EXCEPT !.disputes[x].status = seen]
                      [] status \in Unresolved /\ seen \in Resolved -> Resolve(db, x, seen)
    /\ jobs' = [jobs EXCEPT ![w] = Idle]
    /\ UNCHANGED <<source, psp>>

\* The provider takes evidence for an open dispute; our commit may still fail.
SubmitDisputeEvidence(x) ==
    /\ db.disputes[x].status = "open" /\ psp.disputes[x] = "open"
    /\ psp' = [psp EXCEPT !.disputes[x] = "under_review"]
    /\ db' \in {[db EXCEPT !.disputes[x].status = "under_review"], db}
    /\ UNCHANGED <<source, jobs>>

-----------------------------------------------------------------------------
(* Everyone else                                                           *)

\* The job fails or its process dies; it will be claimed or polled again.
Abandon(w) ==
    /\ jobs[w] # Idle
    /\ jobs' = [jobs EXCEPT ![w] = Idle]
    /\ UNCHANGED <<source, db, psp>>

\* The customer spends some of the wallet.
Spend(n) ==
    /\ <<"spend", n>> \notin DOMAIN db.books
    /\ Balance(db.books, "wallet") >= n
    /\ db' = Posted(db, <<"spend", n>>, "wallet", "sales", n)
    /\ UNCHANGED <<source, psp, jobs>>

MarkSettled ==
    /\ db.status = "captured"
    /\ db' = [db EXCEPT !.status = "settled"]
    /\ UNCHANGED <<source, psp, jobs>>

\* The provider decides a refund: its money leaves, or other money, or it fails.
RefundEnds(r, outcome) ==
    /\ psp.refunds[r] = "pending"
    /\ outcome = "misreported" => r \in Misreported
    /\ psp' = [psp EXCEPT !.refunds[r] = outcome]
    /\ UNCHANGED <<source, db, jobs>>

DisputeMoves(x, status) ==
    /\ IF psp.disputes[x] = "none" THEN status = "open"
       ELSE psp.disputes[x] \in Unresolved /\ status \in Resolved
    /\ psp' = [psp EXCEPT !.disputes[x] = status]
    /\ UNCHANGED <<source, db, jobs>>

-----------------------------------------------------------------------------
AccountOf(s) == CASE s = "wallet" -> "wallet" [] s = "unapplied" -> "refunds_payable" [] s = "order" -> "sales"

RevInit ==
    /\ source \in Sources
    /\ db = [status |-> "captured", refunded |-> 0,
             refunds |-> [r \in Refunds |-> "absent"],
             disputes |-> [x \in Disputes |->
                            [status |-> "absent", wallet |-> 0, unapplied |-> 0, expense |-> 0]],
             books |-> Post(NoBooks, <<"capture", "payment">>,
                            Journal("receivable", AccountOf(source), Captured))]
    /\ psp = [refunds |-> [r \in Refunds |-> "none"], disputes |-> [x \in Disputes |-> "none"]]
    /\ jobs = [w \in Workers |-> Idle]

RevNext ==
    \/ \E r \in Refunds : \/ CreateRefund(r) \/ ResubmitRefund(r)
                          \/ \E outcome \in Outcome : RefundEnds(r, outcome)
    \/ \E x \in Disputes : \/ SubmitDisputeEvidence(x)
                           \/ \E status \in {"open"} \cup Resolved : DisputeMoves(x, status)
    \/ \E w \in Workers : \/ SyncRefund(w) \/ OpenDispute(w) \/ SyncDispute(w) \/ Abandon(w)
                          \/ \E r \in Refunds : FetchRefund(w, r)
                          \/ \E x \in Disputes : FetchDispute(w, x)
    \/ \E n \in 1..Captured : Spend(n)
    \/ MarkSettled

RevSpec == RevInit /\ [][RevNext]_revVars

-----------------------------------------------------------------------------
(* Safety                                                                  *)

DisputesIn(S) == {x \in Disputes : db.disputes[x].status \in S}

\* refunded_amount is what refunds that are not failed promise back, whatever
\* order they end in, and never more than was captured.
RefundsFitCapture ==
    /\ db.refunded = SumRefunds(db, RefundOpen \cup {"processed"})
    /\ db.refunded <= Captured

\* Every refund that may yet leave has its money set aside in refunds_payable:
\* neither the customer nor a chargeback can take it first.
OwedBack ==
    Balance(db.books, "refunds_payable") >= SumRefunds(db, RefundOpen)

OwedBackIsCovered == source # "order" => OwedBack

\* "The order refund has already moved this share into refunds_payable [...];
\* nothing more to reserve" (CreateRefund).
OrderRefundIsCovered == source = "order" => OwedBack

\* The disputed account holds exactly the undecided chargebacks, the expense
\* exactly what they took from it and lost; a win is as if nothing had been
\* taken, also from the wallet.
ContestedMoneyIsHeld ==
    /\ Balance(db.books, "disputed") = Total(DisputeAmount, DisputesIn(Unresolved))
    /\ LET expense == [x \in Disputes |-> db.disputes[x].expense]
       IN  Balance(db.books, "chargebacks") = - Total(expense, DisputesIn(Unresolved \cup {"lost"}))
    /\ Balance(db.books, "wallet") >= 0

\* The provider owes us what it captured less what was refunded or charged
\* back, and the payment's status says which.
StatusIsTheBooks ==
    /\ - Balance(db.books, "receivable")
         = Captured - SumRefunds(db, {"processed"}) - Total(DisputeAmount, DisputesIn({"lost"}))
    /\ CASE DisputesIn(Unresolved) # {} -> db.status = "disputed"
         [] DisputesIn({"won"}) # {} -> db.status = "dispute_won"
         [] DisputesIn({"lost"}) # {} -> db.status = "dispute_lost"
         [] OTHER -> LET n == SumRefunds(db, {"processed"}) IN
                     CASE n = 0 -> db.status \in {"captured", "settled"}
                       [] n \in 1..(Captured - 1) -> db.status = "partially_refunded"
                       [] n >= Captured -> db.status = "refunded"

\* No order of jobs, resubmissions and stale answers books a refund the
\* provider did not make, or ends one the provider ended otherwise.
RefundsAgree ==
    \A r \in Refunds :
        db.refunds[r] \in RefundFinal => psp.refunds[r] = db.refunds[r]

-----------------------------------------------------------------------------
(* Liveness                                                                *)

\* The pollers come round again and again, webhooks about disputes are
\* repeated, and no outage lasts.
Syncs(w, x) == jobs[w] # Idle /\ jobs[w].of = x /\ (SyncRefund(w) \/ OpenDispute(w) \/ SyncDispute(w))

Progress ==
    /\ \A w \in Workers : WF_revVars((\E x \in Refunds \cup Disputes : Syncs(w, x)) \/ Abandon(w))
    /\ \A r \in Refunds :
          /\ SF_revVars(\E w \in Workers : FetchRefund(w, r))
          /\ SF_revVars(\E w \in Workers : Syncs(w, r))
          /\ SF_revVars(ResubmitRefund(r) /\ db'.refunds[r] # "initiated")
          /\ WF_revVars(\E outcome \in RefundFinal : RefundEnds(r, outcome))
    /\ \A x \in Disputes :
          /\ SF_revVars(\E w \in Workers : FetchDispute(w, x))
          /\ SF_revVars(\E w \in Workers : jobs[w] # Idle /\ jobs[w].of = x /\ OpenDispute(w))
          /\ SF_revVars(\E w \in Workers : jobs[w] # Idle /\ jobs[w].of = x /\ SyncDispute(w))
          /\ WF_revVars(\E status \in Resolved : DisputeMoves(x, status))

FairRevSpec == RevSpec /\ Progress

Ends(r) == db.refunds[r] \in RefundFinal

\* Completing a refund is refused while the payment is charged back, and after.
Contested == \E x \in Disputes : psp.disputes[x] # "none"

\* Refunds the provider accepted in a transaction of ours that was rolled back:
\* nobody asks about them again, and they count against what it captured.
Forgotten == {q \in Refunds : db.refunds[q] = "absent" /\ psp.refunds[q] \notin {"none", "failed"}}

\* What they leave is too little for r: the provider refuses it at every poll.
CrowdedOut(r) == ~ Accepts(r) /\ Forgotten # {}

\* "PollRefund recovers a refund that has gone quiet": every refund ends, also
\* beside others, unless its payment is charged back, a forgotten refund uses
\* up what the provider accepts, or the provider sends another sum.
RefundsEnd ==
    \A r \in Refunds :
        db.refunds[r] \in RefundOpen
            ~> Ends(r) \/ Contested \/ CrowdedOut(r) \/ psp.refunds[r] = "misreported"

\* The same of every refund that the provider returns as asked, of a payment
\* that is not charged back; and of every refund.
UncontestedRefundsEnd ==
    \A r \in Refunds :
        db.refunds[r] \in RefundOpen ~> Ends(r) \/ Contested \/ psp.refunds[r] = "misreported"

AllRefundsEnd == \A r \in Refunds : db.refunds[r] \in RefundOpen ~> Ends(r)

\* A payment that was charged back stays so: openDispute refuses another one.
ContestedBefore(x) == \E y \in Disputes \ {x} : db.disputes[y].status # "absent"

\* The first chargeback of a top-up, or of a payment that was never applied, is
\* recorded and decided: "a missed 'lost' would leave contested money held
\* forever" (pollDisputes).
ChargebacksAreDecided ==
    \A x \in Disputes :
        source # "order" /\ psp.disputes[x] # "none"
            ~> db.disputes[x].status \in Resolved \/ ContestedBefore(x)

\* The same for every chargeback.
AllChargebacksAreDecided ==
    \A x \in Disputes : psp.disputes[x] # "none" ~> db.disputes[x].status \in Resolved
=============================================================================
