----------------------------- MODULE Withdrawal ------------------------------
(***************************************************************************)
(* Cashing a wallet out to a bank: internal/withdrawal/engine.go.          *)
(*                                                                         *)
(* As in Reversal, the database is one record and a transaction a function *)
(* of it; the provider is called from inside the transaction, and keeps    *)
(* what it accepted when the transaction is rolled back.  A caller who got *)
(* no answer repeats the request, and the withdrawal it then makes has an  *)
(* id of its own.                                                          *)
(***************************************************************************)
EXTENDS Books

CONSTANTS
    Requests,      \* the API requests, each with an idempotency key
    Withdrawals,   \* withdrawals, by their public id
    RequestOf,     \* the request each withdrawal is an attempt at
    Amount,        \* what each request asks for
    NeedsApproval, \* the requests above the wallet type's threshold
    Fund,          \* what the wallet starts with
    Workers

ASSUME WithdrawalAssumption ==
    /\ RequestOf \in [Withdrawals -> Requests]
    /\ Amount \in [Requests -> Nat \ {0}] /\ NeedsApproval \subseteq Requests
    /\ Fund \in Nat \ {0}

VARIABLES
    db,   \* the withdrawals and the books
    psp,  \* the provider's payouts, by the withdrawal's id
    jobs  \* what each worker fetched and is about to sync to

wdVars == <<db, psp, jobs>>

\* Nothing moves a withdrawal in these states but a person, or a bounce.
Waiting == {"pending_approval", "approved", "processing"}
Undone  == {"failed", "rejected", "reversed"}

Idle == [of |-> "nothing"]

WdTypeOK ==
    /\ db.status \in [Withdrawals -> {"absent", "paid"} \cup Waiting \cup Undone]
    /\ psp \in [Withdrawals -> {"none", "processing", "paid", "failed", "reversed"}]
    /\ jobs \in [Workers -> {Idle} \cup
           [of : Withdrawals, seen : {"processing", "paid", "failed", "reversed"}]]

AmountOf(x) == Amount[RequestOf[x]]

Posted(d, id, debit, credit, n) == [d EXCEPT !.books = Post(@, id, Journal(debit, credit, n))]

-----------------------------------------------------------------------------
(* What a transaction does                                                 *)

\* returnFunds reverses the debit, from wherever the money sits.
ReturnFunds(d, x, to, from) ==
    [Posted(d, <<to, x>>, from, "wallet", AmountOf(x)) EXCEPT !.status[x] = to]

Paid(d, x) ==
    IF d.status[x] = "paid" THEN d
    ELSE [Posted(d, <<"paid", x>>, "in_transit", "bank", AmountOf(x)) EXCEPT !.status[x] = "paid"]

\* Mutants: a bounce is returned without the payout that preceded it; news of a
\* withdrawal that is paid is ignored.
ApplyBounceAlone(d, x, seen) ==
    CASE seen = "processing" -> IF d.status[x] = "approved" THEN [d EXCEPT !.status[x] = "processing"] ELSE d
      [] seen = "paid" -> Paid(d, x)
      [] seen = "failed" -> ReturnFunds(d, x, "failed", "in_transit")
      [] seen = "reversed" -> ReturnFunds(d, x, "reversed", "bank")

ApplyUntilPaid(d, x, seen) ==
    CASE d.status[x] = "paid" \/ seen = "processing" -> d
      [] d.status[x] # "paid" /\ seen = "paid" -> Paid(d, x)
      [] d.status[x] # "paid" /\ seen = "failed" -> ReturnFunds(d, x, "failed", "in_transit")
      [] d.status[x] # "paid" /\ seen = "reversed" -> ReturnFunds(Paid(d, x), x, "reversed", "bank")

\* apply moves a withdrawal to the provider's view of its payout.
Apply(d, x, seen) ==
    CASE seen = "processing" -> IF d.status[x] = "approved" THEN [d EXCEPT !.status[x] = "processing"] ELSE d
      [] seen = "paid" -> Paid(d, x)
      [] seen = "failed" -> ReturnFunds(d, x, "failed", "in_transit")
      [] seen = "reversed" -> ReturnFunds(Paid(d, x), x, "reversed", "bank")

\* Mutant: no answer is taken for a refusal.
SubmitOrFail(d, x) ==
    LET asked == [psp EXCEPT ![x] = IF @ = "none" THEN "processing" ELSE @]
    IN  \/ psp' = asked /\ db' = Apply(d, x, asked[x])
        \/ psp' \in {psp, asked} /\ db' = ReturnFunds(d, x, "failed", "in_transit")

\* submit: the provider has one payout per withdrawal id, and answers with
\* what became of it; it refuses a new one; or it is unavailable, having
\* accepted or not.  The commit that follows may fail.
Submit(d, x) ==
    LET asked == [psp EXCEPT ![x] = IF @ = "none" THEN "processing" ELSE @]
    IN  \/ psp' = asked /\ db' \in {Apply(d, x, asked[x]), d, db}
        \/ /\ psp[x] = "none" /\ psp' = psp
           /\ db' \in {ReturnFunds(d, x, "failed", "in_transit"), d}

-----------------------------------------------------------------------------
(* Requests and decisions                                                  *)

\* Request takes the money out of the wallet at once.  Its idempotency key
\* lets a repeated request through only if no attempt has committed.
Request(x) ==
    LET r == RequestOf[x]
        d == Posted([db EXCEPT !.status[x] = IF r \in NeedsApproval THEN "pending_approval" ELSE "approved"],
                    <<"debit", x>>, "wallet", "in_transit", AmountOf(x))
    IN  /\ \A y \in Withdrawals : RequestOf[y] = r => db.status[y] = "absent"
        /\ psp[x] = "none"
        /\ Balance(db.books, "wallet") >= AmountOf(x)
        /\ IF r \in NeedsApproval THEN db' = d /\ UNCHANGED psp ELSE Submit(d, x)
        /\ UNCHANGED jobs

Approve(x) ==
    /\ db.status[x] = "pending_approval"
    /\ Submit([db EXCEPT !.status[x] = "approved"], x)
    /\ UNCHANGED jobs

Reject(x) ==
    /\ db.status[x] = "pending_approval"
    /\ db' = ReturnFunds(db, x, "rejected", "in_transit")
    /\ UNCHANGED <<psp, jobs>>

-----------------------------------------------------------------------------
(* Recovery                                                                *)

\* Poll submits an approved withdrawal again, under the same id.
Resubmit(x) ==
    /\ db.status[x] = "approved"
    /\ Submit(db, x)
    /\ UNCHANGED jobs

Fetch(w, x) ==
    /\ jobs[w] = Idle
    /\ psp[x] # "none"
    /\ jobs' = [jobs EXCEPT ![w] = [of |-> x, seen |-> psp[x]]]
    /\ UNCHANGED <<db, psp>>

\* ListOpenWithdrawals finds the ones in processing; a webhook may be about
\* any payout the database knows.
PollFetch(w, x) == db.status[x] = "processing" /\ Fetch(w, x)
WebhookFetch(w, x) == db.status[x] \in {"processing", "paid", "failed", "reversed"} /\ Fetch(w, x)

\* Mutant: a payout the provider is processing is taken for settled.
SyncApproved(w) ==
    /\ jobs[w] # Idle
    /\ LET x == jobs[w].of
       IN  db' = IF db.status[x] = "approved" THEN Apply(db, x, jobs[w].seen) ELSE db
    /\ jobs' = [jobs EXCEPT ![w] = Idle]
    /\ UNCHANGED psp

Sync(w) ==
    /\ jobs[w] # Idle
    /\ LET x == jobs[w].of
       IN  db' = IF db.status[x] \in Undone \cup {"pending_approval"} THEN db ELSE Apply(db, x, jobs[w].seen)
    /\ jobs' = [jobs EXCEPT ![w] = Idle]
    /\ UNCHANGED psp

Abandon(w) ==
    /\ jobs[w] # Idle
    /\ jobs' = [jobs EXCEPT ![w] = Idle]
    /\ UNCHANGED <<db, psp>>

-----------------------------------------------------------------------------
(* The provider, and the customer                                          *)

PayoutMoves(x, to) ==
    /\ \/ psp[x] = "processing" /\ to \in {"paid", "failed"}
       \/ psp[x] = "paid" /\ to = "reversed"
    /\ psp' = [psp EXCEPT ![x] = to]
    /\ UNCHANGED <<db, jobs>>

Spend(n) ==
    /\ <<"spend", n>> \notin DOMAIN db.books
    /\ Balance(db.books, "wallet") >= n
    /\ db' = Posted(db, <<"spend", n>>, "wallet", "sales", n)
    /\ UNCHANGED <<psp, jobs>>

-----------------------------------------------------------------------------
WdInit ==
    /\ db = [status |-> [x \in Withdrawals |-> "absent"],
             books |-> Post(NoBooks, <<"fund", "wallet">>, Journal("bank", "wallet", Fund))]
    /\ psp = [x \in Withdrawals |-> "none"]
    /\ jobs = [w \in Workers |-> Idle]

WdNext ==
    \/ \E x \in Withdrawals : \/ Request(x) \/ Approve(x) \/ Reject(x) \/ Resubmit(x)
                              \/ \E to \in {"paid", "failed", "reversed"} : PayoutMoves(x, to)
    \/ \E w \in Workers : \/ Sync(w) \/ Abandon(w)
                          \/ \E x \in Withdrawals : PollFetch(w, x) \/ WebhookFetch(w, x)
    \/ \E n \in 1 .. Fund : Spend(n)

WdSpec == WdInit /\ [][WdNext]_wdVars

-----------------------------------------------------------------------------
(* Safety                                                                  *)

Together(S) == Total([x \in S |-> AmountOf(x)], S)
In(S) == {x \in Withdrawals : db.status[x] \in S}

\* Every withdrawal's money is where its status says: in transit until it is
\* paid or undone, then at the bank or back in the wallet, once, however news
\* of it is repeated, skipped or late (apply, returnFunds).
MoneyIsWhereItSays ==
    /\ Balance(db.books, "in_transit") = Together(In(Waiting))
    /\ Balance(db.books, "bank") = Together(In({"paid"})) - Fund
    /\ Balance(db.books, "wallet") >= 0

\* A withdrawal said to be over ended that way at the provider.
OutcomesAgree ==
    \A x \in Withdrawals :
        /\ db.status[x] = "paid" => psp[x] \in {"paid", "reversed"}
        /\ db.status[x] = "failed" => psp[x] \in {"none", "failed"}
        /\ db.status[x] = "reversed" => psp[x] = "reversed"

\* "failed / rejected: never left; the money went back to the wallet"
\* (000016_withdrawals).
RejectedNeverLeft ==
    \A x \in Withdrawals : db.status[x] = "rejected" => psp[x] \in {"none", "failed"}

\* "Retrying is safe" (docs/runbooks): one request is paid out once.
PaidOncePerRequest ==
    \A x, y \in Withdrawals :
        RequestOf[x] = RequestOf[y] /\ psp[x] = "paid" /\ psp[y] = "paid" => x = y

-----------------------------------------------------------------------------
(* Liveness                                                                *)

\* The poller comes round, no outage lasts, and the provider decides.
PollWdSpec ==
    /\ WdSpec
    /\ \A w \in Workers : WF_wdVars(Sync(w) \/ Abandon(w))
    /\ \A x \in Withdrawals :
          /\ SF_wdVars(Resubmit(x) /\ db'.status[x] # "approved")
          /\ SF_wdVars(\E w \in Workers : PollFetch(w, x))
          /\ SF_wdVars(\E w \in Workers : jobs[w] # Idle /\ jobs[w].of = x /\ Sync(w))
          /\ WF_wdVars(PayoutMoves(x, "paid") \/ PayoutMoves(x, "failed"))

\* And the provider repeats its webhooks until they are acknowledged.
FairWdSpec == PollWdSpec /\ \A x \in Withdrawals : SF_wdVars(\E w \in Workers : WebhookFetch(w, x))

\* A withdrawal that was cleared to send is paid, or its money comes back.
WithdrawalsEnd ==
    \A x \in Withdrawals :
        db.status[x] \in {"approved", "processing"} ~> db.status[x] \in {"paid", "failed", "reversed"}

\* A payout that bounced comes back to the wallet: "a missed bounce would
\* leave a customer's money nowhere" (pollWithdrawals).
BouncesComeBack ==
    \A x \in Withdrawals :
        db.status[x] = "paid" /\ psp[x] = "reversed" ~> db.status[x] = "reversed"
=============================================================================
