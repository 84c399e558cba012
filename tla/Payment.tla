------------------------------ MODULE Payment -------------------------------
(***************************************************************************)
(* Collecting money through a provider: internal/payment.                  *)
(*                                                                         *)
(* A payment has one attempt at a provider.  The provider's own view       *)
(* changes as the customer pays or fails to; webhooks hint at it, and they *)
(* are lost, repeated and reordered.  Jobs (the event processor, the       *)
(* poller, the expiry sweeper, an order's cancellation, an operator's      *)
(* manual sync) fetch the provider's view, and in a later transaction sync *)
(* the payment to it: what a job saw may be stale by then.                 *)
(***************************************************************************)
EXTENDS Books

CONSTANTS
    Payments,
    Purpose,    \* "wallet_topup" or "order"
    Amount,     \* what each payment asks for
    Reports,    \* the amounts the provider may report for each payment
    MaxBalance, \* the wallet type's maximum balance
    Workers     \* goroutines and requests that run jobs

ASSUME PaymentAssumption ==
    /\ Purpose \in [Payments -> {"wallet_topup", "order"}]
    /\ Amount \in [Payments -> Nat \ {0}]
    /\ Reports \in [Payments -> SUBSET (Nat \ {0})]
    /\ \A p \in Payments : Amount[p] \in Reports[p]
    /\ MaxBalance \in Nat

VARIABLES
    pay,    \* the payments and their attempts
    psp,    \* the provider's view of each payment
    books,  \* the journals posted for them
    orders, \* the status of the order each order payment collects for
    sent,   \* webhooks the provider has sent, and will send again
    inbox,  \* provider_events
    jobs    \* what each worker is doing

payVars == <<pay, psp, books, orders, sent, inbox, jobs>>

Open     == {"created", "pending", "authorized"}
Ended    == {"failed", "expired", "cancelled"}
Received == {"captured", "settled"}

PspStatus == {"unknown", "pending", "authorized", "captured", "failed", "cancelled"}

\* A webhook names a payment; what it claims about it is never trusted.  Each
\* change at the provider has an event of its own.
Events == Payments \X PspStatus

NoEvent == <<"none", "none">>

NoView == [status |-> "unknown", amount |-> 0]

Idle == [kind |-> "idle"]
Job == [kind : {"event", "poll", "expired", "cancelled"}, payment : Payments,
        event : Events \cup {NoEvent}, phase : {"fetch", "capture", "sync", "cancel", "close"},
        seen : [status : PspStatus, amount : Nat]]

PayTypeOK ==
    /\ pay \in [Payments ->
                  [status : {"absent"} \cup Open \cup Ended \cup Received,
                   application : {"pending", "applied", "unapplied", "suspense"},
                   captured : Nat, attempt : PspStatus, asked : BOOLEAN, lapsed : BOOLEAN]]
    /\ psp \in [Payments -> [status : PspStatus, amount : Nat]]
    /\ DOMAIN books \subseteq {"capture", "order"} \X Payments
    /\ orders \in [Payments -> {"pending_payment", "paid", "failed", "cancelled"}]
    /\ sent \subseteq Events
    /\ inbox \in [Events -> {"absent", "due", "processed"}]
    /\ jobs \in [Workers -> Job \cup {Idle}]

-----------------------------------------------------------------------------
(* The state machine                                                       *)

\* Mutants: every move is legal; a payment that is over stays over.
AnyTransition(from, to) == from # to

NoLateCapture(from, to) ==
    \/ from = "created" /\ to \in {"pending", "authorized", "captured"} \cup Ended
    \/ from = "pending" /\ to \in {"authorized", "captured"} \cup Ended
    \/ from = "authorized" /\ to \in {"captured"} \cup Ended
    \/ from = "captured" /\ to = "settled"

\* Which moves of a payment are legal.  A late capture is: the money is there.
CanTransition(from, to) ==
    \/ from = "created" /\ to \in {"pending", "authorized", "captured"} \cup Ended
    \/ from = "pending" /\ to \in {"authorized", "captured"} \cup Ended
    \/ from = "authorized" /\ to \in {"captured"} \cup Ended
    \/ from \in Ended /\ to = "captured"
    \/ from = "captured" /\ to = "settled"

FromProvider(s) == IF s = "unknown" THEN "created" ELSE s

\* Mutant: the order is not told.
OrderUntold(p, to) == orders

\* transition tells an order payment's order when it ends (PaymentEnded).
OrderAfter(p, to) ==
    IF Purpose[p] = "order" /\ orders[p] = "pending_payment" /\ to \in Ended
    THEN [orders EXCEPT ![p] = IF to = "cancelled" THEN "cancelled" ELSE "failed"]
    ELSE orders

-----------------------------------------------------------------------------
(* Opening a payment                                                       *)

Absent == [status |-> "absent", application |-> "pending", captured |-> 0,
           attempt |-> "unknown", asked |-> FALSE, lapsed |-> FALSE]

\* open: the provider answers with a checkout, or refuses or times out, and
\* then the payment is recorded as failed and never had a checkout.
CreatePayment(p) ==
    /\ pay[p].status = "absent"
    /\ \/ /\ pay' = [pay EXCEPT ![p].status = "pending", ![p].attempt = "pending",
                                ![p].asked = TRUE]
          /\ \E n \in Reports[p] : psp' = [psp EXCEPT ![p] = [status |-> "pending", amount |-> n]]
          /\ UNCHANGED orders
       \/ /\ pay' = [pay EXCEPT ![p].status = "failed", ![p].attempt = "failed"]
          /\ orders' = OrderAfter(p, "failed")
          /\ UNCHANGED psp
    /\ UNCHANGED <<books, sent, inbox, jobs>>

-----------------------------------------------------------------------------
(* The provider                                                            *)

\* The provider's view changes, and it sends a webhook about it.
Becomes(p, status) ==
    /\ psp' = [psp EXCEPT ![p].status = status]
    /\ sent' = sent \cup {<<p, status>>}

\* The customer pays at the checkout; also late, after the provider had
\* reported the payment failed.
CustomerPays(p) ==
    /\ psp[p].status \in {"pending", "failed"}
    /\ \E status \in {"authorized", "captured"} : Becomes(p, status)
    /\ UNCHANGED <<pay, books, orders, inbox, jobs>>

Decline(p) ==
    /\ psp[p].status = "pending"
    /\ Becomes(p, "failed")
    /\ UNCHANGED <<pay, books, orders, inbox, jobs>>

\* A webhook arrives, perhaps again, and is stored under its event id.
DeliverWebhook(e) ==
    /\ e \in sent
    /\ inbox[e] = "absent"
    /\ inbox' = [inbox EXCEPT ![e] = "due"]
    /\ UNCHANGED <<pay, psp, books, orders, sent, jobs>>

-----------------------------------------------------------------------------
(* Jobs                                                                    *)

Starts(w, kind, p, e) ==
    /\ jobs[w] = Idle
    /\ jobs' = [jobs EXCEPT ![w] = [kind |-> kind, payment |-> p, event |-> e,
                                    phase |-> "fetch", seen |-> NoView]]
    /\ UNCHANGED <<pay, psp, books, orders, sent, inbox>>

\* ProcessNextEvent claims a due event no other worker holds (SKIP LOCKED).
ClaimEvent(w, e) ==
    /\ inbox[e] = "due"
    /\ \A v \in Workers : jobs[v] # Idle => jobs[v].event # e
    /\ Starts(w, "event", e[1], e)

\* ListStalePayments: payments the provider knows, gone quiet while open.
StartPoll(w, p) ==
    /\ pay[p].status \in {"pending", "authorized"}
    /\ Starts(w, "poll", p, NoEvent)

\* SyncPayment: an operator may ask about any payment.
StartManualSync(w, p) ==
    /\ pay[p].asked
    /\ Starts(w, "poll", p, NoEvent)

\* expires_at passes; ListExpiredPayments then finds the payment.
Lapse(p) ==
    /\ pay[p].status \in Open /\ ~ pay[p].lapsed
    /\ pay' = [pay EXCEPT ![p].lapsed = TRUE]
    /\ UNCHANGED <<psp, books, orders, sent, inbox, jobs>>

StartExpire(w, p) ==
    /\ pay[p].status \in Open /\ pay[p].lapsed
    /\ Starts(w, "expired", p, NoEvent)

\* An order's cancellation closes its payment.
StartCancel(w, p) ==
    /\ Purpose[p] = "order" /\ orders[p] = "pending_payment" /\ pay[p].status \in Open
    /\ Starts(w, "cancelled", p, NoEvent)

Goes(w, phase, seen) == jobs' = [jobs EXCEPT ![w].phase = phase, ![w].seen = seen]
Finish(w) == jobs' = [jobs EXCEPT ![w] = Idle]

InPhase(w, phase) == jobs[w] # Idle /\ jobs[w].phase = phase

\* syncFromProvider, outside any lock on the payment.
Fetch(w) ==
    /\ InPhase(w, "fetch")
    /\ LET view == psp[jobs[w].payment]
       IN  Goes(w, IF view.status = "authorized" THEN "capture" ELSE "sync", view)
    /\ UNCHANGED <<pay, psp, books, orders, sent, inbox>>

\* An authorized payment is captured at the provider, and fetched again.
Capture(w) ==
    /\ InPhase(w, "capture")
    /\ LET p == jobs[w].payment
       IN  /\ psp[p].status \in {"authorized", "captured"}
           /\ IF psp[p].status = "authorized" THEN Becomes(p, "captured") ELSE UNCHANGED <<psp, sent>>
           /\ Goes(w, "sync", [status |-> "captured", amount |-> psp[p].amount])
    /\ UNCHANGED <<pay, books, orders, inbox>>

\* The provider is unavailable or refuses, the database fails, or the process
\* dies: the job is gone, and an event it had claimed is due again.
Abandon(w) ==
    /\ jobs[w] # Idle
    /\ Finish(w)
    /\ UNCHANGED <<pay, psp, books, orders, sent, inbox>>

-----------------------------------------------------------------------------
(* Syncing                                                                 *)

Wallet == "wallet"
CaptureId(p) == <<"capture", p>>  \* "payment:<id>:capture"
OrderId(p)   == <<"order", p>>    \* the order's own settlement journal

\* CaptureOrder: a pending order takes the money, unless a wallet share of it
\* is gone; then it fails, and the card money is owed back.
CaptureOrder(p, applied) ==
    /\ applied => orders[p] = "pending_payment"
    /\ orders' = [orders EXCEPT ![p] =
            CASE applied -> "paid" [] ~ applied /\ @ = "pending_payment" -> "failed" [] OTHER -> @]

\* applyCapture books what the provider captured, and says where it went.
\* A different amount than was asked for goes to suspense; the wallet refuses
\* what would take it past its maximum balance, which stands for every reason
\* that it denies a credit for; what nobody takes is owed back to the customer.
ApplyCapture(p, amount, application) ==
    /\ IF amount # Amount[p]
       THEN application = "suspense" /\ UNCHANGED orders
       ELSE IF Purpose[p] = "order"
       THEN application \in {"applied", "unapplied"} /\ CaptureOrder(p, application = "applied")
       ELSE /\ application = IF Balance(books, Wallet) + amount > MaxBalance
                             THEN "unapplied" ELSE "applied"
            /\ UNCHANGED orders
    /\ books' = IF application = "applied" /\ Purpose[p] = "order"
                THEN Post(books, OrderId(p), Journal("receivable", "sales", amount))
                ELSE Post(books, CaptureId(p), Journal("receivable",
                        CASE application = "suspense" -> "suspense"
                          [] application = "unapplied" -> "refunds_payable"
                          [] OTHER -> Wallet, amount))

\* Sync, in one transaction under the payment's lock.  The attempt is written
\* first; then a status the state machine does not allow changes nothing.
SyncPayment(p, seen) ==
    LET target == FromProvider(seen.status)
        allowed == target # pay[p].status /\ CanTransition(pay[p].status, target)
        synced == [pay[p] EXCEPT !.attempt = seen.status]
    IN  \/ /\ ~ allowed
           /\ pay' = [pay EXCEPT ![p] = synced]
           /\ UNCHANGED <<books, orders>>
        \/ /\ allowed /\ target = "captured"
           /\ \E application \in {"applied", "unapplied", "suspense"} :
                /\ ApplyCapture(p, seen.amount, application)
                /\ pay' = [pay EXCEPT ![p] = [synced EXCEPT !.status = "captured",
                              !.application = application, !.captured = seen.amount]]
        \/ /\ allowed /\ target # "captured"
           /\ pay' = [pay EXCEPT ![p] = [synced EXCEPT !.status = target]]
           /\ orders' = OrderAfter(p, target)
           /\ UNCHANGED books

\* An event's sync and its processed_at commit together.  An expiry or a
\* cancellation goes on to close a payment that is still open.
Sync(w) ==
    /\ InPhase(w, "sync")
    /\ LET job == jobs[w] IN
        /\ SyncPayment(job.payment, job.seen)
        /\ inbox' = IF job.kind = "event" THEN [inbox EXCEPT ![job.event] = "processed"] ELSE inbox
        /\ IF job.kind \in {"expired", "cancelled"} /\ pay'[job.payment].status \in Open
           THEN Goes(w, "cancel", job.seen) ELSE Finish(w)
    /\ UNCHANGED <<psp, sent>>

-----------------------------------------------------------------------------
(* Closing                                                                 *)

\* Mutant: whatever the provider answers.
CancelBlindly(w) ==
    /\ InPhase(w, "cancel")
    /\ LET p == jobs[w].payment IN
        IF psp[p].status \in {"pending", "authorized"}
        THEN Becomes(p, "cancelled") ELSE UNCHANGED <<psp, sent>>
    /\ Goes(w, "close", jobs[w].seen)
    /\ UNCHANGED <<pay, books, orders, inbox>>

\* close asks the provider to cancel; it refuses if the money was captured.
CancelAtProvider(w) ==
    /\ InPhase(w, "cancel")
    /\ LET p == jobs[w].payment IN
        IF psp[p].status = "captured"
        THEN Finish(w) /\ UNCHANGED <<psp, sent>>
        ELSE /\ IF psp[p].status \in {"pending", "authorized"}
                THEN Becomes(p, "cancelled") ELSE UNCHANGED <<psp, sent>>
             /\ Goes(w, "close", jobs[w].seen)
    /\ UNCHANGED <<pay, books, orders, inbox>>

\* Then closes the payment, unless another job got there first.
Close(w) ==
    /\ InPhase(w, "close")
    /\ LET p == jobs[w].payment
           to == jobs[w].kind
       IN  IF pay[p].status \in Open
           THEN /\ pay' = [pay EXCEPT ![p].status = to, ![p].attempt = "cancelled"]
                /\ orders' = OrderAfter(p, to)
           ELSE UNCHANGED <<pay, orders>>
    /\ Finish(w)
    /\ UNCHANGED <<psp, books, sent, inbox>>

\* MarkSettled: the provider paid the money out to the bank.
MarkSettled(p) ==
    /\ pay[p].status = "captured"
    /\ pay' = [pay EXCEPT ![p].status = "settled"]
    /\ UNCHANGED <<psp, books, orders, sent, inbox, jobs>>

-----------------------------------------------------------------------------
PayInit ==
    /\ pay = [p \in Payments |-> Absent]
    /\ psp = [p \in Payments |-> NoView]
    /\ books = NoBooks
    /\ orders = [p \in Payments |-> "pending_payment"]
    /\ sent = {}
    /\ inbox = [e \in Events |-> "absent"]
    /\ jobs = [w \in Workers |-> Idle]

Works(w) == Fetch(w) \/ Capture(w) \/ Sync(w) \/ CancelAtProvider(w) \/ Close(w)

PayNext ==
    \/ \E p \in Payments : \/ CreatePayment(p) \/ CustomerPays(p) \/ Decline(p)
                           \/ Lapse(p) \/ MarkSettled(p)
    \/ \E e \in Events : DeliverWebhook(e)
    \/ \E w \in Workers, e \in Events : ClaimEvent(w, e)
    \/ \E w \in Workers, p \in Payments :
           StartPoll(w, p) \/ StartManualSync(w, p) \/ StartExpire(w, p) \/ StartCancel(w, p)
    \/ \E w \in Workers : Works(w) \/ Abandon(w)

PaySpec == PayInit /\ [][PayNext]_payVars

-----------------------------------------------------------------------------
(* Safety                                                                  *)

JournalsOf(p) == {id \in DOMAIN books : id[2] = p}

\* A payment is recorded as received exactly when one journal books it, for
\* the sum the provider captured and where application says: "however many
\* times a capture is seen, the money is booked once" (applyCapture), also
\* when an order books it under an external id of its own.
ReceivedIsBookedOnce ==
    \A p \in Payments :
        IF pay[p].status \in Received
        THEN /\ psp[p] = [status |-> "captured", amount |-> pay[p].captured]
             /\ \E id \in DOMAIN books : JournalsOf(p) = {id}
             /\ \A id \in JournalsOf(p) :
                    books[id] = Journal("receivable",
                        CASE pay[p].application = "suspense" -> "suspense"
                          [] pay[p].application = "unapplied" -> "refunds_payable"
                          [] OTHER -> IF Purpose[p] = "order" THEN "sales" ELSE Wallet,
                        pay[p].captured)
        ELSE JournalsOf(p) = {} /\ pay[p].application = "pending"

\* What the payments, the order statuses and the journals amount to is
\* Collection: whatever jobs, webhooks and sweeps overtake each other, money is
\* credited once, for good, and the order learns of it in the same step.
Phase(p) ==
    CASE pay[p].status = "absent" -> "none" [] pay[p].status \in Open -> "open"
      [] pay[p].status \in Ended -> "closed" [] OTHER -> "received"

Collected ==
    INSTANCE Collection WITH
        Sums <- UNION {Reports[p] : p \in Payments},
        phase <- [p \in Payments |-> Phase(p)],
        credited <- [p \in Payments |->
                        {<<books[id].credit, books[id].amount>> : id \in JournalsOf(p)}]

ImplementsCollection == Collected!CollectionSpec

\* "an order can never disagree with its payment" (OrderHook): no order still
\* awaits a payment that is over.
OrderNeverStranded ==
    \A p \in Payments :
        Purpose[p] = "order" /\ orders[p] = "pending_payment"
            => pay[p].status \in Open \cup {"absent"}

\* "Only a payment the provider confirms as unpaid is cancelled there and
\* expired here" (Expire): a payment is closed on captured money only if the
\* provider had reported it failed first, and took it late.
ClosedUnpaidStep ==
    \A p \in Payments :
        /\ pay[p].status \in Open /\ pay'[p].status \in {"expired", "cancelled"}
        /\ psp[p].status = "captured"
        => <<p, "failed">> \in sent

ClosedUnpaid == [][ClosedUnpaidStep]_payVars

\* "A status the state machine does not allow from here [...] changes nothing"
\* (Sync): a captured payment's attempt keeps saying so.
StaleNewsStep ==
    \A p \in Payments :
        pay[p].status \in Received /\ pay[p].attempt = "captured"
            => pay'[p].attempt = "captured"

StaleNewsChangesNothing == [][StaleNewsStep]_payVars

-----------------------------------------------------------------------------
(* Liveness                                                                *)

\* No outage hits the same step of the same work for ever: what is retried
\* for ever succeeds in the end.
Of(p, A(_)) == \E w \in Workers : jobs[w] # Idle /\ jobs[w].payment = p /\ A(w)

Outlasts(p) == /\ SF_payVars(Of(p, Fetch)) /\ SF_payVars(Of(p, Capture)) /\ SF_payVars(Of(p, Sync))

\* The processor comes back to every event that is due, and the poller to
\* every stale payment.
Recovery(p) ==
    /\ SF_payVars(\E w \in Workers, e \in {p} \X PspStatus : ClaimEvent(w, e))
    /\ SF_payVars(\E w \in Workers : StartPoll(w, p))

PollPaySpec ==
    /\ PaySpec
    /\ \A w \in Workers : WF_payVars(Works(w) \/ Abandon(w))
    /\ \A p \in Payments : Outlasts(p) /\ Recovery(p)

\* And the provider repeats a webhook until it is acknowledged.
FairPaySpec ==
    /\ PollPaySpec
    /\ \A p \in Payments : WF_payVars(\E e \in {p} \X PspStatus : DeliverWebhook(e))

\* "a payment the provider captured is credited whether or not we ever hear
\* about it" (Poll).
CapturedIsBooked ==
    \A p \in Payments : psp[p].status = "captured" ~> pay[p].status \in Received
=============================================================================
