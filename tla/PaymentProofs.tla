---------------------------- MODULE PaymentProofs ----------------------------
(***************************************************************************)
(* That a payment is booked once, for what the provider captured, that no  *)
(* captured payment is closed as unpaid, and that Payment implements       *)
(* Collection, for any payments, amounts, webhooks and workers.            *)
(*                                                                         *)
(* Jobs act on what they saw earlier.  What makes that safe is that the    *)
(* provider never takes back a capture or a cancellation (NewsStaysTrue):  *)
(* a job that saw one, or asked for one, still knows the truth when it     *)
(* syncs (JobFits).                                                        *)
(***************************************************************************)
EXTENDS Payment, TLAPS

Statuses == {"absent"} \cup Open \cup Ended \cup Received

PayRow == [status : Statuses, application : {"pending", "applied", "unapplied", "suspense"},
           captured : Nat, attempt : PspStatus, asked : BOOLEAN, lapsed : BOOLEAN]

View == [status : PspStatus, amount : Nat]

\* The account a payment's money is booked to.
CreditOf(p, application) ==
    CASE application = "suspense" -> "suspense"
      [] application = "unapplied" -> "refunds_payable"
      [] OTHER -> IF Purpose[p] = "order" THEN "sales" ELSE Wallet

JournalsIn(b, p) == {id \in DOMAIN b : id[2] = p}

\* ReceivedIsBookedOnce, of one payment.
BookedOnce(p) ==
    IF pay[p].status \in Received
    THEN /\ psp[p] = [status |-> "captured", amount |-> pay[p].captured]
         /\ \E id \in DOMAIN books : JournalsIn(books, p) = {id}
         /\ \A id \in JournalsIn(books, p) :
                books[id] = Journal("receivable", CreditOf(p, pay[p].application), pay[p].captured)
    ELSE JournalsIn(books, p) = {} /\ pay[p].application = "pending"

\* The provider only knows payments we opened, and reports its failures.
PspFits(p) ==
    /\ pay[p].asked => pay[p].status # "absent"
    /\ psp[p].status # "unknown" => pay[p].status # "absent" /\ psp[p].amount \in Reports[p]
    /\ psp[p].status = "failed" => <<p, "failed">> \in sent
    /\ \A s \in PspStatus : <<p, s>> \in sent => pay[p].status # "absent"

InboxFits == \A e \in Events : inbox[e] = "due" => e \in sent

\* What a job knows is still true: a capture or a cancellation it saw, and
\* that the payment it is about to close cannot be paid any more, unless the
\* provider had reported it failed.
JobFits(w) ==
    jobs[w] # Idle =>
        LET job == jobs[w]
            p == job.payment
        IN  /\ pay[p].status # "absent"
            /\ job.seen.status = "captured" => psp[p] = job.seen
            /\ job.seen.status = "cancelled" => psp[p].status = "cancelled"
            /\ job.phase \in {"cancel", "close"} => job.kind \in {"expired", "cancelled"}
            /\ job.phase = "close" =>
                  psp[p].status \in {"unknown", "cancelled"} \/ <<p, "failed">> \in sent

PayInv ==
    /\ PayTypeOK
    /\ \A p \in Payments : PspFits(p) /\ BookedOnce(p)
    /\ InboxFits
    /\ \A w \in Workers : JobFits(w)

-----------------------------------------------------------------------------
(* What every step has to show                                             *)

LEMMA PayFacts ==
  ASSUME PayInv
  PROVE  /\ pay \in [Payments -> PayRow] /\ psp \in [Payments -> View]
         /\ orders \in [Payments -> {"pending_payment", "paid", "failed", "cancelled"}]
         /\ sent \in SUBSET Events /\ inbox \in [Events -> {"absent", "due", "processed"}]
         /\ jobs \in [Workers -> Job \cup {Idle}]
         /\ DOMAIN books \subseteq {"capture", "order"} \X Payments
         /\ \A p \in Payments : PspFits(p) /\ BookedOnce(p)
         /\ InboxFits
         /\ \A w \in Workers : JobFits(w)
BY DEF PayInv, PayTypeOK, PayRow, View, Statuses

\* What the provider has captured or cancelled, or never heard of, stays so.
NewsStaysTrue ==
    /\ \A p \in Payments :
          /\ pay[p].status # "absent" => pay'[p].status # "absent"
          /\ psp[p].status \in {"captured", "cancelled"} => psp'[p] = psp[p]
          /\ pay[p].status # "absent" /\ psp[p].status = "unknown" => psp'[p].status = "unknown"
    /\ sent \subseteq sent'

SameMoney(p) ==
    /\ pay'[p].status \in Received <=> pay[p].status \in Received
    /\ pay'[p].application = pay[p].application /\ pay'[p].captured = pay[p].captured

SameJournals(p) ==
    /\ JournalsIn(books', p) = JournalsIn(books, p)
    /\ \A id \in JournalsIn(books, p) : books'[id] = books[id]

LEMMA JobStaysFit ==
  ASSUME PayInv, NewsStaysTrue, NEW w \in Workers, jobs'[w] = jobs[w]
  PROVE  JobFits(w)'
<1> SUFFICES ASSUME jobs[w] # Idle
             PROVE  LET job == jobs[w]
                        p == job.payment
                    IN  /\ pay'[p].status # "absent"
                        /\ job.seen.status = "captured" => psp'[p] = job.seen
                        /\ job.seen.status = "cancelled" => psp'[p].status = "cancelled"
                        /\ job.phase \in {"cancel", "close"} => job.kind \in {"expired", "cancelled"}
                        /\ job.phase = "close" =>
                              psp'[p].status \in {"unknown", "cancelled"} \/ <<p, "failed">> \in sent'
    BY DEF JobFits
<1> DEFINE job == jobs[w]
           p == job.payment
<1>1. job \in Job /\ p \in Payments
    BY PayFacts DEF Job
<1>2. JobFits(w)
    BY PayFacts
<1>3. pay[p].status # "absent" /\ pay'[p].status # "absent"
    BY <1>1, <1>2 DEF JobFits, NewsStaysTrue
<1>4. job.seen.status = "captured" => psp[p] = job.seen /\ psp[p].status = "captured"
    BY <1>1, <1>2 DEF JobFits
<1>5. /\ job.seen.status = "captured" => psp'[p] = job.seen
      /\ job.seen.status = "cancelled" => psp'[p].status = "cancelled"
    BY <1>1, <1>2, <1>4 DEF JobFits, NewsStaysTrue
<1>6. job.phase \in {"cancel", "close"} => job.kind \in {"expired", "cancelled"}
    BY <1>2 DEF JobFits
<1>7. job.phase = "close" => psp'[p].status \in {"unknown", "cancelled"} \/ <<p, "failed">> \in sent'
    BY <1>1, <1>2, <1>3 DEF JobFits, NewsStaysTrue
<1> QED BY <1>3, <1>5, <1>6, <1>7

LEMMA BookingStays ==
  ASSUME PayInv, NewsStaysTrue, NEW p \in Payments, SameMoney(p), SameJournals(p)
  PROVE  BookedOnce(p)'
<1>1. BookedOnce(p) /\ psp \in [Payments -> View]
    BY PayFacts
<1>2. CASE pay[p].status \in Received
    <2>1. psp[p] = [status |-> "captured", amount |-> pay[p].captured]
        BY <1>1, <1>2 DEF BookedOnce
    <2>2. psp'[p] = psp[p]
        BY <2>1 DEF NewsStaysTrue
    <2>3. psp'[p] = [status |-> "captured", amount |-> pay'[p].captured]
        BY <2>1, <2>2 DEF SameMoney
    <2>4. PICK id \in DOMAIN books : JournalsIn(books, p) = {id}
        BY <1>1, <1>2 DEF BookedOnce
    <2>5. JournalsIn(books', p) = {id} /\ id \in DOMAIN books' /\ books'[id] = books[id]
        BY <2>4 DEF SameJournals, JournalsIn
    <2>6. books[id] = Journal("receivable", CreditOf(p, pay[p].application), pay[p].captured)
        BY <1>1, <1>2, <2>4 DEF BookedOnce
    <2>7. books'[id] = Journal("receivable", CreditOf(p, pay'[p].application), pay'[p].captured)
        BY <2>5, <2>6 DEF SameMoney
    <2> QED BY <1>2, <2>3, <2>5, <2>7 DEF BookedOnce, SameMoney
<1>3. CASE pay[p].status \notin Received
    BY <1>1, <1>3 DEF BookedOnce, SameMoney, SameJournals
<1> QED BY <1>2, <1>3

LEMMA StepKeepsInv ==
  ASSUME PayInv, NewsStaysTrue,
         pay' \in [Payments -> PayRow], psp' \in [Payments -> View],
         DOMAIN books' \subseteq {"capture", "order"} \X Payments,
         orders' \in [Payments -> {"pending_payment", "paid", "failed", "cancelled"}],
         sent' \in SUBSET Events, inbox' \in [Events -> {"absent", "due", "processed"}],
         jobs' \in [Workers -> Job \cup {Idle}],
         \A p \in Payments : PspFits(p)', \A p \in Payments : BookedOnce(p)', InboxFits',
         \A w \in Workers : jobs'[w] = jobs[w] \/ JobFits(w)'
  PROVE  PayInv'
<1>1. \A w \in Workers : JobFits(w)'
    BY JobStaysFit
<1>2. PayTypeOK'
    BY DEF PayTypeOK, PayRow, View, Statuses
<1> QED BY <1>1, <1>2 DEF PayInv

\* A step in which only the payment p moves, and no money.
LEMMA PaymentMoves ==
  ASSUME PayInv, NEW p \in Payments, NEW row \in PayRow, pay' = [pay EXCEPT ![p] = row],
         row.status # "absent", row.application = pay[p].application, row.captured = pay[p].captured,
         row.status \in Received <=> pay[p].status \in Received
  PROVE  /\ pay' \in [Payments -> PayRow]
         /\ pay'[p] = row /\ \A q \in Payments \ {p} : pay'[q] = pay[q]
         /\ \A q \in Payments : pay'[q] = pay[q] \/ pay'[q].status # "absent"
         /\ \A q \in Payments : SameMoney(q)
<1>1. pay \in [Payments -> PayRow]
    BY PayFacts
<1>2. /\ pay' \in [Payments -> PayRow]
      /\ pay'[p] = row /\ \A q \in Payments \ {p} : pay'[q] = pay[q]
    BY <1>1
<1>3. ASSUME NEW q \in Payments PROVE SameMoney(q)
    BY <1>2 DEF SameMoney
<1> QED BY <1>2, <1>3

LEMMA JournalsStay ==
  ASSUME books' = books, NEW p PROVE SameJournals(p)
BY DEF SameJournals, JournalsIn

LEMMA ProviderStays ==
  ASSUME PayInv, UNCHANGED <<psp, sent>>,
         \A q \in Payments : pay'[q] = pay[q] \/ pay'[q].status # "absent"
  PROVE  NewsStaysTrue /\ \A q \in Payments : PspFits(q)'
<1>1. \A q \in Payments : PspFits(q)
    BY PayFacts
<1>2. ASSUME NEW q \in Payments PROVE PspFits(q)'
    BY <1>1 DEF PspFits
<1> QED BY <1>2 DEF NewsStaysTrue

\* A step that only moves the job of one worker.
LEMMA JobStep ==
  ASSUME PayInv, UNCHANGED <<pay, psp, books, orders, sent, inbox>>,
         NEW w \in Workers, NEW job \in Job \cup {Idle}, jobs' = [jobs EXCEPT ![w] = job],
         JobFits(w)'
  PROVE  PayInv'
<1>1. NewsStaysTrue /\ \A p \in Payments : PspFits(p)'
    BY ProviderStays
<1>2. \A p \in Payments : BookedOnce(p)'
    BY <1>1, BookingStays, JournalsStay DEF SameMoney
<1>3. jobs' \in [Workers -> Job \cup {Idle}] /\ \A v \in Workers : jobs'[v] = jobs[v] \/ v = w
    BY PayFacts
<1>4. InboxFits'
    BY PayFacts DEF InboxFits
<1> QED BY <1>1, <1>2, <1>3, <1>4, PayFacts, StepKeepsInv

\* The provider's view of a payment it has not decided yet changes.
LEMMA ProviderMoves ==
  ASSUME PayInv, NEW p \in Payments, NEW status \in PspStatus \ {"unknown"},
         psp[p].status \in {"pending", "authorized", "failed"}, Becomes(p, status), UNCHANGED pay
  PROVE  /\ psp' \in [Payments -> View] /\ sent' \in SUBSET Events
         /\ psp'[p] = [status |-> status, amount |-> psp[p].amount]
         /\ NewsStaysTrue /\ \A q \in Payments : PspFits(q)'
<1> DEFINE view == [psp[p] EXCEPT !.status = status]
<1>1. psp \in [Payments -> View] /\ sent \in SUBSET Events /\ \A q \in Payments : PspFits(q)
    BY PayFacts
<1>2. view \in View /\ view = [status |-> status, amount |-> psp[p].amount]
    BY <1>1 DEF View
<1>3. psp' = [psp EXCEPT ![p] = view] /\ sent' = sent \cup {<<p, status>>}
    BY DEF Becomes
<1> HIDE DEF view
<1>4. psp' \in [Payments -> View] /\ psp'[p] = view /\ \A q \in Payments \ {p} : psp'[q] = psp[q]
    BY <1>1, <1>2, <1>3
<1>5. sent' \in SUBSET Events
    BY <1>1, <1>3 DEF Events
<1>6. NewsStaysTrue
    BY <1>3, <1>4 DEF NewsStaysTrue
<1>7. ASSUME NEW q \in Payments PROVE PspFits(q)'
    <2>1. pay[p].status # "absent" /\ psp[p].amount \in Reports[p]
        BY <1>1 DEF PspFits
    <2>2. CASE q = p
        <3>1. psp'[p].status = status /\ psp'[p].amount = psp[p].amount
            BY <1>2, <1>4
        <3> QED BY <1>3, <2>1, <2>2, <3>1 DEF PspFits
    <2>3. CASE q # p
        <3>1. psp'[q] = psp[q] /\ \A s \in PspStatus : <<q, s>> \in sent' <=> <<q, s>> \in sent
            BY <1>3, <1>4, <2>3
        <3>2. <<q, "failed">> \in sent' <=> <<q, "failed">> \in sent
            BY <3>1 DEF PspStatus
        <3> QED BY <1>1, <3>1, <3>2 DEF PspFits
    <2> QED BY <2>2, <2>3
<1> QED BY <1>2, <1>4, <1>5, <1>6, <1>7

-----------------------------------------------------------------------------
(* Opening a payment, the provider and the clock                           *)

LEMMA InitIsSound == PayInit => PayInv
<1> SUFFICES ASSUME PayInit PROVE PayInv
    OBVIOUS
<1>1. DOMAIN books = {}
    BY DEF PayInit, NoBooks
<1>2. PayTypeOK
    BY <1>1 DEF PayInit, PayTypeOK, Absent, NoView, PspStatus, Idle
<1>3. ASSUME NEW p \in Payments PROVE PspFits(p) /\ BookedOnce(p)
    <2>1. JournalsIn(books, p) = {}
        BY <1>1 DEF JournalsIn
    <2> QED BY <2>1 DEF PayInit, PspFits, BookedOnce, Absent, NoView, Received
<1>4. InboxFits /\ \A w \in Workers : JobFits(w)
    BY DEF PayInit, InboxFits, JobFits
<1> QED BY <1>2, <1>3, <1>4 DEF PayInv

\* An order that is told of a payment's end keeps a status of its own.
LEMMA OrderAfterType ==
  ASSUME PayInv, NEW p \in Payments, NEW to \in Open \cup Ended
  PROVE  OrderAfter(p, to) \in [Payments -> {"pending_payment", "paid", "failed", "cancelled"}]
BY PayFacts DEF OrderAfter

LEMMA CreateStep ==
  ASSUME PayInv, NEW p \in Payments, CreatePayment(p)
  PROVE  PayInv'
<1>1. /\ pay \in [Payments -> PayRow] /\ psp \in [Payments -> View] /\ \A q \in Payments : PspFits(q)
      /\ orders \in [Payments -> {"pending_payment", "paid", "failed", "cancelled"}]
    BY PayFacts
<1>2. pay[p].status = "absent" /\ UNCHANGED <<books, sent, inbox, jobs>>
    BY DEF CreatePayment
<1>3. psp[p].status = "unknown" /\ \A s \in PspStatus : <<p, s>> \notin sent
    BY <1>1, <1>2 DEF PspFits
<1>4. InboxFits'
    BY <1>2, PayFacts DEF InboxFits
<1>5. CASE /\ pay' = [pay EXCEPT ![p].status = "pending", ![p].attempt = "pending", ![p].asked = TRUE]
           /\ \E n \in Reports[p] : psp' = [psp EXCEPT ![p] = [status |-> "pending", amount |-> n]]
           /\ orders' = orders
    <2> DEFINE row == [pay[p] EXCEPT !.status = "pending", !.attempt = "pending", !.asked = TRUE]
    <2>1. /\ row \in PayRow /\ row.status = "pending" /\ row.application = pay[p].application
          /\ row.captured = pay[p].captured
        <3>1. pay[p] \in PayRow
            BY <1>1
        <3> QED BY <3>1 DEF PayRow, Statuses, Open, PspStatus
    <2>2. pay' = [pay EXCEPT ![p] = row]
        BY <1>5
    <2> HIDE DEF row
    <2>3. /\ pay' \in [Payments -> PayRow] /\ pay'[p] = row
          /\ \A q \in Payments : pay'[q] = pay[q] \/ pay'[q].status # "absent"
          /\ \A q \in Payments : SameMoney(q)
        BY <1>2, <2>1, <2>2, PaymentMoves DEF Received
    <2>4. PICK n \in Reports[p] : psp' = [psp EXCEPT ![p] = [status |-> "pending", amount |-> n]]
        BY <1>5
    <2>5. n \in Nat
        BY PaymentAssumption
    <2>6. [status |-> "pending", amount |-> n] \in View
        BY <2>5 DEF View, PspStatus
    <2>7. /\ psp' \in [Payments -> View] /\ psp'[p].status = "pending" /\ psp'[p].amount = n
          /\ \A q \in Payments \ {p} : psp'[q] = psp[q]
        BY <1>1, <2>4, <2>6
    <2>8. NewsStaysTrue
        BY <1>2, <1>3, <2>3, <2>7 DEF NewsStaysTrue
    <2>9. ASSUME NEW q \in Payments PROVE PspFits(q)'
        <3>1. CASE q = p
            BY <1>2, <1>3, <2>1, <2>3, <2>4, <2>7, <3>1 DEF PspFits
        <3>2. CASE q # p
            <4>1. psp'[q] = psp[q] /\ (pay'[q] = pay[q] \/ pay'[q].status # "absent")
                BY <2>3, <2>7, <3>2
            <4> QED BY <1>1, <1>2, <4>1 DEF PspFits
        <3> QED BY <3>1, <3>2
    <2>10. \A q \in Payments : BookedOnce(q)'
        BY <1>2, <2>3, <2>8, BookingStays, JournalsStay
    <2> QED BY <1>2, <1>4, <1>5, <2>3, <2>7, <2>8, <2>9, <2>10, PayFacts, StepKeepsInv
<1>6. CASE /\ pay' = [pay EXCEPT ![p].status = "failed", ![p].attempt = "failed"]
           /\ orders' = OrderAfter(p, "failed")
           /\ psp' = psp
    <2> DEFINE row == [pay[p] EXCEPT !.status = "failed", !.attempt = "failed"]
    <2>1. /\ row \in PayRow /\ row.status = "failed" /\ row.application = pay[p].application
          /\ row.captured = pay[p].captured
        <3>1. pay[p] \in PayRow
            BY <1>1
        <3> QED BY <3>1 DEF PayRow, Statuses, Ended, PspStatus
    <2>2. pay' = [pay EXCEPT ![p] = row]
        BY <1>6
    <2> HIDE DEF row
    <2>3. /\ pay' \in [Payments -> PayRow]
          /\ \A q \in Payments : pay'[q] = pay[q] \/ pay'[q].status # "absent"
          /\ \A q \in Payments : SameMoney(q)
        BY <1>2, <2>1, <2>2, PaymentMoves DEF Received
    <2>4. NewsStaysTrue /\ \A q \in Payments : PspFits(q)'
        BY <1>2, <1>6, <2>3, ProviderStays
    <2>5. \A q \in Payments : BookedOnce(q)'
        BY <1>2, <2>3, <2>4, BookingStays, JournalsStay
    <2>6. orders' \in [Payments -> {"pending_payment", "paid", "failed", "cancelled"}]
        BY <1>6, OrderAfterType DEF Ended
    <2> QED BY <1>2, <1>4, <1>6, <2>3, <2>4, <2>5, <2>6, PayFacts, StepKeepsInv
<1> QED BY <1>5, <1>6 DEF CreatePayment

LEMMA ProviderStep ==
  ASSUME PayInv, NEW p \in Payments, CustomerPays(p) \/ Decline(p)
  PROVE  PayInv'
<1>1. /\ psp[p].status \in {"pending", "failed"}
      /\ \E status \in {"authorized", "captured", "failed"} : Becomes(p, status)
      /\ UNCHANGED <<pay, books, orders, inbox, jobs>>
    BY DEF CustomerPays, Decline
<1>2. PICK status \in {"authorized", "captured", "failed"} : Becomes(p, status)
    BY <1>1
<1>3. status \in PspStatus \ {"unknown"}
    BY DEF PspStatus
<1>4. /\ psp' \in [Payments -> View] /\ sent' \in SUBSET Events
      /\ NewsStaysTrue /\ \A q \in Payments : PspFits(q)'
    BY <1>1, <1>2, <1>3, ProviderMoves
<1>5. \A q \in Payments : BookedOnce(q)'
    BY <1>1, <1>4, BookingStays, JournalsStay DEF SameMoney
<1>6. InboxFits'
    BY <1>1, <1>4, PayFacts DEF InboxFits, NewsStaysTrue
<1> QED BY <1>1, <1>4, <1>5, <1>6, PayFacts, StepKeepsInv

LEMMA LapseStep ==
  ASSUME PayInv, NEW p \in Payments, Lapse(p) \/ MarkSettled(p)
  PROVE  PayInv'
<1> DEFINE lapsed == [pay[p] EXCEPT !.lapsed = TRUE]
           paidout == [pay[p] EXCEPT !.status = "settled"]
<1>1. pay \in [Payments -> PayRow] /\ pay[p] \in PayRow
    BY PayFacts
<1>2. UNCHANGED <<psp, books, orders, sent, inbox, jobs>>
    BY DEF Lapse, MarkSettled
<1>3. PICK row \in PayRow : /\ pay' = [pay EXCEPT ![p] = row]
                            /\ row.status # "absent" /\ row.application = pay[p].application
                            /\ row.captured = pay[p].captured
                            /\ row.status \in Received <=> pay[p].status \in Received
    <2>1. CASE Lapse(p)
        <3>1. lapsed \in PayRow /\ pay' = [pay EXCEPT ![p] = lapsed]
            BY <1>1, <2>1 DEF Lapse, PayRow
        <3>2. /\ lapsed.status = pay[p].status /\ lapsed.application = pay[p].application
              /\ lapsed.captured = pay[p].captured /\ pay[p].status \in Open
            BY <1>1, <2>1 DEF Lapse, PayRow
        <3> QED BY <3>1, <3>2 DEF Open
    <2>2. CASE MarkSettled(p)
        <3>1. paidout \in PayRow /\ pay' = [pay EXCEPT ![p] = paidout]
            BY <1>1, <2>2 DEF MarkSettled, PayRow, Statuses, Received
        <3>2. /\ paidout.status = "settled" /\ paidout.application = pay[p].application
              /\ paidout.captured = pay[p].captured /\ pay[p].status = "captured"
            BY <1>1, <2>2 DEF MarkSettled, PayRow
        <3> QED BY <3>1, <3>2 DEF Received
    <2> QED BY <2>1, <2>2
<1>4. /\ pay' \in [Payments -> PayRow]
      /\ \A q \in Payments : pay'[q] = pay[q] \/ pay'[q].status # "absent"
      /\ \A q \in Payments : SameMoney(q)
    BY <1>3, PaymentMoves
<1>5. NewsStaysTrue /\ \A q \in Payments : PspFits(q)'
    BY <1>2, <1>4, ProviderStays
<1>6. \A q \in Payments : BookedOnce(q)'
    BY <1>2, <1>4, <1>5, BookingStays, JournalsStay
<1>7. InboxFits'
    BY <1>2, PayFacts DEF InboxFits
<1> QED BY <1>2, <1>4, <1>5, <1>6, <1>7, PayFacts, StepKeepsInv

LEMMA WebhookStep ==
  ASSUME PayInv, NEW e \in Events, DeliverWebhook(e)
  PROVE  PayInv'
<1>1. /\ e \in sent /\ inbox' = [inbox EXCEPT ![e] = "due"]
      /\ UNCHANGED <<pay, psp, books, orders, sent, jobs>>
    BY DEF DeliverWebhook
<1>2. NewsStaysTrue /\ \A q \in Payments : PspFits(q)'
    BY <1>1, ProviderStays
<1>3. \A q \in Payments : BookedOnce(q)'
    BY <1>1, <1>2, BookingStays, JournalsStay DEF SameMoney
<1>4. InboxFits' /\ inbox' \in [Events -> {"absent", "due", "processed"}]
    BY <1>1, PayFacts DEF InboxFits
<1> QED BY <1>1, <1>2, <1>3, <1>4, PayFacts, StepKeepsInv

-----------------------------------------------------------------------------
(* Jobs                                                                    *)

LEMMA StartStep ==
  ASSUME PayInv, NEW w \in Workers,
         \/ \E e \in Events : ClaimEvent(w, e)
         \/ \E p \in Payments : StartPoll(w, p) \/ StartManualSync(w, p) \/ StartExpire(w, p) \/ StartCancel(w, p)
  PROVE  PayInv'
<1>1. PICK kind \in {"event", "poll", "expired", "cancelled"}, p \in Payments, e \in Events \cup {NoEvent} :
          Starts(w, kind, p, e) /\ pay[p].status # "absent"
    <2>1. CASE \E e \in Events : ClaimEvent(w, e)
        <3>1. PICK e \in Events : ClaimEvent(w, e)
            BY <2>1
        <3>2. PICK p \in Payments, s \in PspStatus : e = <<p, s>>
            BY DEF Events
        <3>3. e \in sent /\ PspFits(p)
            BY <3>1, PayFacts DEF ClaimEvent, InboxFits
        <3>4. pay[p].status # "absent"
            BY <3>2, <3>3 DEF PspFits
        <3>5. Starts(w, "event", p, e)
            BY <3>1, <3>2 DEF ClaimEvent
        <3> QED BY <3>4, <3>5
    <2>2. CASE \E p \in Payments : StartPoll(w, p) \/ StartManualSync(w, p) \/ StartExpire(w, p) \/ StartCancel(w, p)
        <3>1. PICK p \in Payments : StartPoll(w, p) \/ StartManualSync(w, p) \/ StartExpire(w, p) \/ StartCancel(w, p)
            BY <2>2
        <3>2. \E kind \in {"poll", "expired", "cancelled"} : Starts(w, kind, p, NoEvent)
            BY <3>1 DEF StartPoll, StartManualSync, StartExpire, StartCancel
        <3>3. pay[p].status # "absent"
            <4>1. CASE StartManualSync(w, p)
                BY <4>1, PayFacts DEF StartManualSync, PspFits
            <4>2. CASE StartPoll(w, p) \/ StartExpire(w, p) \/ StartCancel(w, p)
                BY <4>2 DEF StartPoll, StartExpire, StartCancel, Open
            <4> QED BY <3>1, <4>1, <4>2
        <3> QED BY <3>2, <3>3
    <2> QED BY <2>1, <2>2
<1> DEFINE job == [kind |-> kind, payment |-> p, event |-> e, phase |-> "fetch", seen |-> NoView]
<1>2. job \in Job /\ jobs' = [jobs EXCEPT ![w] = job] /\ UNCHANGED <<pay, psp, books, orders, sent, inbox>>
    BY <1>1 DEF Starts, Job, NoView, PspStatus
<1>3. jobs'[w] = job
    BY <1>2, PayFacts
<1>4. JobFits(w)'
    BY <1>1, <1>2, <1>3 DEF JobFits, NoView
<1> QED BY <1>2, <1>4, JobStep

\* The job of a worker that is at work.
LEMMA AtWork ==
  ASSUME PayInv, NEW w \in Workers, jobs[w] # Idle
  PROVE  jobs[w] \in Job /\ jobs[w].payment \in Payments /\ jobs[w].seen \in View /\ JobFits(w)
BY PayFacts DEF Job, View

LEMMA AbandonStep ==
  ASSUME PayInv, NEW w \in Workers, Abandon(w)
  PROVE  PayInv'
<1>1. jobs' = [jobs EXCEPT ![w] = Idle] /\ UNCHANGED <<pay, psp, books, orders, sent, inbox>>
    BY DEF Abandon, Finish
<1>2. JobFits(w)'
    BY <1>1, PayFacts DEF JobFits
<1> QED BY <1>1, <1>2, JobStep

LEMMA FetchStep ==
  ASSUME PayInv, NEW w \in Workers, Fetch(w)
  PROVE  PayInv'
<1> DEFINE p == jobs[w].payment
           phase == IF psp[p].status = "authorized" THEN "capture" ELSE "sync"
           job == [jobs[w] EXCEPT !.phase = phase, !.seen = psp[p]]
<1>1. jobs[w] # Idle /\ UNCHANGED <<pay, psp, books, orders, sent, inbox>>
    BY DEF Fetch, InPhase
<1>2. jobs[w] \in Job /\ p \in Payments /\ psp[p] \in View /\ JobFits(w)
    BY <1>1, AtWork, PayFacts
<1>3. job \in Job /\ job.payment = p /\ job.phase = phase /\ job.seen = psp[p]
    BY <1>2 DEF Job, View
<1>4. jobs' = [jobs EXCEPT ![w] = job]
    BY DEF Fetch, Goes
<1> HIDE DEF job
<1>5. jobs'[w] = job
    BY <1>3, <1>4, PayFacts
<1>6. pay[p].status # "absent"
    BY <1>1, <1>2 DEF JobFits
<1>7. JobFits(w)'
    BY <1>1, <1>3, <1>5, <1>6 DEF JobFits
<1> QED BY <1>1, <1>3, <1>4, <1>7, JobStep

\* The provider's part of Capture and CancelAtProvider.
LEMMA AsksProvider ==
  ASSUME PayInv, NEW p \in Payments, NEW status \in {"captured", "cancelled"},
         IF psp[p].status \in {"pending", "authorized"} THEN Becomes(p, status) ELSE UNCHANGED <<psp, sent>>,
         UNCHANGED <<pay, books, orders, inbox>>
  PROVE  /\ psp' \in [Payments -> View] /\ sent' \in SUBSET Events /\ InboxFits'
         /\ psp'[p] = IF psp[p].status \in {"pending", "authorized"}
                      THEN [status |-> status, amount |-> psp[p].amount] ELSE psp[p]
         /\ NewsStaysTrue
         /\ \A q \in Payments : PspFits(q)'
         /\ \A q \in Payments : BookedOnce(q)'
<1>1. CASE psp[p].status \in {"pending", "authorized"}
    <2>1. Becomes(p, status) /\ status \in PspStatus \ {"unknown"}
        BY <1>1 DEF PspStatus
    <2>2. /\ psp' \in [Payments -> View] /\ sent' \in SUBSET Events
          /\ psp'[p] = [status |-> status, amount |-> psp[p].amount]
          /\ NewsStaysTrue /\ \A q \in Payments : PspFits(q)'
        BY <1>1, <2>1, ProviderMoves
    <2>3. \A q \in Payments : BookedOnce(q)'
        BY <2>2, BookingStays, JournalsStay DEF SameMoney
    <2>4. InboxFits'
        BY <2>2, PayFacts DEF InboxFits, NewsStaysTrue
    <2> QED BY <1>1, <2>2, <2>3, <2>4
<1>2. CASE psp[p].status \notin {"pending", "authorized"}
    <2>1. UNCHANGED <<psp, sent>>
        BY <1>2
    <2>2. NewsStaysTrue /\ \A q \in Payments : PspFits(q)'
        BY <2>1, ProviderStays
    <2>3. \A q \in Payments : BookedOnce(q)'
        BY <2>2, BookingStays, JournalsStay DEF SameMoney
    <2>4. InboxFits'
        BY <2>1, PayFacts DEF InboxFits
    <2> QED BY <1>2, <2>1, <2>2, <2>3, <2>4, PayFacts
<1> QED BY <1>1, <1>2

LEMMA CaptureStep ==
  ASSUME PayInv, NEW w \in Workers, Capture(w)
  PROVE  PayInv'
<1> DEFINE p == jobs[w].payment
           seen == [status |-> "captured", amount |-> psp[p].amount]
           job == [jobs[w] EXCEPT !.phase = "sync", !.seen = seen]
<1>1. /\ jobs[w] # Idle /\ psp[p].status \in {"authorized", "captured"}
      /\ IF psp[p].status = "authorized" THEN Becomes(p, "captured") ELSE UNCHANGED <<psp, sent>>
      /\ UNCHANGED <<pay, books, orders, inbox>>
    BY DEF Capture, InPhase
<1>2. jobs[w] \in Job /\ p \in Payments /\ psp[p] \in View /\ JobFits(w)
    BY <1>1, AtWork, PayFacts
<1>3. job \in Job /\ job.payment = p /\ job.phase = "sync" /\ job.seen = seen
    BY <1>2 DEF Job, View, PspStatus
<1>4. jobs' = [jobs EXCEPT ![w] = job]
    BY DEF Capture, Goes
<1> HIDE DEF job
<1>5. jobs' \in [Workers -> Job \cup {Idle}] /\ jobs'[w] = job /\ \A v \in Workers : v = w \/ jobs'[v] = jobs[v]
    BY <1>3, <1>4, PayFacts
<1>6. /\ psp' \in [Payments -> View] /\ sent' \in SUBSET Events /\ InboxFits'
      /\ psp'[p] = IF psp[p].status \in {"pending", "authorized"} THEN seen ELSE psp[p]
      /\ NewsStaysTrue
      /\ \A q \in Payments : PspFits(q)'
      /\ \A q \in Payments : BookedOnce(q)'
    <2>1. IF psp[p].status \in {"pending", "authorized"}
          THEN Becomes(p, "captured") ELSE UNCHANGED <<psp, sent>>
        BY <1>1
    <2> QED BY <1>1, <1>2, <2>1, AsksProvider
<1>7. psp'[p] = seen
    <2>1. CASE psp[p].status = "authorized"
        BY <1>6, <2>1
    <2>2. CASE psp[p].status = "captured"
        BY <1>2, <1>6, <2>2 DEF View
    <2> QED BY <1>1, <2>1, <2>2
<1>8. pay[p].status # "absent"
    BY <1>1, <1>2 DEF JobFits
<1>9. JobFits(w)'
    BY <1>1, <1>3, <1>5, <1>7, <1>8 DEF JobFits
<1> QED BY <1>1, <1>5, <1>6, <1>9, PayFacts, StepKeepsInv

LEMMA CancelStep ==
  ASSUME PayInv, NEW w \in Workers, CancelAtProvider(w)
  PROVE  PayInv'
<1> DEFINE p == jobs[w].payment
           job == [jobs[w] EXCEPT !.phase = "close", !.seen = jobs[w].seen]
<1>1. jobs[w] # Idle /\ jobs[w].phase = "cancel" /\ UNCHANGED <<pay, books, orders, inbox>>
    BY DEF CancelAtProvider, InPhase
<1>2. /\ jobs[w] \in Job /\ p \in Payments /\ psp[p] \in View /\ JobFits(w) /\ PspFits(p)
      /\ pay[p].status # "absent" /\ jobs[w].kind \in {"expired", "cancelled"}
    BY <1>1, AtWork, PayFacts DEF JobFits
<1>3. CASE psp[p].status = "captured" /\ Finish(w) /\ UNCHANGED <<psp, sent>>
    <2>1. jobs' = [jobs EXCEPT ![w] = Idle]
        BY <1>3 DEF Finish
    <2>2. JobFits(w)'
        BY <2>1, PayFacts DEF JobFits
    <2> QED BY <1>1, <1>3, <2>1, <2>2, JobStep
<1>4. CASE /\ psp[p].status # "captured"
           /\ IF psp[p].status \in {"pending", "authorized"} THEN Becomes(p, "cancelled") ELSE UNCHANGED <<psp, sent>>
           /\ Goes(w, "close", jobs[w].seen)
    <2>1. job \in Job /\ job.payment = p /\ job.phase = "close" /\ job.seen = jobs[w].seen /\ job.kind = jobs[w].kind
        BY <1>2 DEF Job
    <2>2. jobs' = [jobs EXCEPT ![w] = job]
        BY <1>4 DEF Goes
    <2> HIDE DEF job
    <2>3. jobs' \in [Workers -> Job \cup {Idle}] /\ jobs'[w] = job /\ \A v \in Workers : v = w \/ jobs'[v] = jobs[v]
        BY <2>1, <2>2, PayFacts
    <2>4. /\ psp' \in [Payments -> View] /\ sent' \in SUBSET Events /\ InboxFits'
          /\ psp'[p] = IF psp[p].status \in {"pending", "authorized"}
                       THEN [status |-> "cancelled", amount |-> psp[p].amount] ELSE psp[p]
          /\ NewsStaysTrue
          /\ \A q \in Payments : PspFits(q)'
          /\ \A q \in Payments : BookedOnce(q)'
        BY <1>1, <1>2, <1>4, AsksProvider
    <2>5. psp'[p].status \in {"unknown", "cancelled"} \/ <<p, "failed">> \in sent'
        <3>1. CASE psp[p].status \in {"pending", "authorized"}
            BY <2>4, <3>1
        <3>2. CASE psp[p].status \in {"unknown", "failed", "cancelled"}
            BY <1>2, <2>4, <3>2 DEF PspFits, NewsStaysTrue
        <3> QED BY <1>2, <1>4, <3>1, <3>2 DEF View, PspStatus
    <2>6. job.seen.status = "captured" => psp'[p] = job.seen
        <3>1. job.seen.status = "captured" => psp[p] = job.seen
            BY <1>1, <1>2, <2>1 DEF JobFits
        <3> QED BY <1>4, <3>1
    <2>7. job.seen.status = "cancelled" => psp'[p].status = "cancelled"
        <3>1. job.seen.status = "cancelled" => psp[p].status = "cancelled"
            BY <1>1, <1>2, <2>1 DEF JobFits
        <3> QED BY <1>2, <3>1, <2>4 DEF NewsStaysTrue
    <2>8. JobFits(w)'
        BY <1>1, <1>2, <2>1, <2>3, <2>5, <2>6, <2>7 DEF JobFits
    <2> QED BY <1>1, <2>3, <2>4, <2>8, PayFacts, StepKeepsInv
<1> QED BY <1>3, <1>4 DEF CancelAtProvider

LEMMA CloseStep ==
  ASSUME PayInv, NEW w \in Workers, Close(w)
  PROVE  PayInv'
<1> DEFINE p == jobs[w].payment
           to == jobs[w].kind
           row == [pay[p] EXCEPT !.status = to, !.attempt = "cancelled"]
<1>1. jobs[w] # Idle /\ jobs[w].phase = "close" /\ UNCHANGED <<psp, books, sent, inbox>>
    BY DEF Close, InPhase
<1>2. /\ jobs[w] \in Job /\ p \in Payments /\ to \in {"expired", "cancelled"}
    BY <1>1, AtWork DEF JobFits
<1>3. jobs' \in [Workers -> Job \cup {Idle}] /\ jobs'[w] = Idle /\ \A v \in Workers : v = w \/ jobs'[v] = jobs[v]
    BY PayFacts DEF Close, Finish
<1>4. JobFits(w)'
    BY <1>3 DEF JobFits
<1>5. InboxFits'
    BY <1>1, PayFacts DEF InboxFits
<1>6. /\ pay' \in [Payments -> PayRow]
      /\ \A q \in Payments : pay'[q] = pay[q] \/ pay'[q].status # "absent"
      /\ \A q \in Payments : SameMoney(q)
      /\ orders' \in [Payments -> {"pending_payment", "paid", "failed", "cancelled"}]
    <2>1. CASE /\ pay[p].status \in Open
               /\ pay' = [pay EXCEPT ![p].status = to, ![p].attempt = "cancelled"]
               /\ orders' = OrderAfter(p, to)
        <3>1. /\ row \in PayRow /\ row.status = to /\ row.application = pay[p].application
              /\ row.captured = pay[p].captured
            <4>1. pay[p] \in PayRow
                BY <1>2, PayFacts
            <4> QED BY <1>2, <4>1 DEF PayRow, Statuses, Ended, PspStatus
        <3>2. pay' = [pay EXCEPT ![p] = row]
            BY <2>1
        <3>3. row.status \notin Received /\ pay[p].status \notin Received /\ row.status # "absent"
            BY <1>2, <2>1, <3>1 DEF Open, Received
        <3> HIDE DEF row
        <3>4. /\ pay' \in [Payments -> PayRow]
              /\ \A q \in Payments : pay'[q] = pay[q] \/ pay'[q].status # "absent"
              /\ \A q \in Payments : SameMoney(q)
            BY <1>2, <3>1, <3>2, <3>3, PaymentMoves
        <3>5. orders' \in [Payments -> {"pending_payment", "paid", "failed", "cancelled"}]
            BY <1>2, <2>1, OrderAfterType DEF Ended
        <3> QED BY <3>4, <3>5
    <2>2. CASE UNCHANGED <<pay, orders>>
        BY <2>2, PayFacts DEF SameMoney
    <2> QED BY <2>1, <2>2 DEF Close
<1>7. NewsStaysTrue /\ \A q \in Payments : PspFits(q)'
    BY <1>1, <1>6, ProviderStays
<1>8. \A q \in Payments : BookedOnce(q)'
    BY <1>1, <1>6, <1>7, BookingStays, JournalsStay
<1> QED BY <1>1, <1>3, <1>4, <1>5, <1>6, <1>7, <1>8, PayFacts, StepKeepsInv

-----------------------------------------------------------------------------
(* Syncing                                                                 *)

\* The money of p is in the books by one journal, this one.
BookedAs(p, journal) ==
    \E id \in DOMAIN books' : JournalsIn(books', p) = {id} /\ books'[id] = journal

\* What applyCapture posts for a payment that has no journal yet.
LEMMA CaptureIsBooked ==
  ASSUME PayInv, NEW p \in Payments, pay[p].status \notin Received,
         NEW amount \in Nat, NEW application \in {"applied", "unapplied", "suspense"},
         ApplyCapture(p, amount, application)
  PROVE  /\ BookedAs(p, Journal("receivable", CreditOf(p, application), amount))
         /\ \A q \in Payments \ {p} : SameJournals(q)
         /\ DOMAIN books' \subseteq {"capture", "order"} \X Payments
<1> DEFINE journal == Journal("receivable", CreditOf(p, application), amount)
<1>1. JournalsIn(books, p) = {} /\ DOMAIN books \subseteq {"capture", "order"} \X Payments
    BY PayFacts DEF BookedOnce
<1>2. PICK id \in {CaptureId(p), OrderId(p)} : books' = Post(books, id, journal)
    BY DEF ApplyCapture, CreditOf
<1>3. id \in {"capture", "order"} \X Payments /\ id[2] = p
    BY DEF CaptureId, OrderId
<1> HIDE DEF journal
<1>4. id \notin DOMAIN books
    BY <1>1, <1>3 DEF JournalsIn
<1>5. /\ DOMAIN books' = DOMAIN books \cup {id} /\ books'[id] = journal
      /\ \A x \in DOMAIN books : books'[x] = books[x]
    BY <1>2, <1>4 DEF Post
<1>6. JournalsIn(books', p) = {id}
    BY <1>1, <1>3, <1>5 DEF JournalsIn
<1>7. BookedAs(p, journal)
    BY <1>5, <1>6 DEF BookedAs
<1>8. ASSUME NEW q \in Payments \ {p} PROVE SameJournals(q)
    BY <1>3, <1>5 DEF SameJournals, JournalsIn
<1>9. DOMAIN books' \subseteq {"capture", "order"} \X Payments
    BY <1>1, <1>3, <1>5
<1> QED BY <1>7, <1>8, <1>9 DEF journal

LEMMA CapturedOrderType ==
  ASSUME PayInv, NEW p \in Payments, NEW amount, NEW application, ApplyCapture(p, amount, application)
  PROVE  orders' \in [Payments -> {"pending_payment", "paid", "failed", "cancelled"}]
BY PayFacts DEF ApplyCapture, CaptureOrder

\* The money arrives, by a job whose news is still true.
LEMMA ReceiptIsSound ==
  ASSUME PayInv, NEW p \in Payments, NEW seen \in View, seen.status = "captured", psp[p] = seen,
         pay[p].status \in Open \cup Ended,
         NEW application \in {"applied", "unapplied", "suspense"}, ApplyCapture(p, seen.amount, application),
         pay' = [pay EXCEPT ![p] = [[pay[p] EXCEPT !.attempt = seen.status] EXCEPT !.status = "captured",
                                       !.application = application, !.captured = seen.amount]],
         UNCHANGED <<psp, sent>>
  PROVE  /\ pay' \in [Payments -> PayRow]
         /\ \A q \in Payments : pay'[q] = pay[q] \/ pay'[q].status # "absent"
         /\ pay'[p].status = "captured"
         /\ \A q \in Payments : BookedOnce(q)'
<1> DEFINE row == [[pay[p] EXCEPT !.attempt = seen.status] EXCEPT !.status = "captured",
                     !.application = application, !.captured = seen.amount]
<1>1. /\ row \in PayRow /\ row.status = "captured" /\ row.application = application
      /\ row.captured = seen.amount
    <2>1. pay[p] \in PayRow /\ seen.amount \in Nat /\ seen.status \in PspStatus
        BY PayFacts DEF View
    <2> QED BY <2>1 DEF PayRow, Statuses, Received
<1>2. pay' = [pay EXCEPT ![p] = row]
    OBVIOUS
<1> HIDE DEF row
<1>3. pay' \in [Payments -> PayRow] /\ pay'[p] = row /\ \A q \in Payments \ {p} : pay'[q] = pay[q]
    BY <1>1, <1>2, PayFacts
<1>4. NewsStaysTrue
    BY <1>1, <1>3, ProviderStays
<1>5. pay[p].status \notin Received /\ seen.amount \in Nat
    BY DEF Open, Ended, Received, View
<1>6. /\ BookedAs(p, Journal("receivable", CreditOf(p, application), seen.amount))
      /\ \A q \in Payments \ {p} : SameJournals(q)
    BY <1>5, CaptureIsBooked
<1>7. ASSUME NEW q \in Payments PROVE BookedOnce(q)'
    <2>1. CASE q = p
        <3>1. psp'[p] = [status |-> "captured", amount |-> pay'[p].captured]
            BY <1>1, <1>3 DEF View
        <3>2. PICK id \in DOMAIN books' : /\ JournalsIn(books', p) = {id}
                  /\ books'[id] = Journal("receivable", CreditOf(p, application), seen.amount)
            BY <1>6 DEF BookedAs
        <3>3. /\ pay'[p].status \in Received /\ pay'[p].application = application
              /\ pay'[p].captured = seen.amount
            BY <1>1, <1>3 DEF Received
        <3>4. books'[id] = Journal("receivable", CreditOf(p, pay'[p].application), pay'[p].captured)
            BY <3>2, <3>3
        <3> QED BY <2>1, <3>1, <3>2, <3>3, <3>4 DEF BookedOnce
    <2>2. CASE q # p
        <3>1. SameMoney(q) /\ SameJournals(q)
            BY <1>3, <1>6, <2>2 DEF SameMoney
        <3> QED BY <1>4, <3>1, BookingStays
    <2> QED BY <2>1, <2>2
<1> QED BY <1>1, <1>3, <1>7

\* A sync that books nothing.
LEMMA OtherSyncIsSound ==
  ASSUME PayInv, NEW p \in Payments, NEW seen \in View, pay[p].status # "absent",
         NEW status \in Open \cup Ended \cup {pay[p].status},
         status = pay[p].status \/ pay[p].status \in Open,
         pay' = [pay EXCEPT ![p] = [[pay[p] EXCEPT !.attempt = seen.status] EXCEPT !.status = status]],
         UNCHANGED <<psp, sent, books>>
  PROVE  /\ pay' \in [Payments -> PayRow]
         /\ \A q \in Payments : pay'[q] = pay[q] \/ pay'[q].status # "absent"
         /\ pay'[p].status = status
         /\ \A q \in Payments : BookedOnce(q)'
<1> DEFINE row == [[pay[p] EXCEPT !.attempt = seen.status] EXCEPT !.status = status]
<1>1. /\ row \in PayRow /\ row.status = status /\ row.application = pay[p].application
      /\ row.captured = pay[p].captured
    <2>1. pay[p] \in PayRow /\ seen.status \in PspStatus
        BY PayFacts DEF View
    <2> QED BY <2>1 DEF PayRow, Statuses, Open, Ended
<1>2. pay' = [pay EXCEPT ![p] = row]
    OBVIOUS
<1> HIDE DEF row
<1>3. row.status # "absent" /\ (row.status \in Received <=> pay[p].status \in Received)
    BY <1>1 DEF Open, Ended, Received
<1>4. /\ pay' \in [Payments -> PayRow] /\ pay'[p] = row
      /\ \A q \in Payments : pay'[q] = pay[q] \/ pay'[q].status # "absent"
      /\ \A q \in Payments : SameMoney(q)
    BY <1>1, <1>2, <1>3, PaymentMoves
<1>5. \A q \in Payments : BookedOnce(q)'
    BY <1>4, ProviderStays, BookingStays, JournalsStay
<1> QED BY <1>1, <1>4, <1>5

\* What syncing a payment to a view of it comes to.
LEMMA SyncCases ==
  ASSUME PayInv, NEW p \in Payments, NEW seen \in View, pay[p].status # "absent", SyncPayment(p, seen)
  PROVE  \/ /\ pay' = [pay EXCEPT ![p] = [[pay[p] EXCEPT !.attempt = seen.status] EXCEPT !.status = pay[p].status]]
            /\ UNCHANGED <<books, orders>>
         \/ /\ seen.status = "captured" /\ pay[p].status \in Open \cup Ended
            /\ \E application \in {"applied", "unapplied", "suspense"} :
                 /\ ApplyCapture(p, seen.amount, application)
                 /\ pay' = [pay EXCEPT ![p] = [[pay[p] EXCEPT !.attempt = seen.status] EXCEPT !.status = "captured",
                               !.application = application, !.captured = seen.amount]]
         \/ \E status \in {"pending", "authorized", "failed", "cancelled"} :
                 /\ seen.status = status /\ pay[p].status \in Open
                 /\ pay' = [pay EXCEPT ![p] = [[pay[p] EXCEPT !.attempt = seen.status] EXCEPT !.status = status]]
                 /\ orders' = OrderAfter(p, status)
                 /\ books' = books
<1> DEFINE target == FromProvider(seen.status)
           synced == [pay[p] EXCEPT !.attempt = seen.status]
<1>1. pay[p] \in PayRow /\ seen.status \in PspStatus
    BY PayFacts DEF View
<1>2. CASE pay' = [pay EXCEPT ![p] = synced] /\ UNCHANGED <<books, orders>>
    <2>1. synced = [synced EXCEPT !.status = pay[p].status]
        BY <1>1 DEF PayRow
    <2> QED BY <1>2, <2>1
<1>3. ASSUME target # pay[p].status, CanTransition(pay[p].status, target)
      PROVE  /\ target = seen.status /\ target \in PspStatus \ {"unknown"}
             /\ pay[p].status \in Open \cup Ended
             /\ target # "captured" => pay[p].status \in Open
    BY <1>1, <1>3 DEF FromProvider, CanTransition, PayRow, PspStatus, Open, Ended
<1>4. CASE /\ target # pay[p].status /\ CanTransition(pay[p].status, target) /\ target = "captured"
           /\ \E application \in {"applied", "unapplied", "suspense"} :
                /\ ApplyCapture(p, seen.amount, application)
                /\ pay' = [pay EXCEPT ![p] = [synced EXCEPT !.status = "captured",
                              !.application = application, !.captured = seen.amount]]
    BY <1>3, <1>4
<1>5. CASE /\ target # pay[p].status /\ CanTransition(pay[p].status, target) /\ target # "captured"
           /\ pay' = [pay EXCEPT ![p] = [synced EXCEPT !.status = target]]
           /\ orders' = OrderAfter(p, target)
           /\ UNCHANGED books
    <2>1. /\ target = seen.status /\ target \in {"pending", "authorized", "failed", "cancelled"}
          /\ pay[p].status \in Open
        BY <1>3, <1>5 DEF PspStatus
    <2> HIDE DEF target
    <2> QED BY <1>5, <2>1
<1> QED BY <1>2, <1>4, <1>5 DEF SyncPayment

LEMMA SyncStep ==
  ASSUME PayInv, NEW w \in Workers, Sync(w)
  PROVE  PayInv'
<1> DEFINE p == jobs[w].payment
           seen == jobs[w].seen
           kind == jobs[w].kind
           closing == [jobs[w] EXCEPT !.phase = "cancel", !.seen = jobs[w].seen]
<1>1. jobs[w] # Idle /\ SyncPayment(p, seen) /\ UNCHANGED <<psp, sent>>
    BY DEF Sync, InPhase
<1>2. /\ jobs[w] \in Job /\ p \in Payments /\ seen \in View /\ JobFits(w)
      /\ pay[p].status # "absent" /\ (seen.status = "captured" => psp[p] = seen)
    BY <1>1, AtWork DEF JobFits
<1>3. /\ pay' \in [Payments -> PayRow]
      /\ \A q \in Payments : pay'[q] = pay[q] \/ pay'[q].status # "absent"
      /\ orders' \in [Payments -> {"pending_payment", "paid", "failed", "cancelled"}]
      /\ DOMAIN books' \subseteq {"capture", "order"} \X Payments
      /\ \A q \in Payments : BookedOnce(q)'
    <2> HIDE DEF p, seen
    <2>1. CASE /\ pay' = [pay EXCEPT ![p] = [[pay[p] EXCEPT !.attempt = seen.status] EXCEPT !.status = pay[p].status]]
               /\ UNCHANGED <<books, orders>>
        <3>1. /\ pay' \in [Payments -> PayRow]
              /\ \A q \in Payments : pay'[q] = pay[q] \/ pay'[q].status # "absent"
              /\ \A q \in Payments : BookedOnce(q)'
            BY <1>1, <1>2, <2>1, OtherSyncIsSound
        <3> QED BY <2>1, <3>1, PayFacts
    <2>2. CASE /\ seen.status = "captured" /\ pay[p].status \in Open \cup Ended
               /\ \E application \in {"applied", "unapplied", "suspense"} :
                    /\ ApplyCapture(p, seen.amount, application)
                    /\ pay' = [pay EXCEPT ![p] = [[pay[p] EXCEPT !.attempt = seen.status] EXCEPT !.status = "captured",
                                  !.application = application, !.captured = seen.amount]]
        <3>1. PICK application \in {"applied", "unapplied", "suspense"} :
                 /\ ApplyCapture(p, seen.amount, application)
                 /\ pay' = [pay EXCEPT ![p] = [[pay[p] EXCEPT !.attempt = seen.status] EXCEPT !.status = "captured",
                               !.application = application, !.captured = seen.amount]]
            BY <2>2
        <3>2. /\ pay' \in [Payments -> PayRow]
              /\ \A q \in Payments : pay'[q] = pay[q] \/ pay'[q].status # "absent"
              /\ \A q \in Payments : BookedOnce(q)'
            BY <1>1, <1>2, <2>2, <3>1, ReceiptIsSound
        <3>3. pay[p].status \notin Received /\ seen.amount \in Nat
            BY <1>2, <2>2 DEF Open, Ended, Received, View
        <3>4. DOMAIN books' \subseteq {"capture", "order"} \X Payments
            BY <1>2, <3>1, <3>3, CaptureIsBooked
        <3>5. orders' \in [Payments -> {"pending_payment", "paid", "failed", "cancelled"}]
            BY <1>2, <3>1, CapturedOrderType
        <3> QED BY <3>2, <3>4, <3>5
    <2>3. ASSUME NEW status \in {"pending", "authorized", "failed", "cancelled"},
                 pay[p].status \in Open,
                 pay' = [pay EXCEPT ![p] = [[pay[p] EXCEPT !.attempt = seen.status] EXCEPT !.status = status]],
                 orders' = OrderAfter(p, status), books' = books
          PROVE  /\ pay' \in [Payments -> PayRow]
                 /\ \A q \in Payments : pay'[q] = pay[q] \/ pay'[q].status # "absent"
                 /\ orders' \in [Payments -> {"pending_payment", "paid", "failed", "cancelled"}]
                 /\ DOMAIN books' \subseteq {"capture", "order"} \X Payments
                 /\ \A q \in Payments : BookedOnce(q)'
        <3>1. status \in Open \cup Ended
            BY DEF Open, Ended
        <3>2. /\ pay' \in [Payments -> PayRow]
              /\ \A q \in Payments : pay'[q] = pay[q] \/ pay'[q].status # "absent"
              /\ \A q \in Payments : BookedOnce(q)'
            BY <1>1, <1>2, <2>3, <3>1, OtherSyncIsSound
        <3>3. orders' \in [Payments -> {"pending_payment", "paid", "failed", "cancelled"}]
            BY <1>2, <2>3, <3>1, OrderAfterType
        <3> QED BY <2>3, <3>2, <3>3, PayFacts
    <2> QED BY <1>1, <1>2, <2>1, <2>2, <2>3, SyncCases
<1>4. NewsStaysTrue /\ \A q \in Payments : PspFits(q)'
    BY <1>1, <1>3, ProviderStays
<1>5. InboxFits' /\ inbox' \in [Events -> {"absent", "due", "processed"}]
    <2>1. inbox' = IF kind = "event" THEN [inbox EXCEPT ![jobs[w].event] = "processed"] ELSE inbox
        BY DEF Sync
    <2> QED BY <1>1, <2>1, PayFacts DEF InboxFits
<1>6. \/ jobs' = [jobs EXCEPT ![w] = Idle]
      \/ kind \in {"expired", "cancelled"} /\ jobs' = [jobs EXCEPT ![w] = closing]
    BY DEF Sync, Goes, Finish
<1>7. /\ closing \in Job /\ closing.payment = p /\ closing.seen = seen /\ closing.kind = kind
      /\ closing.phase = "cancel"
    BY <1>2 DEF Job
<1> HIDE DEF closing
<1>8. /\ jobs' \in [Workers -> Job \cup {Idle}] /\ \A v \in Workers : v = w \/ jobs'[v] = jobs[v]
      /\ jobs'[w] = Idle \/ (kind \in {"expired", "cancelled"} /\ jobs'[w] = closing)
    BY <1>6, <1>7, PayFacts
<1>9. JobFits(w)'
    <2>1. pay'[p].status # "absent"
        BY <1>2, <1>3
    <2>2. seen.status = "captured" => psp'[p] = seen
        BY <1>1, <1>2
    <2>3. seen.status = "cancelled" => psp'[p].status = "cancelled"
        BY <1>1, <1>2 DEF JobFits
    <2>4. CASE jobs'[w] = Idle
        BY <2>4 DEF JobFits
    <2>5. CASE kind \in {"expired", "cancelled"} /\ jobs'[w] = closing
        BY <1>7, <2>1, <2>2, <2>3, <2>5 DEF JobFits
    <2> QED BY <1>8, <2>4, <2>5
<1> QED BY <1>1, <1>3, <1>4, <1>5, <1>8, <1>9, PayFacts, StepKeepsInv

-----------------------------------------------------------------------------
(* Payments are booked once, and closed only unpaid                        *)

LEMMA NextIsSound == PayInv /\ [PayNext]_payVars => PayInv'
<1> SUFFICES ASSUME PayInv, [PayNext]_payVars PROVE PayInv'
    OBVIOUS
<1>1. ASSUME NEW p \in Payments,
             CreatePayment(p) \/ CustomerPays(p) \/ Decline(p) \/ Lapse(p) \/ MarkSettled(p)
      PROVE  PayInv'
    BY <1>1, CreateStep, ProviderStep, LapseStep
<1>2. ASSUME NEW e \in Events, DeliverWebhook(e) PROVE PayInv'
    BY <1>2, WebhookStep
<1>3. ASSUME NEW w \in Workers, NEW e \in Events, ClaimEvent(w, e) PROVE PayInv'
    BY <1>3, StartStep
<1>4. ASSUME NEW w \in Workers, NEW p \in Payments,
             StartPoll(w, p) \/ StartManualSync(w, p) \/ StartExpire(w, p) \/ StartCancel(w, p)
      PROVE  PayInv'
    BY <1>4, StartStep
<1>5. ASSUME NEW w \in Workers, Works(w) \/ Abandon(w) PROVE PayInv'
    BY <1>5, FetchStep, CaptureStep, SyncStep, CancelStep, CloseStep, AbandonStep DEF Works
<1>6. CASE UNCHANGED payVars
    <2>1. UNCHANGED <<pay, psp, books, orders, sent, inbox, jobs>>
        BY <1>6 DEF payVars
    <2>2. NewsStaysTrue /\ \A p \in Payments : PspFits(p)'
        BY <2>1, ProviderStays
    <2>3. \A p \in Payments : BookedOnce(p)'
        BY <2>1, <2>2, BookingStays, JournalsStay DEF SameMoney
    <2>4. InboxFits'
        BY <2>1, PayFacts DEF InboxFits
    <2> QED BY <2>1, <2>2, <2>3, <2>4, PayFacts, StepKeepsInv
<1> QED BY <1>1, <1>2, <1>3, <1>4, <1>5, <1>6 DEF PayNext

LEMMA PaymentsAreSound == PaySpec => []PayInv
<1> QED BY InitIsSound, NextIsSound, PTL DEF PaySpec

\* Whatever the event processor, the pollers and the sweepers do to a payment,
\* its row, its jobs and its journals stay ones the code knows.
THEOREM PayTypeAlways == PaySpec => []PayTypeOK
<1>1. PayInv => PayTypeOK
    BY DEF PayInv
<1> QED BY <1>1, PaymentsAreSound, PTL

\* However many workers, webhooks and polls see a capture, and in whatever
\* order they sync, applyCapture books it once, in full, where the payment says.
THEOREM ReceivedIsAlwaysBookedOnce == PaySpec => []ReceivedIsBookedOnce
<1>1. PayInv => ReceivedIsBookedOnce
    <2> SUFFICES ASSUME PayInv, NEW p \in Payments
                 PROVE  IF pay[p].status \in Received
                        THEN /\ psp[p] = [status |-> "captured", amount |-> pay[p].captured]
                             /\ \E id \in DOMAIN books : JournalsOf(p) = {id}
                             /\ \A id \in JournalsOf(p) :
                                    books[id] = Journal("receivable",
                                        CASE pay[p].application = "suspense" -> "suspense"
                                          [] pay[p].application = "unapplied" -> "refunds_payable"
                                          [] OTHER -> IF Purpose[p] = "order" THEN "sales" ELSE Wallet,
                                        pay[p].captured)
                        ELSE JournalsOf(p) = {} /\ pay[p].application = "pending"
        BY DEF ReceivedIsBookedOnce
    <2>1. BookedOnce(p) /\ JournalsIn(books, p) = JournalsOf(p)
        BY PayFacts DEF JournalsIn, JournalsOf
    <2> QED BY <2>1 DEF BookedOnce, CreditOf
<1> QED BY <1>1, PaymentsAreSound, PTL

\* Expire and Cancel never close a payment the provider has captured, unless
\* it had reported the payment failed: a cancellation the provider accepted is
\* final, and one it could not make is not taken for made.
THEOREM ClosedAlwaysUnpaid == PaySpec => ClosedUnpaid
<1>1. PayInv /\ [PayNext]_payVars => [ClosedUnpaidStep]_payVars
    <2> SUFFICES ASSUME PayInv, PayNext, NEW p \in Payments,
                        pay[p].status \in Open, pay'[p].status \in {"expired", "cancelled"},
                        psp[p].status = "captured"
                 PROVE  <<p, "failed">> \in sent
        BY DEF ClosedUnpaidStep
    <2>0. pay \in [Payments -> PayRow] /\ pay'[p] # pay[p]
        BY PayFacts DEF Open
    <2>1. ASSUME NEW q \in Payments,
                 CreatePayment(q) \/ CustomerPays(q) \/ Decline(q) \/ Lapse(q) \/ MarkSettled(q)
          PROVE  FALSE
        <3>1. pay' \in {pay, [pay EXCEPT ![q].lapsed = TRUE], [pay EXCEPT ![q].status = "settled"]} \/ CreatePayment(q)
            BY <2>1 DEF CustomerPays, Decline, Lapse, MarkSettled
        <3>2. ~ CreatePayment(q)
            BY <2>0 DEF CreatePayment, Open
        <3> QED BY <2>0, <3>1, <3>2 DEF Open, PayRow
    <2>2. ASSUME NEW w \in Workers, Sync(w) PROVE FALSE
        <3> DEFINE q == jobs[w].payment
                   seen == jobs[w].seen
        <3>1. jobs[w] # Idle /\ SyncPayment(q, seen)
            BY <2>2 DEF Sync, InPhase
        <3>2. q \in Payments /\ seen \in View /\ JobFits(w) /\ pay[q].status # "absent"
            BY <3>1, AtWork DEF JobFits
        <3>3. seen.status = "cancelled" => psp[q].status = "cancelled"
            BY <3>1, <3>2 DEF JobFits
        <3> HIDE DEF q, seen
        <3>4. pay[q] \in PayRow
            BY <2>0, <3>2
        <3>5. PICK row : /\ pay' = [pay EXCEPT ![q] = row]
                         /\ row.status \in {pay[q].status, "captured", seen.status}
            <4> DEFINE Row(status) == [[pay[q] EXCEPT !.attempt = seen.status] EXCEPT !.status = status]
                       Booked(application) == [[pay[q] EXCEPT !.attempt = seen.status] EXCEPT !.status = "captured",
                                                   !.application = application, !.captured = seen.amount]
            <4>1. \A status : Row(status).status = status
                BY <3>4 DEF PayRow
            <4>2. \A application : Booked(application).status = "captured"
                BY <3>4 DEF PayRow
            <4>3. \/ pay' = [pay EXCEPT ![q] = Row(pay[q].status)]
                  \/ \E application \in {"applied", "unapplied", "suspense"} :
                        pay' = [pay EXCEPT ![q] = Booked(application)]
                  \/ pay' = [pay EXCEPT ![q] = Row(seen.status)]
                BY <3>1, <3>2, SyncCases
            <4> HIDE DEF Row, Booked
            <4> QED BY <4>1, <4>2, <4>3
        <3>6. q = p /\ pay'[p].status \in {pay[p].status, "captured", seen.status}
            BY <2>0, <3>2, <3>5
        <3>7. seen.status # "expired"
            BY <3>2 DEF View, PspStatus
        <3> QED BY <3>3, <3>6, <3>7 DEF Open
    <2>3. ASSUME NEW w \in Workers, Close(w) PROVE <<p, "failed">> \in sent
        <3> DEFINE q == jobs[w].payment
        <3>1. /\ jobs[w] # Idle /\ jobs[w].phase = "close"
              /\ pay' = [pay EXCEPT ![q].status = jobs[w].kind, ![q].attempt = "cancelled"] \/ pay' = pay
            BY <2>3 DEF Close, InPhase
        <3>2. psp[q].status \in {"unknown", "cancelled"} \/ <<q, "failed">> \in sent
            BY <3>1, AtWork DEF JobFits
        <3>3. q = p
            BY <2>0, <3>1
        <3> QED BY <3>2, <3>3
    <2>4. (\E q \in Payments : CreatePayment(q) \/ CustomerPays(q) \/ Decline(q) \/ Lapse(q) \/ MarkSettled(q))
          \/ (\E w \in Workers : Sync(w) \/ Close(w))
        BY <2>0 DEF PayNext, DeliverWebhook, ClaimEvent, StartPoll, StartManualSync, StartExpire, StartCancel,
                    Starts, Works, Fetch, Capture, CancelAtProvider, Abandon
    <2> QED BY <2>1, <2>2, <2>3, <2>4
<1> QED BY <1>1, PaymentsAreSound, PTL DEF PaySpec, ClosedUnpaid

-----------------------------------------------------------------------------
(* Payment implements Collection                                           *)

Credits(p) == {<<books[id].credit, books[id].amount>> : id \in JournalsIn(books, p)}

SamePhase(p) == Phase(p)' = Phase(p)
SameCredits(p) == Credits(p)' = Credits(p)

LEMMA InitImplements == PayInit => Collected!CollectionInit
<1> SUFFICES ASSUME PayInit PROVE Collected!CollectionInit
    OBVIOUS
<1>1. ASSUME NEW p \in Payments
      PROVE  Phase(p) = "none" /\ {<<books[id].credit, books[id].amount>> : id \in JournalsOf(p)} = {}
    <2>1. JournalsOf(p) = {}
        BY DEF PayInit, NoBooks, JournalsOf
    <2> QED BY <2>1 DEF PayInit, Phase, Absent, Open, Ended
<1> QED BY <1>1 DEF PayInit, Collected!CollectionInit

LEMMA StutterImplements ==
  ASSUME \A p \in Payments : SamePhase(p) /\ SameCredits(p), orders' = orders
  PROVE  UNCHANGED Collected!collectionVars
<1>1. \A p \in Payments : /\ Phase(p)' = Phase(p)
                          /\ {<<books[id].credit, books[id].amount>> : id \in JournalsOf(p)}'
                               = {<<books[id].credit, books[id].amount>> : id \in JournalsOf(p)}
    BY DEF SamePhase, SameCredits, Credits, JournalsIn, JournalsOf
<1> QED BY <1>1 DEF Collected!collectionVars

LEMMA OpenImplements ==
  ASSUME NEW p \in Payments, Phase(p) = "none", Phase(p)' = "open",
         \A q \in Payments \ {p} : SamePhase(q), \A q \in Payments : SameCredits(q), orders' = orders
  PROVE  Collected!CollectionNext
<1>1. \A q \in Payments : {<<books[id].credit, books[id].amount>> : id \in JournalsOf(q)}'
                            = {<<books[id].credit, books[id].amount>> : id \in JournalsOf(q)}
    BY DEF SameCredits, Credits, JournalsIn, JournalsOf
<1>2. \A q \in Payments \ {p} : Phase(q)' = Phase(q)
    BY DEF SamePhase
<1>3. Collected!OpenPayment(p)
    BY <1>1, <1>2 DEF Collected!OpenPayment
<1> QED BY <1>3 DEF Collected!CollectionNext

LEMMA CloseImplements ==
  ASSUME NEW p \in Payments, NEW to \in Ended, Phase(p) \in {"none", "open"}, Phase(p)' = "closed",
         \A q \in Payments \ {p} : SamePhase(q), \A q \in Payments : SameCredits(q),
         orders' = OrderAfter(p, to)
  PROVE  Collected!CollectionNext
<1>1. \A q \in Payments : {<<books[id].credit, books[id].amount>> : id \in JournalsOf(q)}'
                            = {<<books[id].credit, books[id].amount>> : id \in JournalsOf(q)}
    BY DEF SameCredits, Credits, JournalsIn, JournalsOf
<1>2. \A q \in Payments \ {p} : Phase(q)' = Phase(q)
    BY DEF SamePhase
<1>3. Collected!OrderGivesUp(p)
    BY DEF Collected!OrderGivesUp, Collected!ForOrder, OrderAfter
<1>4. Collected!ClosePayment(p)
    BY <1>1, <1>2, <1>3 DEF Collected!ClosePayment
<1> QED BY <1>4 DEF Collected!CollectionNext

LEMMA ReceiveImplements ==
  ASSUME PayInv, NEW p \in Payments, Phase(p) \in {"open", "closed"}, Phase(p)' = "received",
         \A q \in Payments \ {p} : SamePhase(q) /\ SameCredits(q),
         NEW amount \in Reports[p], NEW application \in {"applied", "unapplied", "suspense"},
         ApplyCapture(p, amount, application),
         Credits(p)' = {<<CreditOf(p, application), amount>>}
  PROVE  Collected!CollectionNext
<1> DEFINE account == CreditOf(p, application)
           credits(q) == {<<books[id].credit, books[id].amount>> : id \in JournalsOf(q)}
<1>1. orders \in [Payments -> {"pending_payment", "paid", "failed", "cancelled"}] /\ Purpose[p] \in {"wallet_topup", "order"}
    BY PayFacts, PaymentAssumption
<1>2. amount \in UNION {Reports[q] : q \in Payments}
    OBVIOUS
<1>3. account \in {Collected!Beneficiary(p), "refunds_payable", "suspense"}
    BY DEF CreditOf, Collected!Beneficiary, Collected!ForOrder, Wallet
<1>4. account = "suspense" <=> amount # Amount[p]
    BY DEF ApplyCapture, CreditOf, Wallet
<1>5. ASSUME account = "sales"
      PROVE  orders[p] = "pending_payment" /\ orders' = [orders EXCEPT ![p] = "paid"]
    <2>1. Purpose[p] = "order" /\ application = "applied" /\ amount = Amount[p]
        BY <1>4, <1>5 DEF CreditOf, Wallet
    <2>2. CaptureOrder(p, TRUE)
        BY <2>1 DEF ApplyCapture
    <2>3. orders[p] = "pending_payment" /\ orders' = [orders EXCEPT ![p] = "paid"]
        BY <1>1, <2>2 DEF CaptureOrder
    <2> QED BY <2>3
<1>6. ASSUME account = "refunds_payable" PROVE Collected!OrderGivesUp(p)
    <2>1. application = "unapplied" /\ amount = Amount[p]
        BY <1>4, <1>6 DEF CreditOf, Wallet
    <2>2. CASE Purpose[p] = "order"
        <3>1. CaptureOrder(p, FALSE)
            BY <2>1, <2>2 DEF ApplyCapture
        <3>2. orders' = [orders EXCEPT ![p] = IF orders[p] = "pending_payment" THEN "failed" ELSE orders[p]]
            BY <1>1, <3>1 DEF CaptureOrder
        <3>3. CASE orders[p] = "pending_payment"
            BY <2>2, <3>2, <3>3 DEF Collected!OrderGivesUp, Collected!ForOrder
        <3>4. CASE orders[p] # "pending_payment"
            <4>1. orders' = orders
                BY <1>1, <3>2, <3>4
            <4> QED BY <3>4, <4>1 DEF Collected!OrderGivesUp
        <3> QED BY <3>3, <3>4
    <2>3. CASE Purpose[p] # "order"
        BY <2>1, <2>3 DEF ApplyCapture, Collected!OrderGivesUp, Collected!ForOrder
    <2> QED BY <2>2, <2>3
<1>7. ASSUME account \in {"wallet", "suspense"} PROVE UNCHANGED orders
    BY <1>7 DEF ApplyCapture, CreditOf, Wallet
<1>8. (CASE account = "sales" -> orders[p] = "pending_payment" /\ orders' = [orders EXCEPT ![p] = "paid"]
         [] account = "refunds_payable" -> Collected!OrderGivesUp(p)
         [] OTHER -> UNCHANGED orders)
    <2>1. account \in {"sales", "refunds_payable", "wallet", "suspense"}
        BY DEF CreditOf, Wallet
    <2> HIDE DEF account
    <2>2. CASE account = "sales"
        <3>1. orders[p] = "pending_payment" /\ orders' = [orders EXCEPT ![p] = "paid"]
            BY <1>5, <2>2 DEF account
        <3> QED BY <2>2, <3>1
    <2>3. CASE account = "refunds_payable"
        <3>1. Collected!OrderGivesUp(p)
            BY <1>6, <2>3 DEF account
        <3> QED BY <2>3, <3>1
    <2>4. CASE account \in {"wallet", "suspense"}
        <3>1. UNCHANGED orders
            BY <1>7, <2>4 DEF account
        <3> QED BY <2>4, <3>1
    <2> QED BY <2>1, <2>2, <2>3, <2>4
<1>9. /\ \A q \in Payments \ {p} : credits(q)' = credits(q)
      /\ credits(p)' = {<<account, amount>>}
    BY DEF SameCredits, Credits, JournalsIn, JournalsOf
<1>10. \A q \in Payments \ {p} : Phase(q)' = Phase(q)
    BY DEF SamePhase
<1> HIDE DEF account
<1>11. [q \in Payments |-> credits(q)]' = [[q \in Payments |-> credits(q)] EXCEPT ![p] = {<<account, amount>>}]
    <2> HIDE DEF credits
    <2> QED BY <1>9
<1>12. [q \in Payments |-> Phase(q)]' = [[q \in Payments |-> Phase(q)] EXCEPT ![p] = "received"]
    BY <1>10
<1>13. Collected!Receive(p)
    BY <1>2, <1>3, <1>4, <1>8, <1>11, <1>12 DEF Collected!Receive
<1> QED BY <1>13 DEF Collected!CollectionNext

PhaseOf(status) ==
    CASE status = "absent" -> "none" [] status \in Open -> "open"
      [] status \in Ended -> "closed" [] OTHER -> "received"

LEMMA Phases ==
  /\ PhaseOf("absent") = "none"
  /\ \A s \in Open : PhaseOf(s) = "open"
  /\ \A s \in Ended : PhaseOf(s) = "closed"
  /\ \A s \in Received : PhaseOf(s) = "received"
BY DEF PhaseOf, Open, Ended, Received

LEMMA PhaseMoves ==
  ASSUME NEW p
  PROVE  Phase(p) = PhaseOf(pay[p].status) /\ Phase(p)' = PhaseOf(pay'[p].status)
BY DEF Phase, PhaseOf

LEMMA CreditsStay ==
  ASSUME NEW p, SameJournals(p) PROVE SameCredits(p)
<1>1. /\ JournalsIn(books', p) = JournalsIn(books, p)
      /\ \A id \in JournalsIn(books, p) : books'[id] = books[id]
    BY DEF SameJournals
<1>2. {<<books'[id].credit, books'[id].amount>> : id \in JournalsIn(books', p)}
        = {<<books[id].credit, books[id].amount>> : id \in JournalsIn(books, p)}
    BY <1>1
<1> QED BY <1>2 DEF SameCredits, Credits

\* A step that moves one payment's row, but to the same phase, and no journal.
LEMMA QuietImplements ==
  ASSUME \A q \in Payments : PhaseOf(pay'[q].status) = PhaseOf(pay[q].status), UNCHANGED <<books, orders>>
  PROVE  UNCHANGED Collected!collectionVars
<1>1. \A q \in Payments : SamePhase(q)
    BY PhaseMoves DEF SamePhase
<1>2. \A q \in Payments : SameCredits(q)
    BY CreditsStay, JournalsStay
<1> QED BY <1>1, <1>2, StutterImplements

LEMMA CreateImplements ==
  ASSUME PayInv, NEW p \in Payments, CreatePayment(p)
  PROVE  Collected!CollectionNext
<1>1. /\ pay[p].status = "absent" /\ books' = books
      /\ \/ pay' = [pay EXCEPT ![p].status = "pending", ![p].attempt = "pending", ![p].asked = TRUE] /\ orders' = orders
         \/ pay' = [pay EXCEPT ![p].status = "failed", ![p].attempt = "failed"] /\ orders' = OrderAfter(p, "failed")
    BY DEF CreatePayment
<1>2. pay \in [Payments -> PayRow] /\ Phase(p) = "none" /\ \A q \in Payments : SameCredits(q)
    BY <1>1, Phases, PhaseMoves, PayFacts, CreditsStay, JournalsStay
<1>3. \A q \in Payments \ {p} : pay'[q] = pay[q]
    BY <1>1, <1>2
<1>4. \A q \in Payments \ {p} : SamePhase(q)
    BY <1>3, PhaseMoves DEF SamePhase
<1>5. CASE /\ pay' = [pay EXCEPT ![p].status = "pending", ![p].attempt = "pending", ![p].asked = TRUE]
           /\ orders' = orders
    <2>1. pay'[p].status = "pending"
        BY <1>2, <1>5 DEF PayRow
    <2>2. Phase(p)' = "open"
        BY <2>1, Phases, PhaseMoves DEF Open
    <2> QED BY <1>2, <1>4, <1>5, <2>2, OpenImplements
<1>6. CASE /\ pay' = [pay EXCEPT ![p].status = "failed", ![p].attempt = "failed"]
           /\ orders' = OrderAfter(p, "failed")
    <2>1. pay'[p].status = "failed"
        BY <1>2, <1>6 DEF PayRow
    <2>2. Phase(p)' = "closed" /\ "failed" \in Ended
        BY <2>1, Phases, PhaseMoves DEF Ended
    <2> QED BY <1>2, <1>4, <1>6, <2>2, CloseImplements
<1> QED BY <1>1, <1>5, <1>6

LEMMA LapseImplements ==
  ASSUME PayInv, NEW p \in Payments, Lapse(p) \/ MarkSettled(p)
  PROVE  UNCHANGED Collected!collectionVars
<1>1. /\ UNCHANGED <<books, orders>> /\ pay \in [Payments -> PayRow]
      /\ \/ pay' = [pay EXCEPT ![p].lapsed = TRUE]
         \/ pay[p].status = "captured" /\ pay' = [pay EXCEPT ![p].status = "settled"]
    BY PayFacts DEF Lapse, MarkSettled
<1>2. /\ \A q \in Payments \ {p} : pay'[q] = pay[q]
      /\ pay'[p].status = pay[p].status \/ (pay[p].status \in Received /\ pay'[p].status \in Received)
    BY <1>1 DEF PayRow, Received
<1> QED BY <1>1, <1>2, Phases, QuietImplements

LEMMA CloseStepImplements ==
  ASSUME PayInv, NEW w \in Workers, Close(w)
  PROVE  Collected!CollectionNext \/ UNCHANGED Collected!collectionVars
<1>1. jobs[w] # Idle /\ jobs[w].phase = "close" /\ books' = books
    BY DEF Close, InPhase
<1>2. pay \in [Payments -> PayRow]
    BY PayFacts
<1>0. PICK p \in Payments, to \in Ended : p = jobs[w].payment /\ to = jobs[w].kind
    BY <1>1, AtWork DEF JobFits, Ended
<1>3. CASE /\ pay[p].status \in Open
           /\ pay' = [pay EXCEPT ![p].status = to, ![p].attempt = "cancelled"]
           /\ orders' = OrderAfter(p, to)
    <2>1. pay'[p].status = to /\ \A q \in Payments \ {p} : pay'[q] = pay[q]
        BY <1>2, <1>3 DEF PayRow
    <2>2. Phase(p) = "open" /\ Phase(p)' = "closed" /\ \A q \in Payments \ {p} : SamePhase(q)
        BY <1>2, <1>3, <2>1, Phases, PhaseMoves DEF SamePhase
    <2>3. \A q \in Payments : SameCredits(q)
        BY <1>1, CreditsStay, JournalsStay
    <2> QED BY <1>2, <1>3, <2>2, <2>3, CloseImplements
<1>4. CASE UNCHANGED <<pay, orders>>
    BY <1>1, <1>4, QuietImplements
<1> QED BY <1>0, <1>3, <1>4 DEF Close

LEMMA SyncImplements ==
  ASSUME PayInv, NEW w \in Workers, Sync(w)
  PROVE  Collected!CollectionNext \/ UNCHANGED Collected!collectionVars
<1>1. PICK p \in Payments, seen \in View :
          /\ jobs[w] # Idle /\ p = jobs[w].payment /\ seen = jobs[w].seen /\ SyncPayment(p, seen)
    <2>1. jobs[w] # Idle /\ SyncPayment(jobs[w].payment, jobs[w].seen)
        BY DEF Sync, InPhase
    <2> QED BY <2>1, AtWork
<1> DEFINE Row(status) == [[pay[p] EXCEPT !.attempt = seen.status] EXCEPT !.status = status]
           Taken(application) == [[pay[p] EXCEPT !.attempt = seen.status] EXCEPT !.status = "captured",
                                    !.application = application, !.captured = seen.amount]
<1>2. /\ pay[p].status # "absent" /\ PspFits(p)
      /\ seen.status = "captured" => psp[p] = seen
    BY <1>1, AtWork, PayFacts DEF JobFits
<1>3. pay \in [Payments -> PayRow] /\ pay[p] \in PayRow
    BY <1>2, PayFacts
<1>4. \A status : Row(status).status = status
    BY <1>3 DEF PayRow
<1>5. \A application : Taken(application).status = "captured"
    BY <1>3 DEF PayRow
<1>6. \/ pay' = [pay EXCEPT ![p] = Row(pay[p].status)] /\ UNCHANGED <<books, orders>>
      \/ /\ seen.status = "captured" /\ pay[p].status \in Open \cup Ended
         /\ \E application \in {"applied", "unapplied", "suspense"} :
               ApplyCapture(p, seen.amount, application) /\ pay' = [pay EXCEPT ![p] = Taken(application)]
      \/ \E status \in {"pending", "authorized", "failed", "cancelled"} :
               /\ seen.status = status /\ pay[p].status \in Open
               /\ pay' = [pay EXCEPT ![p] = Row(status)]
               /\ orders' = OrderAfter(p, status) /\ books' = books
    BY <1>1, <1>2, SyncCases
<1> HIDE DEF Row, Taken
<1>7. CASE pay' = [pay EXCEPT ![p] = Row(pay[p].status)] /\ UNCHANGED <<books, orders>>
    <2>1. \A q \in Payments : pay'[q].status = pay[q].status
        BY <1>2, <1>3, <1>4, <1>7
    <2> QED BY <1>7, <2>1, QuietImplements
<1>8. ASSUME seen.status = "captured", pay[p].status \in Open \cup Ended,
             NEW application \in {"applied", "unapplied", "suspense"},
             ApplyCapture(p, seen.amount, application), pay' = [pay EXCEPT ![p] = Taken(application)]
      PROVE  Collected!CollectionNext
    <2>1. pay'[p].status = "captured" /\ \A q \in Payments \ {p} : pay'[q] = pay[q]
        BY <1>2, <1>3, <1>5, <1>8
    <2>2. Phase(p) \in {"open", "closed"} /\ Phase(p)' = "received" /\ \A q \in Payments \ {p} : SamePhase(q)
        BY <1>2, <1>8, <2>1, Phases, PhaseMoves DEF SamePhase, Received
    <2>3. seen.amount \in Nat /\ seen.amount \in Reports[p] /\ pay[p].status \notin Received
        BY <1>2, <1>8 DEF View, PspFits, Open, Ended, Received
    <2>4. /\ BookedAs(p, Journal("receivable", CreditOf(p, application), seen.amount))
          /\ \A q \in Payments \ {p} : SameJournals(q)
        BY <1>2, <1>8, <2>3, CaptureIsBooked
    <2>5. \A q \in Payments \ {p} : SameCredits(q)
        BY <2>4, CreditsStay
    <2>6. PICK id \in DOMAIN books' :
             /\ JournalsIn(books', p) = {id}
             /\ books'[id] = Journal("receivable", CreditOf(p, application), seen.amount)
        BY <2>4 DEF BookedAs
    <2>7. <<books'[id].credit, books'[id].amount>> = <<CreditOf(p, application), seen.amount>>
        BY <2>6 DEF Journal
    <2>8. {<<books'[x].credit, books'[x].amount>> : x \in JournalsIn(books', p)}
            = {<<CreditOf(p, application), seen.amount>>}
        BY <2>6, <2>7
    <2>9. Credits(p)' = {<<CreditOf(p, application), seen.amount>>}
        BY <2>8 DEF Credits
    <2> QED BY <1>2, <1>8, <2>2, <2>3, <2>5, <2>9, ReceiveImplements
<1>9. ASSUME NEW status \in {"pending", "authorized", "failed", "cancelled"}, pay[p].status \in Open,
             pay' = [pay EXCEPT ![p] = Row(status)], orders' = OrderAfter(p, status), books' = books
      PROVE  Collected!CollectionNext \/ UNCHANGED Collected!collectionVars
    <2>1. pay'[p].status = status /\ \A q \in Payments \ {p} : pay'[q] = pay[q]
        BY <1>2, <1>3, <1>4, <1>9
    <2>2. CASE status \in Open
        <3>1. orders' = orders
            BY <1>9, <2>2 DEF OrderAfter, Open, Ended
        <3>2. \A q \in Payments : PhaseOf(pay'[q].status) = PhaseOf(pay[q].status)
            BY <1>9, <2>1, <2>2, Phases
        <3> QED BY <1>9, <3>1, <3>2, QuietImplements
    <2>3. CASE status \in Ended
        <3>1. Phase(p) = "open" /\ Phase(p)' = "closed" /\ \A q \in Payments \ {p} : SamePhase(q)
            BY <1>2, <1>9, <2>1, <2>3, Phases, PhaseMoves DEF SamePhase
        <3>2. \A q \in Payments : SameCredits(q)
            BY <1>9, CreditsStay, JournalsStay
        <3> QED BY <1>2, <1>9, <2>3, <3>1, <3>2, CloseImplements
    <2> QED BY <2>2, <2>3 DEF Open, Ended
<1> QED BY <1>6, <1>7, <1>8, <1>9

LEMMA NextImplements ==
  PayInv /\ [PayNext]_payVars => [Collected!CollectionNext]_(Collected!collectionVars)
<1> SUFFICES ASSUME PayInv, [PayNext]_payVars
             PROVE  Collected!CollectionNext \/ UNCHANGED Collected!collectionVars
    OBVIOUS
<1>1. ASSUME NEW p \in Payments,
             CreatePayment(p) \/ CustomerPays(p) \/ Decline(p) \/ Lapse(p) \/ MarkSettled(p)
      PROVE  Collected!CollectionNext \/ UNCHANGED Collected!collectionVars
    <2>1. CASE CustomerPays(p) \/ Decline(p)
        BY <2>1, QuietImplements DEF CustomerPays, Decline
    <2> QED BY <1>1, <2>1, CreateImplements, LapseImplements
<1>2. CASE \/ \E e \in Events : DeliverWebhook(e)
           \/ \E w \in Workers, e \in Events : ClaimEvent(w, e)
           \/ \E w \in Workers, p \in Payments :
                  StartPoll(w, p) \/ StartManualSync(w, p) \/ StartExpire(w, p) \/ StartCancel(w, p)
           \/ \E w \in Workers : Fetch(w) \/ Capture(w) \/ CancelAtProvider(w) \/ Abandon(w)
           \/ UNCHANGED payVars
    <2>1. UNCHANGED <<pay, books, orders>>
        BY <1>2 DEF DeliverWebhook, ClaimEvent, StartPoll, StartManualSync, StartExpire, StartCancel, Starts,
                    Fetch, Capture, CancelAtProvider, Abandon, payVars
    <2> QED BY <2>1, QuietImplements
<1> QED BY <1>1, <1>2, SyncImplements, CloseStepImplements DEF PayNext, Works

\* "However many times a capture is seen, the money is booked once"
\* (applyCapture), "an order can never disagree with its payment" (OrderHook):
\* whatever jobs, webhooks and sweeps overtake each other, the payments, the
\* orders and the journals only ever do what Collection allows.
THEOREM PaymentsImplementCollection == PaySpec => ImplementsCollection
<1> QED BY InitImplements, NextImplements, PaymentsAreSound, PTL
        DEF PaySpec, ImplementsCollection, Collected!CollectionSpec
=============================================================================
