--------------------------- MODULE ReversalProofs ---------------------------
(***************************************************************************)
(* That money given back is given back once and from where it still is:    *)
(* the safety properties of Reversal and OrderRefund, for any payment,     *)
(* order, refunds, chargebacks and workers.                                *)
(*                                                                         *)
(* A transaction is a function of the database, so each one has a lemma of *)
(* its own (it keeps Sound), whatever action runs it, commits it or rolls  *)
(* it back.                                                                *)
(***************************************************************************)
EXTENDS OrderRefund, AmountTheorems

RefundStates == {"absent"} \cup RefundOpen \cup RefundFinal
Promised == RefundOpen \cup {"processed"}

\* The refunds there are, and what those in the states S add up to.
Recorded(f) == {r \in Refunds : f[r] # "absent"}
Back(f, S) == Total(RefundAmount, {r \in Refunds : f[r] \in S})

Parts == [status : {"absent"} \cup Unresolved \cup Resolved,
          wallet : Nat, unapplied : Nat, expense : Nat]

\* The chargebacks in the states S: what they contest, and what of it was
\* taken from the expense and from an unapplied capture.
Cases(g, S) == {x \in Disputes : g[x].status \in S}
Claimed(g, S) == Total(DisputeAmount, Cases(g, S))
Expense(g, S) == Total([x \in Disputes |-> g[x].expense], Cases(g, S))
Kept(g, S) == Total([x \in Disputes |-> g[x].unapplied], Cases(g, S))

Absent(g, x) == g[x].status = "absent"
NoCase(g) == \A x \in Disputes : Absent(g, x)

-----------------------------------------------------------------------------
(* What every transaction keeps true of the database                       *)

Db(status, refunded, f, g, books) ==
    [status |-> status, refunded |-> refunded, refunds |-> f, disputes |-> g, books |-> books]

IsDb(d) == d = Db(d.status, d.refunded, d.refunds, d.disputes, d.books)

RefundsFit(f, refunded) ==
    /\ f \in [Refunds -> RefundStates]
    /\ IsFiniteSet(Recorded(f))
    /\ refunded = Back(f, Promised)
    /\ refunded <= Captured

\* A payment is charged back once at most, and never one that an order took;
\* the parts of a chargeback are all of it, and of an unapplied capture it
\* takes only what is not promised to refunds.
DisputesFit(s, g, refunded) ==
    /\ g \in [Disputes -> Parts]
    /\ \A x, y \in Disputes : Absent(g, x) \/ Absent(g, y) \/ x = y
    /\ \A x \in Disputes :
          ~ Absent(g, x) =>
              /\ g[x].wallet + g[x].unapplied + g[x].expense = DisputeAmount[x]
              /\ s = "wallet" => g[x].unapplied = 0
              /\ s = "unapplied" => g[x].wallet = 0 /\ refunded + g[x].unapplied <= Captured
              /\ s # "order"

\* The status says how much was refunded, or how the chargeback stands.
StatusFits(status, f, g) ==
    /\ \A x \in Disputes :
          /\ g[x].status \in Unresolved => status = "disputed"
          /\ g[x].status = "won" => status = "dispute_won"
          /\ g[x].status = "lost" => status = "dispute_lost"
    /\ NoCase(g) =>
          LET n == Back(f, {"processed"})
          IN  /\ n = 0 => status \in {"captured", "settled"}
              /\ n \in 1..(Captured - 1) => status = "partially_refunded"
              /\ n >= Captured => status = "refunded"

\* Each journal says something of its refund's or chargeback's status, so the
\* journal of a step that is still to come is not there yet.
JournalsFit(f, g, posted) ==
    /\ \A r \in Refunds :
          /\ <<"reserve", r>> \in posted => f[r] # "absent"
          /\ <<"processed", r>> \in posted => f[r] = "processed"
          /\ <<"restore", r>> \in posted => f[r] = "failed"
    /\ \A x \in Disputes :
          /\ \A part \in {"wallet", "unapplied", "expense"} : <<part, x>> \in posted => ~ Absent(g, x)
          /\ \A end \in {"lost", "won:wallet", "won:unapplied", "won:expense"} :
                <<end, x>> \in posted => g[x].status \in Resolved

MoneyFits(s, f, g, books) ==
    /\ Balance(books, "disputed") = Claimed(g, Unresolved)
    /\ Balance(books, "chargebacks") = - Expense(g, Unresolved \cup {"lost"})
    /\ Balance(books, "wallet") >= 0
    /\ - Balance(books, "receivable") = Captured - Back(f, {"processed"}) - Claimed(g, {"lost"})
    /\ s = "wallet" => Balance(books, "refunds_payable") = Back(f, RefundOpen)
    /\ s = "unapplied" =>
          Balance(books, "refunds_payable")
            = Captured - Back(f, {"processed"}) - Kept(g, Unresolved \cup {"lost"})

Sound(s, d) ==
    /\ IsDb(d)
    /\ RefundsFit(d.refunds, d.refunded)
    /\ DisputesFit(s, d.disputes, d.refunded)
    /\ StatusFits(d.status, d.refunds, d.disputes)
    /\ BooksOK(d.books)
    /\ JournalsFit(d.refunds, d.disputes, DOMAIN d.books)
    /\ MoneyFits(s, d.refunds, d.disputes, d.books)

\* What the provider says of a refund, against what we have of it.
Agrees(f, said) ==
    /\ said \in [Refunds -> {"none", "pending"} \cup Outcome]
    /\ \A r \in Refunds : /\ f[r] \in {"pending"} \cup RefundFinal => said[r] # "none"
                          /\ f[r] \in RefundFinal => said[r] = f[r]

\* A job's refund is on record, and what it saw of one that has ended stays true.
JobFits(job, f, said) ==
    \/ job = Idle
    \/ /\ job \in [kind : {"refund"}, of : Refunds, seen : {"pending"} \cup Outcome]
       /\ f[job.of] # "absent" /\ said[job.of] # "none"
       /\ job.seen \in RefundFinal => said[job.of] = job.seen
    \/ job \in [kind : {"dispute"}, of : Disputes, seen : Unresolved \cup Resolved]

IsPsp == psp = [refunds |-> psp.refunds, disputes |-> psp.disputes]

RevInv ==
    /\ source \in Sources
    /\ Sound(source, db)
    /\ IsPsp
    /\ psp.disputes \in [Disputes -> {"none"} \cup Unresolved \cup Resolved]
    /\ Agrees(db.refunds, psp.refunds)
    /\ jobs = [w \in Workers |-> jobs[w]]
    /\ \A w \in Workers : JobFits(jobs[w], db.refunds, psp.refunds)

\* The order's refunds, and what each tender has given back.
TendersFit(tenders) ==
    /\ tenders \in [Tenders -> Nat]
    /\ \A t \in Tenders : tenders[t] <= Paid[t]

OrderKeys == {"card", "wallet", "bonus", "credit", "subtotal", "tax", "discount"}
OrderIds == {<<"order", x, k>> : x \in OrderRefunds, k \in OrderKeys}

OrderJournalsFit(refunds, posted) ==
    \A id \in OrderIds \cap posted : refunds[id[2]].amount # 0

Made(refunds) == {x \in OrderRefunds : refunds[x].card # 0}

OrderInv ==
    /\ order = [status |-> order.status, back |-> order.back,
                tenders |-> order.tenders, refunds |-> order.refunds]
    /\ order.back \in ComponentsOf(Nat)
    /\ TendersFit(order.tenders)
    /\ order.refunds \in [OrderRefunds -> [amount : Nat, card : Nat]]
    /\ IsFiniteSet(Made(order.refunds))
    /\ OrderJournalsFit(order.refunds, DOMAIN db.books)
    /\ OrderGivesBack
    /\ CardShareStaysOwed

RefInv == RevInv /\ OrderInv

-----------------------------------------------------------------------------
(* Sums over refunds, and over the one chargeback there may be             *)

LEMMA AmountsAreNat ==
    /\ Captured \in Nat /\ Captured > 0
    /\ \A r \in Refunds : RefundAmount[r] \in Nat /\ RefundAmount[r] > 0
    /\ \A x \in Disputes : DisputeAmount[x] \in Nat /\ DisputeAmount[x] > 0
BY ReversalAssumption

\* The rows f, but for r's.
With(f, r, to) == [f EXCEPT ![r] = to]

LEMMA BackType ==
    ASSUME NEW f, IsFiniteSet(Recorded(f)), NEW S \in SUBSET (RefundStates \ {"absent"})
    PROVE  Back(f, S) \in Nat
  <1>1. {r \in Refunds : f[r] \in S} \in SUBSET Recorded(f)
    BY DEF Recorded
  <1>2. IsFiniteSet({r \in Refunds : f[r] \in S})
    BY <1>1, FS_Subset
  <1>3. \A r \in {q \in Refunds : f[q] \in S} : RefundAmount[r] \in Nat
    BY AmountsAreNat
  <1> QED BY <1>2, <1>3, TotalType DEF Back

LEMMA RecordedGrows ==
    ASSUME NEW f \in [Refunds -> RefundStates], IsFiniteSet(Recorded(f)),
           NEW r \in Refunds, NEW to
    PROVE  IsFiniteSet(Recorded(With(f, r, to)))
  <1> DEFINE h == With(f, r, to)
  <1>1. Recorded(h) \in SUBSET (Recorded(f) \cup {r})
    BY DEF Recorded, With
  <1> HIDE DEF h
  <1>2. IsFiniteSet(Recorded(f) \cup {r})
    BY FS_AddElement
  <1>3. IsFiniteSet(Recorded(h))
    BY <1>1, <1>2, FS_Subset
  <1> QED BY <1>3 DEF h

\* A refund that changes its status takes its amount along.
LEMMA BackMoves ==
    ASSUME NEW f \in [Refunds -> RefundStates], IsFiniteSet(Recorded(f)),
           NEW r \in Refunds, NEW to, NEW S \in SUBSET (RefundStates \ {"absent"})
    PROVE  Back(With(f, r, to), S)
             = Back(f, S) + (IF to \in S THEN RefundAmount[r] ELSE 0)
                          - (IF f[r] \in S THEN RefundAmount[r] ELSE 0)
  <1> DEFINE h == With(f, r, to)
             Rest == {q \in Refunds : f[q] \in S} \ {r}
             n == RefundAmount[r]
  <1>1. Rest \in SUBSET Recorded(f)
    BY DEF Recorded
  <1>2. IsFiniteSet(Rest) /\ r \notin Rest /\ Rest \in SUBSET Refunds
    BY <1>1, FS_Subset
  <1>3. \A q \in Rest \cup {r} : RefundAmount[q] \in Nat
    BY <1>2, AmountsAreNat
  <1>4. {q \in Refunds : f[q] \in S} = IF f[r] \in S THEN Rest \cup {r} ELSE Rest
    OBVIOUS
  <1>5. {q \in Refunds : h[q] \in S} = IF to \in S THEN Rest \cup {r} ELSE Rest
    BY DEF With
  <1> HIDE DEF h, Rest
  <1>6. Total(RefundAmount, Rest) \in Nat /\ n \in Nat
    BY <1>2, <1>3, TotalType
  <1>7. Total(RefundAmount, Rest \cup {r}) = Total(RefundAmount, Rest) + n
    BY <1>2, <1>3, TotalAdd
  <1>8. Back(f, S) = Total(RefundAmount, Rest) + (IF f[r] \in S THEN n ELSE 0)
    <2>1. CASE f[r] \in S
      BY <1>4, <1>7, <2>1 DEF Back
    <2>2. CASE f[r] \notin S
      <3>1. Back(f, S) = Total(RefundAmount, Rest)
        BY <1>4, <2>2 DEF Back
      <3> QED BY <1>6, <2>2, <3>1
    <2> QED BY <2>1, <2>2
  <1>9. Back(h, S) = Total(RefundAmount, Rest) + (IF to \in S THEN n ELSE 0)
    <2>1. CASE to \in S
      BY <1>5, <1>7, <2>1 DEF Back
    <2>2. CASE to \notin S
      <3>1. Back(h, S) = Total(RefundAmount, Rest)
        BY <1>5, <2>2 DEF Back
      <3> QED BY <1>6, <2>2, <3>1
    <2> QED BY <2>1, <2>2
  <1>10. Back(h, S) = Back(f, S) + (IF to \in S THEN n ELSE 0) - (IF f[r] \in S THEN n ELSE 0)
    BY <1>6, <1>8, <1>9
  <1> QED BY <1>10 DEF h, n

\* What is promised is what may yet leave and what has left.
LEMMA PromisedIs ==
    ASSUME NEW f \in [Refunds -> RefundStates], IsFiniteSet(Recorded(f))
    PROVE  /\ Back(f, RefundOpen) \in Nat /\ Back(f, {"processed"}) \in Nat
           /\ Back(f, Promised) = Back(f, RefundOpen) + Back(f, {"processed"})
  <1> DEFINE Open == {r \in Refunds : f[r] \in RefundOpen}
             Gone == {r \in Refunds : f[r] \in {"processed"}}
  <1>1. Open \in SUBSET Recorded(f) /\ Gone \in SUBSET Recorded(f)
    BY DEF Recorded, RefundOpen
  <1>2. Open \cap Gone = {} /\ {r \in Refunds : f[r] \in Promised} = Open \cup Gone
    BY DEF RefundOpen, Promised
  <1>3. IsFiniteSet(Open) /\ IsFiniteSet(Gone)
    BY <1>1, FS_Subset
  <1>4. \A r \in Open \cup Gone : RefundAmount[r] \in Nat
    BY AmountsAreNat
  <1>5. Back(f, RefundOpen) = Total(RefundAmount, Open) /\ Back(f, {"processed"}) = Total(RefundAmount, Gone)
    BY DEF Back
  <1>6. Back(f, Promised) = Total(RefundAmount, Open \cup Gone)
    BY <1>2 DEF Back
  <1> HIDE DEF Open, Gone
  <1>7. Total(RefundAmount, Open \cup Gone) = Total(RefundAmount, Open) + Total(RefundAmount, Gone)
    BY <1>2, <1>3, <1>4, TotalUnion
  <1>8. Total(RefundAmount, Open) \in Nat /\ Total(RefundAmount, Gone) \in Nat
    BY <1>3, <1>4, TotalType
  <1> QED BY <1>5, <1>6, <1>7, <1>8

\* Without a chargeback nothing is contested; the one there is contests its
\* amount.
LEMMA NothingContested ==
    ASSUME NEW g, NoCase(g), NEW S, "absent" \notin S
    PROVE  Cases(g, S) = {} /\ Claimed(g, S) = 0 /\ Expense(g, S) = 0 /\ Kept(g, S) = 0
  <1>1. Cases(g, S) = {}
    BY DEF Cases, NoCase, Absent
  <1> QED BY <1>1, TotalEmpty DEF Claimed, Expense, Kept

LEMMA OneContested ==
    ASSUME NEW g \in [Disputes -> Parts], NEW x \in Disputes,
           \A y \in Disputes : Absent(g, y) \/ y = x, NEW S, "absent" \notin S
    PROVE  /\ Cases(g, S) = IF g[x].status \in S THEN {x} ELSE {}
           /\ Claimed(g, S) = IF g[x].status \in S THEN DisputeAmount[x] ELSE 0
           /\ Expense(g, S) = IF g[x].status \in S THEN g[x].expense ELSE 0
           /\ Kept(g, S) = IF g[x].status \in S THEN g[x].unapplied ELSE 0
  <1>1. Cases(g, S) = IF g[x].status \in S THEN {x} ELSE {}
    BY DEF Cases, Absent
  <1> DEFINE expense == [y \in Disputes |-> g[y].expense]
             unapplied == [y \in Disputes |-> g[y].unapplied]
  <1>2. /\ DisputeAmount[x] \in Nat
        /\ expense[x] = g[x].expense /\ expense[x] \in Nat
        /\ unapplied[x] = g[x].unapplied /\ unapplied[x] \in Nat
    BY AmountsAreNat DEF Parts
  <1>3. /\ Claimed(g, S) = Total(DisputeAmount, Cases(g, S))
        /\ Expense(g, S) = Total(expense, Cases(g, S))
        /\ Kept(g, S) = Total(unapplied, Cases(g, S))
    BY DEF Claimed, Expense, Kept
  <1> HIDE DEF expense, unapplied
  <1>4. /\ Total(DisputeAmount, {x}) = DisputeAmount[x]
        /\ Total(expense, {x}) = expense[x]
        /\ Total(unapplied, {x}) = unapplied[x]
    BY <1>2, TotalSingleton
  <1>5. /\ Total(DisputeAmount, {}) = 0 /\ Total(expense, {}) = 0 /\ Total(unapplied, {}) = 0
    BY TotalEmpty
  <1> QED BY <1>1, <1>2, <1>3, <1>4, <1>5, Zenon

LEMMA ContestedType ==
    ASSUME NEW s, NEW g, NEW n, DisputesFit(s, g, n), NEW S, "absent" \notin S
    PROVE  Claimed(g, S) \in Nat /\ Expense(g, S) \in Nat /\ Kept(g, S) \in Nat
  <1>1. g \in [Disputes -> Parts] /\ \A x, y \in Disputes : Absent(g, x) \/ Absent(g, y) \/ x = y
    BY DEF DisputesFit
  <1>2. CASE NoCase(g)
    BY <1>2, NothingContested
  <1>3. CASE ~ NoCase(g)
    <2>1. PICK x \in Disputes : ~ Absent(g, x)
      BY <1>3 DEF NoCase
    <2>2. \A y \in Disputes : Absent(g, y) \/ y = x
      BY <1>1, <2>1
    <2>3. /\ Claimed(g, S) = IF g[x].status \in S THEN DisputeAmount[x] ELSE 0
          /\ Expense(g, S) = IF g[x].status \in S THEN g[x].expense ELSE 0
          /\ Kept(g, S) = IF g[x].status \in S THEN g[x].unapplied ELSE 0
      BY <1>1, <2>2, OneContested
    <2>4. DisputeAmount[x] \in Nat /\ g[x].expense \in Nat /\ g[x].unapplied \in Nat
      BY <1>1, AmountsAreNat DEF Parts
    <2> QED BY <2>3, <2>4
  <1> QED BY <1>2, <1>3

-----------------------------------------------------------------------------
(* Updates of the database's record                                        *)

LEMMA Fields ==
    ASSUME NEW s, NEW n, NEW f, NEW g, NEW b, NEW d, d = Db(s, n, f, g, b)
    PROVE  IsDb(d) /\ d.status = s /\ d.refunded = n /\ d.refunds = f /\ d.disputes = g /\ d.books = b
BY DEF IsDb, Db

LEMMA SetRefund ==
    ASSUME NEW d, IsDb(d), NEW r, NEW to
    PROVE  [d EXCEPT !.refunds[r] = to]
             = Db(d.status, d.refunded, With(d.refunds, r, to), d.disputes, d.books)
BY DEF IsDb, Db, With

LEMMA SetRefundAnd ==
    ASSUME NEW d, IsDb(d), NEW r, NEW to, NEW n
    PROVE  [d EXCEPT !.refunds[r] = to, !.refunded = n]
             = Db(d.status, n, With(d.refunds, r, to), d.disputes, d.books)
  <1> DEFINE e == [d EXCEPT !.refunds[r] = to]
  <1>1. [d EXCEPT !.refunds[r] = to, !.refunded = n] = [e EXCEPT !.refunded = n]
    OBVIOUS
  <1>2. e = Db(d.status, d.refunded, With(d.refunds, r, to), d.disputes, d.books)
    BY SetRefund
  <1> HIDE DEF e
  <1>3. [e EXCEPT !.refunded = n] = Db(d.status, n, With(d.refunds, r, to), d.disputes, d.books)
    BY <1>2 DEF Db
  <1> QED BY <1>1, <1>3

LEMMA SetStatus ==
    ASSUME NEW d, IsDb(d), NEW s
    PROVE  [d EXCEPT !.status = s] = Db(s, d.refunded, d.refunds, d.disputes, d.books)
BY DEF IsDb, Db

LEMMA SetBooks ==
    ASSUME NEW d, IsDb(d), NEW b
    PROVE  [d EXCEPT !.books = b] = Db(d.status, d.refunded, d.refunds, d.disputes, b)
BY DEF IsDb, Db

LEMMA SetDispute ==
    ASSUME NEW d, IsDb(d), NEW x, NEW row, NEW s
    PROVE  [d EXCEPT !.status = s, !.disputes[x] = row]
             = Db(s, d.refunded, d.refunds, [d.disputes EXCEPT ![x] = row], d.books)
  <1> DEFINE e == [d EXCEPT !.status = s]
  <1>1. [d EXCEPT !.status = s, !.disputes[x] = row] = [e EXCEPT !.disputes[x] = row]
    OBVIOUS
  <1>2. e = Db(s, d.refunded, d.refunds, d.disputes, d.books)
    BY SetStatus
  <1> HIDE DEF e
  <1>3. [e EXCEPT !.disputes[x] = row] = Db(s, d.refunded, d.refunds, [d.disputes EXCEPT ![x] = row], d.books)
    BY <1>2 DEF Db
  <1> QED BY <1>1, <1>3

LEMMA SetDisputeStatus ==
    ASSUME NEW d, IsDb(d), NEW x, NEW status
    PROVE  [d EXCEPT !.disputes[x].status = status]
             = Db(d.status, d.refunded, d.refunds, [d.disputes EXCEPT ![x].status = status], d.books)
BY DEF IsDb, Db

LEMMA SetBothStatuses ==
    ASSUME NEW d, IsDb(d), NEW x, NEW status, NEW s
    PROVE  [d EXCEPT !.disputes[x].status = status, !.status = s]
             = Db(s, d.refunded, d.refunds, [d.disputes EXCEPT ![x].status = status], d.books)
  <1> DEFINE e == [d EXCEPT !.disputes[x].status = status]
  <1>1. [d EXCEPT !.disputes[x].status = status, !.status = s] = [e EXCEPT !.status = s]
    OBVIOUS
  <1>2. e = Db(d.status, d.refunded, d.refunds, [d.disputes EXCEPT ![x].status = status], d.books)
    BY SetDisputeStatus
  <1> HIDE DEF e
  <1>3. [e EXCEPT !.status = s] = Db(s, d.refunded, d.refunds, [d.disputes EXCEPT ![x].status = status], d.books)
    BY <1>2 DEF Db
  <1> QED BY <1>1, <1>3

\* What an account is credited by a journal, less what it is debited.
Change(a, debit, credit, n) == (IF a = credit THEN n ELSE 0) - (IF a = debit THEN n ELSE 0)

\* The books c are the books b and the journal id, or b itself for nothing.
Moves(b, c, id, debit, credit, n) ==
    /\ BooksOK(c)
    /\ DOMAIN c \subseteq DOMAIN b \cup {id}
    /\ \A a : Balance(c, a) = Balance(b, a) + Change(a, debit, credit, n)

SameRows(d, e) ==
    /\ IsDb(e)
    /\ e.status = d.status /\ e.refunded = d.refunded
    /\ e.refunds = d.refunds /\ e.disputes = d.disputes

LEMMA PostedMoves ==
    ASSUME NEW d, IsDb(d), BooksOK(d.books), NEW id, id \notin DOMAIN d.books,
           NEW debit, NEW credit, NEW n \in Nat
    PROVE  /\ SameRows(d, Posted(d, id, debit, credit, n))
           /\ Moves(d.books, Posted(d, id, debit, credit, n).books, id, debit, credit, n)
  <1> DEFINE more == Post(d.books, id, Journal(debit, credit, n))
             e == Posted(d, id, debit, credit, n)
  <1>1. CASE n = 0
    <2>1. e = d
      BY <1>1 DEF Posted
    <2>2. ASSUME NEW a PROVE Balance(d.books, a) = Balance(d.books, a) + Change(a, debit, credit, n)
      <3>1. Balance(d.books, a) \in Int
        BY BalanceType
      <3> QED BY <1>1, <3>1 DEF Change
    <2>3. Moves(d.books, d.books, id, debit, credit, n)
      BY <2>2 DEF Moves
    <2>4. SameRows(d, d)
      BY DEF SameRows
    <2> HIDE DEF e
    <2>5. SameRows(d, e) /\ Moves(d.books, e.books, id, debit, credit, n)
      BY <2>1, <2>3, <2>4
    <2> QED BY <2>5 DEF e
  <1>2. CASE n # 0
    <2>1. e = [d EXCEPT !.books = more]
      BY <1>2 DEF Posted
    <2>2. BooksOK(more) /\ DOMAIN more = DOMAIN d.books \cup {id}
      BY PostNew, PostDomain
    <2>3. ASSUME NEW a PROVE Balance(more, a) = Balance(d.books, a) + Change(a, debit, credit, n)
      <3>1. Balance(d.books, a) \in Int
        BY BalanceType
      <3>2. Balance(more, a) = Balance(d.books, a) + (IF a = credit THEN n ELSE 0) - (IF a = debit THEN n ELSE 0)
        BY PostMoves
      <3> HIDE DEF more
      <3> QED BY <3>1, <3>2 DEF Change
    <2> HIDE DEF e, more
    <2>4. e = Db(d.status, d.refunded, d.refunds, d.disputes, more)
      BY <2>1, SetBooks
    <2>5. /\ IsDb(e) /\ e.status = d.status /\ e.refunded = d.refunded
          /\ e.refunds = d.refunds /\ e.disputes = d.disputes /\ e.books = more
      BY <2>4, Fields
    <2>6. Moves(d.books, e.books, id, debit, credit, n)
      BY <2>2, <2>3, <2>5 DEF Moves
    <2>7. SameRows(d, e)
      BY <2>5 DEF SameRows
    <2> QED BY <2>6, <2>7 DEF e
  <1> QED BY <1>1, <1>2

-----------------------------------------------------------------------------
(* Transactions: refunds                                                   *)

LEMMA SoundHas ==
    ASSUME NEW s, NEW d, Sound(s, d)
    PROVE  /\ IsDb(d) /\ BooksOK(d.books)
           /\ RefundsFit(d.refunds, d.refunded)
           /\ d.refunds \in [Refunds -> RefundStates] /\ IsFiniteSet(Recorded(d.refunds))
           /\ d.refunded \in Nat /\ d.refunded <= Captured
           /\ DisputesFit(s, d.disputes, d.refunded)
           /\ StatusFits(d.status, d.refunds, d.disputes)
           /\ JournalsFit(d.refunds, d.disputes, DOMAIN d.books)
           /\ MoneyFits(s, d.refunds, d.disputes, d.books)
  <1>1. RefundsFit(d.refunds, d.refunded)
    BY DEF Sound
  <1>2. d.refunded \in Nat
    <2>1. Promised \in SUBSET (RefundStates \ {"absent"})
      BY DEF Promised, RefundStates, RefundOpen, RefundFinal
    <2> QED BY <1>1, <2>1, BackType DEF RefundsFit
  <1> QED BY <1>1, <1>2 DEF Sound, RefundsFit

\* The sums of a refund that goes from one status to another.
LEMMA SumsMove ==
    ASSUME NEW f \in [Refunds -> RefundStates], IsFiniteSet(Recorded(f)),
           NEW r \in Refunds, NEW to, f[r] \notin RefundFinal
    PROVE  /\ Back(With(f, r, to), Promised)
                = Back(f, Promised) + (IF to \in Promised THEN RefundAmount[r] ELSE 0)
                                                    - (IF f[r] \in RefundOpen THEN RefundAmount[r] ELSE 0)
           /\ Back(With(f, r, to), RefundOpen)
                = Back(f, RefundOpen) + (IF to \in RefundOpen THEN RefundAmount[r] ELSE 0)
                                                        - (IF f[r] \in RefundOpen THEN RefundAmount[r] ELSE 0)
           /\ Back(With(f, r, to), {"processed"})
                = Back(f, {"processed"}) + (IF to = "processed" THEN RefundAmount[r] ELSE 0)
  <1> DEFINE h == With(f, r, to)
  <1>1. /\ Promised \in SUBSET (RefundStates \ {"absent"})
        /\ RefundOpen \in SUBSET (RefundStates \ {"absent"})
        /\ {"processed"} \in SUBSET (RefundStates \ {"absent"})
    BY DEF Promised, RefundStates, RefundOpen, RefundFinal
  <1>2. f[r] \in Promised <=> f[r] \in RefundOpen
    BY DEF Promised, RefundFinal
  <1>3. f[r] \notin {"processed"}
    BY DEF RefundFinal
  <1>4. Back(f, {"processed"}) \in Nat /\ RefundAmount[r] \in Nat
    BY <1>1, BackType, AmountsAreNat
  <1>5. /\ Back(h, Promised) = Back(f, Promised) + (IF to \in Promised THEN RefundAmount[r] ELSE 0)
                                                 - (IF f[r] \in Promised THEN RefundAmount[r] ELSE 0)
        /\ Back(h, RefundOpen) = Back(f, RefundOpen) + (IF to \in RefundOpen THEN RefundAmount[r] ELSE 0)
                                                     - (IF f[r] \in RefundOpen THEN RefundAmount[r] ELSE 0)
        /\ Back(h, {"processed"})
             = Back(f, {"processed"}) + (IF to \in {"processed"} THEN RefundAmount[r] ELSE 0)
                                      - (IF f[r] \in {"processed"} THEN RefundAmount[r] ELSE 0)
    <2>1. ASSUME NEW S \in SUBSET (RefundStates \ {"absent"})
          PROVE  Back(h, S) = Back(f, S) + (IF to \in S THEN RefundAmount[r] ELSE 0)
                                         - (IF f[r] \in S THEN RefundAmount[r] ELSE 0)
      BY BackMoves
    <2> QED BY <1>1, <2>1
  <1> QED BY <1>2, <1>3, <1>4, <1>5

LEMMA RefundJournalFits ==
    ASSUME NEW f \in [Refunds -> RefundStates], NEW g, NEW posted, JournalsFit(f, g, posted),
           NEW r \in Refunds, f[r] \notin RefundFinal, NEW to, NEW id, NEW more,
           more \subseteq posted \cup {id},
           \/ id = <<"reserve", r>> /\ to # "absent"
           \/ id = <<"processed", r>> /\ to = "processed"
           \/ id = <<"restore", r>> /\ to = "failed",
           NEW h, h = With(f, r, to)
    PROVE  JournalsFit(h, g, more)
  <1>1. ASSUME NEW q \in Refunds
        PROVE  /\ <<"reserve", q>> \in more => h[q] # "absent"
               /\ <<"processed", q>> \in more => h[q] = "processed"
               /\ <<"restore", q>> \in more => h[q] = "failed"
    <2>1. CASE q = r
      <3>1. h[q] = to /\ to # "absent"
        BY <2>1 DEF With
      <3>2. <<"processed", q>> \notin posted /\ <<"restore", q>> \notin posted
        BY <2>1 DEF JournalsFit, RefundFinal
      <3> QED BY <3>1, <3>2
    <2>2. CASE q # r
      <3>1. h[q] = f[q]
        BY <2>2 DEF With
      <3>2. \A k : <<k, q>> \in more => <<k, q>> \in posted
        BY <2>2
      <3> QED BY <3>1, <3>2 DEF JournalsFit
    <2> QED BY <2>1, <2>2
  <1>2. \A x : \A k \in {"wallet", "unapplied", "expense", "lost", "won:wallet", "won:unapplied", "won:expense"} :
            <<k, x>> \in more => <<k, x>> \in posted
    OBVIOUS
  <1> QED BY <1>1, <1>2 DEF JournalsFit

\* A refund changes its status, and the payment's sums and money follow.
LEMMA RefundMoveIsSound ==
    ASSUME NEW s, NEW d, Sound(s, d), NEW e, IsDb(e), NEW r \in Refunds,
           NEW to \in RefundStates \ {"absent"}, d.refunds[r] \notin RefundFinal,
           d.refunds[r] = "absent" => NoCase(d.disputes),
           e.refunds = With(d.refunds, r, to), e.disputes = d.disputes,
           e.refunded = d.refunded + (IF to \in Promised THEN RefundAmount[r] ELSE 0)
                                   - (IF d.refunds[r] \in RefundOpen THEN RefundAmount[r] ELSE 0),
           e.refunded <= Captured,
           StatusFits(e.status, e.refunds, e.disputes),
           BooksOK(e.books), JournalsFit(e.refunds, e.disputes, DOMAIN e.books),
           Balance(e.books, "disputed") = Balance(d.books, "disputed"),
           Balance(e.books, "chargebacks") = Balance(d.books, "chargebacks"),
           Balance(e.books, "wallet") >= 0,
           Balance(e.books, "receivable")
             = Balance(d.books, "receivable") + (IF to = "processed" THEN RefundAmount[r] ELSE 0),
           s = "wallet" => Balance(e.books, "refunds_payable")
             = Balance(d.books, "refunds_payable") + (IF to \in RefundOpen THEN RefundAmount[r] ELSE 0)
                 - (IF d.refunds[r] \in RefundOpen THEN RefundAmount[r] ELSE 0),
           s = "unapplied" => Balance(e.books, "refunds_payable")
             = Balance(d.books, "refunds_payable") - (IF to = "processed" THEN RefundAmount[r] ELSE 0)
    PROVE  Sound(s, e)
  <1> DEFINE f == d.refunds
             h == e.refunds
             g == d.disputes
             n == RefundAmount[r]
             gone == IF to = "processed" THEN n ELSE 0
             in == IF to \in RefundOpen THEN n ELSE 0
             out == IF f[r] \in RefundOpen THEN n ELSE 0
             kept == IF to \in Promised THEN n ELSE 0
  <1>1. f \in [Refunds -> RefundStates] /\ IsFiniteSet(Recorded(f)) /\ d.refunded \in Nat
    BY SoundHas
  <1>2. n \in Nat /\ Captured \in Nat
    BY AmountsAreNat
  <1>3. /\ Back(h, Promised) = Back(f, Promised) + kept - out
        /\ Back(h, RefundOpen) = Back(f, RefundOpen) + in - out
        /\ Back(h, {"processed"}) = Back(f, {"processed"}) + gone
    BY <1>1, SumsMove
  <1>4. Back(f, RefundOpen) \in Nat /\ Back(f, {"processed"}) \in Nat
    BY <1>1, PromisedIs
  <1>5. d.refunded = Back(f, Promised) /\ e.refunded = d.refunded + kept - out
    BY SoundHas DEF RefundsFit
  <1>6. RefundsFit(h, e.refunded)
    <2>1. h \in [Refunds -> RefundStates]
      BY <1>1 DEF With
    <2>2. IsFiniteSet(Recorded(h))
      BY <1>1, RecordedGrows
    <2>3. e.refunded = Back(h, Promised)
      BY <1>3, <1>5
    <2> QED BY <2>1, <2>2, <2>3 DEF RefundsFit
  <1>7. DisputesFit(s, g, e.refunded)
    <2>1. DisputesFit(s, g, d.refunded)
      BY SoundHas
    <2>2. ASSUME NEW x \in Disputes, ~ Absent(g, x), s = "unapplied"
          PROVE  e.refunded + g[x].unapplied <= Captured
      <3>1. g[x].unapplied \in Nat /\ d.refunded + g[x].unapplied <= Captured
        BY <2>1, <2>2 DEF DisputesFit, Parts
      <3>2. f[r] \in RefundOpen
        BY <1>1, <2>2 DEF NoCase, RefundStates
      <3>3. kept - out <= 0 /\ kept - out \in Int
        BY <1>2, <3>2
      <3> HIDE DEF kept, out
      <3> QED BY <1>1, <1>2, <1>5, <3>1, <3>3
    <2> QED BY <2>1, <2>2 DEF DisputesFit
  <1>8. MoneyFits(s, h, g, e.books)
    <2>1. MoneyFits(s, f, g, d.books)
      BY SoundHas
    <2>2. \A a : Balance(d.books, a) \in Int
      BY SoundHas, BalanceType
    <2>3. - Balance(e.books, "receivable") = Captured - Back(h, {"processed"}) - Claimed(g, {"lost"})
      <3>1. - Balance(d.books, "receivable") = Captured - Back(f, {"processed"}) - Claimed(g, {"lost"})
        BY <2>1 DEF MoneyFits
      <3>2. Balance(e.books, "receivable") = Balance(d.books, "receivable") + gone /\ gone \in Nat
        BY <1>2
      <3>3. Claimed(g, {"lost"}) \in Nat
        BY SoundHas, ContestedType
      <3> HIDE DEF gone
      <3> QED BY <1>2, <1>3, <1>4, <2>2, <3>1, <3>2, <3>3
    <2>4. ASSUME s = "wallet" PROVE Balance(e.books, "refunds_payable") = Back(h, RefundOpen)
      BY <1>2, <1>3, <1>4, <2>1, <2>4 DEF MoneyFits
    <2>5. ASSUME s = "unapplied"
          PROVE  Balance(e.books, "refunds_payable")
                   = Captured - Back(h, {"processed"}) - Kept(g, Unresolved \cup {"lost"})
      <3> DEFINE k == Kept(g, Unresolved \cup {"lost"})
      <3>1. Balance(d.books, "refunds_payable") = Captured - Back(f, {"processed"}) - k
        BY <2>1, <2>5 DEF MoneyFits
      <3>2. Balance(e.books, "refunds_payable") = Balance(d.books, "refunds_payable") - gone /\ gone \in Nat
        BY <1>2, <2>5
      <3>3. k \in Nat
        <4>1. "absent" \notin Unresolved \cup {"lost"}
          BY DEF Unresolved
        <4> QED BY <4>1, SoundHas, ContestedType
      <3> HIDE DEF gone, k
      <3>4. Balance(e.books, "refunds_payable") = Captured - Back(h, {"processed"}) - k
        BY <1>2, <1>3, <1>4, <3>1, <3>2, <3>3
      <3> QED BY <3>4 DEF k
    <2> QED BY <2>1, <2>3, <2>4, <2>5 DEF MoneyFits
  <1> QED BY <1>6, <1>7, <1>8 DEF Sound

LEMMA StatusStays ==
    ASSUME NEW status, NEW f, NEW g, NEW h, StatusFits(status, f, g),
           Back(h, {"processed"}) = Back(f, {"processed"})
    PROVE  StatusFits(status, h, g)
BY DEF StatusFits

LEMMA NoCaseYet ==
    ASSUME NEW s, NEW d, Sound(s, d), d.status \notin {"disputed", "dispute_won", "dispute_lost"}
    PROVE  NoCase(d.disputes)
  <1>1. d.disputes \in [Disputes -> Parts] /\ StatusFits(d.status, d.refunds, d.disputes)
    BY SoundHas DEF DisputesFit
  <1>2. ASSUME NEW x \in Disputes PROVE d.disputes[x].status = "absent"
    <2>1. d.disputes[x].status \in {"absent"} \cup Unresolved \cup Resolved
      <3>1. d.disputes[x] \in Parts
        BY <1>1
      <3> QED BY <3>1 DEF Parts
    <2> QED BY <1>1, <2>1 DEF StatusFits, Resolved
  <1> QED BY <1>2 DEF NoCase, Absent

\* What refunds_payable still owes, or has paid, of the refunds of an order.
Owed(d) == Balance(d.books, "refunds_payable") + Back(d.refunds, {"processed"})

\* A transaction beside the order's: none of the order's journals, and none of
\* the money set aside for its refunds.
Beside(d, e) ==
    /\ OrderIds \cap DOMAIN e.books \subseteq DOMAIN d.books
    /\ source = "order" => Owed(e) = Owed(d)

LEMMA BesideType == ASSUME NEW s, NEW d, Sound(s, d) PROVE Owed(d) \in Int
  <1>1. Balance(d.books, "refunds_payable") \in Int
    BY SoundHas, BalanceType
  <1>2. Back(d.refunds, {"processed"}) \in Nat
    BY SoundHas, PromisedIs
  <1> QED BY <1>1, <1>2 DEF Owed

LEMMA ReserveIsSound ==
    ASSUME NEW d, Sound(source, d), NEW r \in Refunds, CanReserve(d, r)
    PROVE  /\ Sound(source, Reserve(d, r))
           /\ Reserve(d, r).refunds = With(d.refunds, r, "initiated")
           /\ Beside(d, Reserve(d, r))
  <1> DEFINE n == RefundAmount[r]
             f == d.refunds
             h == With(f, r, "initiated")
             id == <<"reserve", r>>
             e0 == [d EXCEPT !.refunds[r] = "initiated", !.refunded = @ + n]
             e == Reserve(d, r)
  <1>1. /\ IsDb(d) /\ BooksOK(d.books) /\ d.refunded \in Nat
        /\ f \in [Refunds -> RefundStates] /\ IsFiniteSet(Recorded(f))
        /\ StatusFits(d.status, f, d.disputes) /\ JournalsFit(f, d.disputes, DOMAIN d.books)
        /\ MoneyFits(source, f, d.disputes, d.books)
    BY SoundHas
  <1>2. n \in Nat /\ Captured \in Nat
    BY AmountsAreNat
  <1>3. /\ f[r] = "absent" /\ NoCase(d.disputes) /\ d.refunded + n <= Captured
        /\ source = "wallet" => Balance(d.books, "wallet") >= n
    BY NoCaseYet DEF CanReserve
  <1>4. f[r] \notin RefundFinal /\ f[r] \notin RefundOpen
    BY <1>3 DEF RefundFinal, RefundOpen
  <1>5. "initiated" \in RefundOpen /\ "initiated" \in Promised /\ "initiated" \in RefundStates \ {"absent"}
    BY DEF RefundOpen, Promised, RefundStates
  <1>6. e0 = Db(d.status, d.refunded + n, h, d.disputes, d.books)
    <2>1. [d EXCEPT !.refunds[r] = "initiated", !.refunded = d.refunded + n]
            = Db(d.status, d.refunded + n, h, d.disputes, d.books)
      BY <1>1, SetRefundAnd
    <2> QED BY <2>1
  <1>7. e = IF source = "wallet" THEN Posted(e0, id, "wallet", "refunds_payable", n) ELSE e0
    BY DEF Reserve
  <1> HIDE DEF e0, e, h
  <1>8. /\ IsDb(e0) /\ e0.status = d.status /\ e0.refunded = d.refunded + n
        /\ e0.refunds = h /\ e0.disputes = d.disputes /\ e0.books = d.books
    BY <1>6, Fields
  <1>9. id \notin DOMAIN d.books
    BY <1>1, <1>3 DEF JournalsFit
  <1>10. \A a : Balance(d.books, a) \in Int
    BY <1>1, BalanceType
  <1>11. /\ SameRows(e0, e) /\ BooksOK(e.books) /\ DOMAIN e.books \subseteq DOMAIN d.books \cup {id}
         /\ \A a \in {"disputed", "chargebacks", "receivable"} : Balance(e.books, a) = Balance(d.books, a)
         /\ Balance(e.books, "wallet") >= 0
         /\ Balance(e.books, "refunds_payable")
              = Balance(d.books, "refunds_payable") + (IF source = "wallet" THEN n ELSE 0)
    <2>1. CASE source = "wallet"
      <3>1. e = Posted(e0, id, "wallet", "refunds_payable", n)
        BY <1>7, <2>1
      <3>2. SameRows(e0, e) /\ Moves(d.books, e.books, id, "wallet", "refunds_payable", n)
        BY <1>1, <1>2, <1>8, <1>9, <3>1, PostedMoves
      <3>3. \A a : Balance(e.books, a) = Balance(d.books, a) + Change(a, "wallet", "refunds_payable", n)
        BY <3>2 DEF Moves
      <3>4. BooksOK(e.books) /\ DOMAIN e.books \subseteq DOMAIN d.books \cup {id}
        BY <3>2 DEF Moves
      <3>5. \A a \in {"disputed", "chargebacks", "receivable"} : Balance(e.books, a) = Balance(d.books, a)
        BY <1>10, <3>3 DEF Change
      <3>6. Balance(e.books, "wallet") >= 0
        BY <1>2, <1>3, <1>10, <2>1, <3>3 DEF Change
      <3>7. Balance(e.books, "refunds_payable") = Balance(d.books, "refunds_payable") + n
        BY <1>2, <1>10, <3>3 DEF Change
      <3> QED BY <2>1, <3>2, <3>4, <3>5, <3>6, <3>7
    <2>2. CASE source # "wallet"
      <3>1. e = e0
        BY <1>7, <2>2
      <3>2. SameRows(e0, e)
        BY <1>8, <3>1 DEF SameRows
      <3>3. Balance(d.books, "wallet") >= 0
        BY <1>1 DEF MoneyFits
      <3> QED BY <1>1, <1>8, <1>10, <2>2, <3>1, <3>2, <3>3
    <2> QED BY <2>1, <2>2
  <1>12. /\ IsDb(e) /\ e.status = d.status /\ e.refunded = d.refunded + n
         /\ e.refunds = h /\ e.disputes = d.disputes
    BY <1>8, <1>11 DEF SameRows
  <1>13. Back(h, {"processed"}) = Back(f, {"processed"})
    <2>1. Back(f, {"processed"}) \in Nat
      BY <1>1, PromisedIs
    <2>2. Back(h, {"processed"}) = Back(f, {"processed"}) + (IF "initiated" = "processed" THEN n ELSE 0)
      BY <1>1, <1>4, SumsMove DEF h
    <2> QED BY <2>1, <2>2
  <1>14. StatusFits(e.status, e.refunds, e.disputes)
    BY <1>1, <1>12, <1>13, StatusStays
  <1>15. JournalsFit(e.refunds, e.disputes, DOMAIN e.books)
    BY <1>1, <1>4, <1>11, <1>12, RefundJournalFits DEF h
  <1>16. Sound(source, e)
    <2>1. e.refunded = d.refunded + (IF "initiated" \in Promised THEN n ELSE 0) - (IF f[r] \in RefundOpen THEN n ELSE 0)
      BY <1>1, <1>2, <1>4, <1>5, <1>12
    <2>2. Balance(e.books, "receivable") = Balance(d.books, "receivable") + (IF "initiated" = "processed" THEN n ELSE 0)
      BY <1>10, <1>11
    <2>3. source = "wallet" => Balance(e.books, "refunds_payable")
             = Balance(d.books, "refunds_payable") + (IF "initiated" \in RefundOpen THEN n ELSE 0)
                 - (IF f[r] \in RefundOpen THEN n ELSE 0)
      BY <1>2, <1>4, <1>5, <1>10, <1>11
    <2>4. source = "unapplied" => Balance(e.books, "refunds_payable")
             = Balance(d.books, "refunds_payable") - (IF "initiated" = "processed" THEN n ELSE 0)
      BY <1>2, <1>10, <1>11
    <2> QED BY <1>3, <1>4, <1>5, <1>11, <1>12, <1>14, <1>15, <2>1, <2>2, <2>3, <2>4, RefundMoveIsSound DEF h
  <1>17. Beside(d, e)
    <2>1. id \notin OrderIds
      BY DEF OrderIds
    <2>2. OrderIds \cap DOMAIN e.books \subseteq DOMAIN d.books
      BY <1>11, <2>1
    <2>3. source = "order" => Owed(e) = Owed(d)
      BY <1>10, <1>11, <1>12, <1>13 DEF Owed
    <2> QED BY <2>2, <2>3 DEF Beside
  <1> QED BY <1>12, <1>16, <1>17 DEF e, h

\* A refund that the provider has accepted, and not yet made.
Accepted(d, r) == [d EXCEPT !.refunds[r] = "pending"]

LEMMA AcceptedIsSound ==
    ASSUME NEW d, Sound(source, d), NEW r \in Refunds, d.refunds[r] \in RefundOpen
    PROVE  /\ Sound(source, Accepted(d, r)) /\ Beside(d, Accepted(d, r))
           /\ Accepted(d, r).refunds = With(d.refunds, r, "pending")
  <1> DEFINE n == RefundAmount[r]
             f == d.refunds
             h == With(f, r, "pending")
             e == Accepted(d, r)
  <1>1. /\ IsDb(d) /\ BooksOK(d.books) /\ d.refunded \in Nat /\ d.refunded <= Captured
        /\ f \in [Refunds -> RefundStates] /\ IsFiniteSet(Recorded(f))
        /\ StatusFits(d.status, f, d.disputes) /\ JournalsFit(f, d.disputes, DOMAIN d.books)
        /\ Balance(d.books, "wallet") >= 0
    BY SoundHas DEF MoneyFits
  <1>2. n \in Nat
    BY AmountsAreNat
  <1>3. f[r] \notin RefundFinal /\ f[r] # "absent"
    BY DEF RefundFinal, RefundOpen
  <1>4. "pending" \in RefundOpen /\ "pending" \in Promised /\ "pending" \in RefundStates \ {"absent"}
    BY DEF RefundOpen, Promised, RefundStates
  <1>5. e = Db(d.status, d.refunded, h, d.disputes, d.books)
    BY <1>1, SetRefund DEF Accepted
  <1> HIDE DEF h, e
  <1>6. /\ IsDb(e) /\ e.status = d.status /\ e.refunded = d.refunded
        /\ e.refunds = h /\ e.disputes = d.disputes /\ e.books = d.books
    BY <1>5, Fields
  <1>7. \A a : Balance(d.books, a) \in Int
    BY <1>1, BalanceType
  <1>8. Back(h, {"processed"}) = Back(f, {"processed"})
    <2>1. Back(f, {"processed"}) \in Nat
      BY <1>1, PromisedIs
    <2>2. Back(h, {"processed"}) = Back(f, {"processed"}) + (IF "pending" = "processed" THEN n ELSE 0)
      BY <1>1, <1>3, SumsMove DEF h
    <2> QED BY <2>1, <2>2
  <1>9. StatusFits(e.status, e.refunds, e.disputes)
    BY <1>1, <1>6, <1>8, StatusStays
  <1>10. JournalsFit(e.refunds, e.disputes, DOMAIN e.books)
    <2>1. DOMAIN e.books \subseteq DOMAIN d.books \cup {<<"reserve", r>>}
      BY <1>6
    <2> QED BY <1>1, <1>3, <1>6, <2>1, RefundJournalFits DEF h
  <1>11. Sound(source, e)
    <2>1. /\ e.refunded = d.refunded + (IF "pending" \in Promised THEN n ELSE 0) - (IF f[r] \in RefundOpen THEN n ELSE 0)
          /\ e.refunded <= Captured
      BY <1>1, <1>2, <1>4, <1>6
    <2>2. Balance(e.books, "receivable") = Balance(d.books, "receivable") + (IF "pending" = "processed" THEN n ELSE 0)
      BY <1>6, <1>7
    <2>3. source = "wallet" => Balance(e.books, "refunds_payable")
             = Balance(d.books, "refunds_payable") + (IF "pending" \in RefundOpen THEN n ELSE 0)
                 - (IF f[r] \in RefundOpen THEN n ELSE 0)
      BY <1>2, <1>4, <1>6, <1>7
    <2>4. source = "unapplied" => Balance(e.books, "refunds_payable")
             = Balance(d.books, "refunds_payable") - (IF "pending" = "processed" THEN n ELSE 0)
      BY <1>6, <1>7
    <2> QED BY <1>1, <1>3, <1>4, <1>6, <1>9, <1>10, <2>1, <2>2, <2>3, <2>4, RefundMoveIsSound DEF h
  <1>12. Beside(d, e)
    BY <1>6, <1>8 DEF Beside, Owed
  <1> QED BY <1>6, <1>11, <1>12 DEF h, e

LEMMA FailIsSound ==
    ASSUME NEW d, Sound(source, d), NEW r \in Refunds, d.refunds[r] \in RefundOpen
    PROVE  /\ Sound(source, Fail(d, r)) /\ Beside(d, Fail(d, r))
           /\ Fail(d, r).refunds = With(d.refunds, r, "failed")
  <1> DEFINE n == RefundAmount[r]
             f == d.refunds
             h == With(f, r, "failed")
             id == <<"restore", r>>
             e0 == [d EXCEPT !.refunds[r] = "failed", !.refunded = @ - n]
             e == Fail(d, r)
  <1>1. /\ IsDb(d) /\ BooksOK(d.books) /\ d.refunded \in Nat /\ d.refunded <= Captured
        /\ f \in [Refunds -> RefundStates] /\ IsFiniteSet(Recorded(f))
        /\ StatusFits(d.status, f, d.disputes) /\ JournalsFit(f, d.disputes, DOMAIN d.books)
        /\ Balance(d.books, "wallet") >= 0
    BY SoundHas DEF MoneyFits
  <1>2. n \in Nat /\ Captured \in Nat
    BY AmountsAreNat
  <1>3. f[r] \notin RefundFinal /\ f[r] # "absent" /\ f[r] \in RefundOpen
    BY DEF RefundFinal, RefundOpen
  <1>4. "failed" \notin RefundOpen /\ "failed" \notin Promised /\ "failed" \in RefundStates \ {"absent"}
    BY DEF RefundOpen, RefundFinal, Promised, RefundStates
  <1>5. e0 = Db(d.status, d.refunded - n, h, d.disputes, d.books)
    <2>1. [d EXCEPT !.refunds[r] = "failed", !.refunded = d.refunded - n]
            = Db(d.status, d.refunded - n, h, d.disputes, d.books)
      BY <1>1, SetRefundAnd
    <2> QED BY <2>1
  <1>6. e = IF source = "wallet" THEN Posted(e0, id, "refunds_payable", "wallet", n) ELSE e0
    BY DEF Fail
  <1> HIDE DEF e0, e, h
  <1>7. /\ IsDb(e0) /\ e0.status = d.status /\ e0.refunded = d.refunded - n
        /\ e0.refunds = h /\ e0.disputes = d.disputes /\ e0.books = d.books
    BY <1>5, Fields
  <1>8. id \notin DOMAIN d.books
    BY <1>1, <1>3 DEF JournalsFit, RefundFinal
  <1>9. \A a : Balance(d.books, a) \in Int
    BY <1>1, BalanceType
  <1>10. /\ SameRows(e0, e) /\ BooksOK(e.books) /\ DOMAIN e.books \subseteq DOMAIN d.books \cup {id}
         /\ \A a \in {"disputed", "chargebacks", "receivable"} : Balance(e.books, a) = Balance(d.books, a)
         /\ Balance(e.books, "wallet") >= 0
         /\ Balance(e.books, "refunds_payable")
              = Balance(d.books, "refunds_payable") - (IF source = "wallet" THEN n ELSE 0)
    <2>1. CASE source = "wallet"
      <3>1. e = Posted(e0, id, "refunds_payable", "wallet", n)
        BY <1>6, <2>1
      <3>2. SameRows(e0, e) /\ Moves(d.books, e.books, id, "refunds_payable", "wallet", n)
        BY <1>1, <1>2, <1>7, <1>8, <3>1, PostedMoves
      <3>3. \A a : Balance(e.books, a) = Balance(d.books, a) + Change(a, "refunds_payable", "wallet", n)
        BY <3>2 DEF Moves
      <3>4. BooksOK(e.books) /\ DOMAIN e.books \subseteq DOMAIN d.books \cup {id}
        BY <3>2 DEF Moves
      <3>5. \A a \in {"disputed", "chargebacks", "receivable"} : Balance(e.books, a) = Balance(d.books, a)
        BY <1>9, <3>3 DEF Change
      <3>6. Balance(e.books, "wallet") >= 0
        BY <1>1, <1>2, <1>9, <3>3 DEF Change
      <3>7. Balance(e.books, "refunds_payable") = Balance(d.books, "refunds_payable") - n
        BY <1>2, <1>9, <3>3 DEF Change
      <3> QED BY <2>1, <3>2, <3>4, <3>5, <3>6, <3>7
    <2>2. CASE source # "wallet"
      <3>1. e = e0
        BY <1>6, <2>2
      <3>2. SameRows(e0, e)
        BY <1>7, <3>1 DEF SameRows
      <3> QED BY <1>1, <1>7, <1>9, <2>2, <3>1, <3>2
    <2> QED BY <2>1, <2>2
  <1>11. /\ IsDb(e) /\ e.status = d.status /\ e.refunded = d.refunded - n
         /\ e.refunds = h /\ e.disputes = d.disputes
    BY <1>7, <1>10 DEF SameRows
  <1>12. Back(h, {"processed"}) = Back(f, {"processed"})
    <2>1. Back(f, {"processed"}) \in Nat
      BY <1>1, PromisedIs
    <2>2. Back(h, {"processed"}) = Back(f, {"processed"}) + (IF "failed" = "processed" THEN n ELSE 0)
      BY <1>1, <1>3, SumsMove DEF h
    <2> QED BY <2>1, <2>2
  <1>13. StatusFits(e.status, e.refunds, e.disputes)
    BY <1>1, <1>11, <1>12, StatusStays
  <1>14. JournalsFit(e.refunds, e.disputes, DOMAIN e.books)
    BY <1>1, <1>3, <1>10, <1>11, RefundJournalFits DEF h
  <1>15. Sound(source, e)
    <2>1. /\ e.refunded = d.refunded + (IF "failed" \in Promised THEN n ELSE 0) - (IF f[r] \in RefundOpen THEN n ELSE 0)
          /\ e.refunded <= Captured
      BY <1>1, <1>2, <1>3, <1>4, <1>11
    <2>2. Balance(e.books, "receivable") = Balance(d.books, "receivable") + (IF "failed" = "processed" THEN n ELSE 0)
      BY <1>9, <1>10
    <2>3. source = "wallet" => Balance(e.books, "refunds_payable")
             = Balance(d.books, "refunds_payable") + (IF "failed" \in RefundOpen THEN n ELSE 0)
                 - (IF f[r] \in RefundOpen THEN n ELSE 0)
      BY <1>2, <1>3, <1>4, <1>9, <1>10
    <2>4. source = "unapplied" => Balance(e.books, "refunds_payable")
             = Balance(d.books, "refunds_payable") - (IF "failed" = "processed" THEN n ELSE 0)
      BY <1>2, <1>9, <1>10
    <2> QED BY <1>3, <1>4, <1>10, <1>11, <1>13, <1>14, <2>1, <2>2, <2>3, <2>4, RefundMoveIsSound DEF h
  <1>16. Beside(d, e)
    <2>1. id \notin OrderIds
      BY DEF OrderIds
    <2>2. OrderIds \cap DOMAIN e.books \subseteq DOMAIN d.books
      BY <1>10, <2>1
    <2>3. source = "order" => Owed(e) = Owed(d)
      BY <1>9, <1>10, <1>11, <1>12 DEF Owed
    <2> QED BY <2>2, <2>3 DEF Beside
  <1> QED BY <1>11, <1>15, <1>16 DEF e, h

LEMMA CompleteIsSound ==
    ASSUME NEW d, Sound(source, d), NEW r \in Refunds, d.refunds[r] \in RefundOpen, CanComplete(d, r)
    PROVE  /\ Sound(source, Complete(d, r)) /\ Beside(d, Complete(d, r))
           /\ Complete(d, r).refunds = With(d.refunds, r, "processed")
  <1> DEFINE n == RefundAmount[r]
             f == d.refunds
             h == With(f, r, "processed")
             id == <<"processed", r>>
             e0 == Posted(d, id, "refunds_payable", "receivable", n)
             e1 == [e0 EXCEPT !.refunds[r] = "processed"]
             status == IF Back(h, {"processed"}) >= Captured THEN "refunded" ELSE "partially_refunded"
             e == Complete(d, r)
  <1>1. /\ IsDb(d) /\ BooksOK(d.books) /\ d.refunded \in Nat /\ d.refunded <= Captured
        /\ f \in [Refunds -> RefundStates] /\ IsFiniteSet(Recorded(f))
        /\ StatusFits(d.status, f, d.disputes) /\ JournalsFit(f, d.disputes, DOMAIN d.books)
        /\ Balance(d.books, "wallet") >= 0
    BY SoundHas DEF MoneyFits
  <1>2. n \in Nat /\ n > 0 /\ Captured \in Nat
    BY AmountsAreNat
  <1>3. f[r] \notin RefundFinal /\ f[r] # "absent" /\ f[r] \in RefundOpen
    BY DEF RefundFinal, RefundOpen
  <1>4. "processed" \notin RefundOpen /\ "processed" \in Promised /\ "processed" \in RefundStates \ {"absent"}
    BY DEF RefundOpen, RefundFinal, Promised, RefundStates
  <1>5. id \notin DOMAIN d.books
    BY <1>1, <1>3 DEF JournalsFit, RefundFinal
  <1>6. e = [e1 EXCEPT !.status = AfterRefund(e1)]
    BY DEF Complete
  <1>7. SameRows(d, e0) /\ Moves(d.books, e0.books, id, "refunds_payable", "receivable", n)
    BY <1>1, <1>2, <1>5, PostedMoves
  <1>8. CanComplete(d, r) /\ IsDb(e0)
    BY <1>7 DEF SameRows
  <1>9. MayMove(d, AfterRefund(Db(d.status, d.refunded, h, d.disputes, d.books)))
    <2>1. [d EXCEPT !.refunds[r] = "processed"] = Db(d.status, d.refunded, h, d.disputes, d.books)
      BY <1>1, SetRefund
    <2> QED BY <1>8, <2>1, Zenon DEF CanComplete
  <1>10. e1 = Db(d.status, d.refunded, h, d.disputes, e0.books)
    <2> HIDE DEF e0
    <2>1. e1 = Db(e0.status, e0.refunded, With(e0.refunds, r, "processed"), e0.disputes, e0.books)
      BY <1>8, SetRefund
    <2> QED BY <1>7, <2>1 DEF SameRows
  <1> HIDE DEF e0, e1, e, h
  <1>11. ASSUME NEW c, NEW b, c = Db(d.status, d.refunded, h, d.disputes, b)
         PROVE  AfterRefund(c) = status
    <2>1. c.refunds = h
      BY <1>11, Fields
    <2> QED BY <2>1 DEF AfterRefund, SumRefunds, Back
  <1>12. MayMove(d, status) /\ AfterRefund(e1) = status
    BY <1>9, <1>10, <1>11
  <1>13. e = Db(status, d.refunded, h, d.disputes, e0.books)
    <2>1. /\ IsDb(e1) /\ e1.refunded = d.refunded /\ e1.refunds = h
          /\ e1.disputes = d.disputes /\ e1.books = e0.books
      BY <1>10, Fields
    <2>2. [e1 EXCEPT !.status = status] = Db(status, e1.refunded, e1.refunds, e1.disputes, e1.books)
      BY <2>1, SetStatus
    <2> HIDE DEF status
    <2> QED BY <1>6, <1>12, <2>1, <2>2
  <1>14. Back(h, {"processed"}) = Back(f, {"processed"}) + n /\ Back(f, {"processed"}) \in Nat
    <2>1. Back(f, {"processed"}) \in Nat
      BY <1>1, PromisedIs
    <2>2. Back(h, {"processed"}) = Back(f, {"processed"}) + (IF "processed" = "processed" THEN n ELSE 0)
      BY <1>1, <1>3, SumsMove DEF h
    <2> QED BY <2>1, <2>2
  <1>15. status \in {"refunded", "partially_refunded"}
    OBVIOUS
  <1>16. NoCase(d.disputes)
    <2>1. d.status \notin {"disputed", "dispute_won", "dispute_lost"}
      BY <1>12, <1>15 DEF MayMove, CanTransition
    <2> QED BY <2>1, NoCaseYet
  <1>17. StatusFits(status, h, d.disputes)
    <2>1. ASSUME NEW x \in Disputes
          PROVE  d.disputes[x].status \notin Unresolved /\ d.disputes[x].status \notin {"won", "lost"}
      BY <1>16 DEF NoCase, Absent, Unresolved
    <2>2. LET k == Back(h, {"processed"})
          IN  /\ k = 0 => status \in {"captured", "settled"}
              /\ k \in 1..(Captured - 1) => status = "partially_refunded"
              /\ k >= Captured => status = "refunded"
      BY <1>2, <1>14
    <2> HIDE DEF status
    <2> QED BY <2>1, <2>2 DEF StatusFits
  <1> HIDE DEF status
  <1>18. /\ IsDb(e) /\ e.status = status /\ e.refunded = d.refunded
         /\ e.refunds = h /\ e.disputes = d.disputes /\ e.books = e0.books
    BY <1>13, Fields
  <1>19. \A a : Balance(d.books, a) \in Int
    BY <1>1, BalanceType
  <1>20. /\ BooksOK(e.books) /\ DOMAIN e.books \subseteq DOMAIN d.books \cup {id}
         /\ \A a \in {"disputed", "chargebacks", "wallet"} : Balance(e.books, a) = Balance(d.books, a)
         /\ Balance(e.books, "receivable") = Balance(d.books, "receivable") + n
         /\ Balance(e.books, "refunds_payable") = Balance(d.books, "refunds_payable") - n
    <2>1. \A a : Balance(e.books, a) = Balance(d.books, a) + Change(a, "refunds_payable", "receivable", n)
      BY <1>7, <1>18 DEF Moves
    <2>2. BooksOK(e.books) /\ DOMAIN e.books \subseteq DOMAIN d.books \cup {id}
      BY <1>7, <1>18 DEF Moves
    <2> QED BY <1>2, <1>19, <2>1, <2>2 DEF Change
  <1>21. JournalsFit(e.refunds, e.disputes, DOMAIN e.books)
    BY <1>1, <1>3, <1>18, <1>20, RefundJournalFits DEF h
  <1>22. Sound(source, e)
    <2>1. /\ e.refunded = d.refunded + (IF "processed" \in Promised THEN n ELSE 0) - (IF f[r] \in RefundOpen THEN n ELSE 0)
          /\ e.refunded <= Captured
      BY <1>1, <1>2, <1>3, <1>4, <1>18
    <2>2. Balance(e.books, "receivable") = Balance(d.books, "receivable") + (IF "processed" = "processed" THEN n ELSE 0)
      BY <1>20
    <2>3. source = "wallet" => Balance(e.books, "refunds_payable")
             = Balance(d.books, "refunds_payable") + (IF "processed" \in RefundOpen THEN n ELSE 0)
                 - (IF f[r] \in RefundOpen THEN n ELSE 0)
      BY <1>2, <1>3, <1>4, <1>19, <1>20
    <2>4. source = "unapplied" => Balance(e.books, "refunds_payable")
             = Balance(d.books, "refunds_payable") - (IF "processed" = "processed" THEN n ELSE 0)
      BY <1>20
    <2>5. Balance(e.books, "wallet") >= 0
      BY <1>1, <1>20
    <2> QED BY <1>3, <1>4, <1>16, <1>17, <1>18, <1>20, <1>21, <2>1, <2>2, <2>3, <2>4, <2>5, RefundMoveIsSound DEF h
  <1>23. Beside(d, e)
    <2>1. id \notin OrderIds
      BY DEF OrderIds
    <2>2. OrderIds \cap DOMAIN e.books \subseteq DOMAIN d.books
      BY <1>20, <2>1
    <2>3. source = "order" => Owed(e) = Owed(d)
      BY <1>2, <1>14, <1>18, <1>19, <1>20 DEF Owed
    <2> QED BY <2>2, <2>3 DEF Beside
  <1> QED BY <1>18, <1>22, <1>23 DEF e, h

\* An answer about a refund: what it says is the refund's status from then on,
\* unless it had ended before.
LEMMA ApplyIsSound ==
    ASSUME NEW d, Sound(source, d), NEW r \in Refunds, d.refunds[r] # "absent",
           NEW seen \in {"pending"} \cup Outcome, CanApply(d, r, seen)
    PROVE  /\ Sound(source, ApplyRefund(d, r, seen)) /\ Beside(d, ApplyRefund(d, r, seen))
           /\ ApplyRefund(d, r, seen).refunds
                = IF d.refunds[r] \in RefundFinal THEN d.refunds ELSE With(d.refunds, r, seen)
  <1>1. d.refunds[r] \in RefundFinal \/ d.refunds[r] \in RefundOpen
    <2>1. d.refunds[r] \in RefundStates
      BY SoundHas
    <2> QED BY <2>1 DEF RefundStates
  <1>2. RefundFinal = {"processed", "failed"} /\ RefundOpen = {"initiated", "pending"}
    BY DEF RefundFinal, RefundOpen
  <1>3. CASE d.refunds[r] \in RefundFinal
    <2>1. ApplyRefund(d, r, seen) = d
      BY <1>2, <1>3 DEF ApplyRefund
    <2>2. Beside(d, d)
      BY DEF Beside
    <2> QED BY <1>3, <2>1, <2>2
  <1>4. CASE d.refunds[r] \in RefundOpen
    <2>1. d.refunds[r] \notin RefundFinal
      BY <1>2, <1>4
    <2>2. CASE seen = "pending"
      <3>1. ApplyRefund(d, r, seen) = Accepted(d, r)
        BY <1>2, <1>4, <2>2 DEF ApplyRefund, Accepted
      <3> QED BY <1>4, <2>1, <2>2, <3>1, AcceptedIsSound
    <2>3. CASE seen = "processed"
      <3>1. ApplyRefund(d, r, seen) = Complete(d, r)
        BY <1>2, <1>4, <2>3 DEF ApplyRefund
      <3>2. CanComplete(d, r)
        BY <1>4, <2>3 DEF CanApply
      <3> QED BY <1>4, <2>1, <2>3, <3>1, <3>2, CompleteIsSound
    <2>4. CASE seen = "failed"
      <3>1. ApplyRefund(d, r, seen) = Fail(d, r)
        BY <1>2, <1>4, <2>4 DEF ApplyRefund
      <3> QED BY <1>4, <2>1, <2>4, <3>1, FailIsSound
    <2>5. seen # "misreported"
      BY <1>4 DEF CanApply
    <2> QED BY <1>2, <2>2, <2>3, <2>4, <2>5 DEF Outcome
  <1> QED BY <1>1, <1>3, <1>4

-----------------------------------------------------------------------------
(* Transactions: chargebacks                                               *)

LEMMA LeastIs ==
    ASSUME NEW S, NEW a \in Nat, NEW b \in Nat, NEW c \in Nat, S = {a, b, c}
    PROVE  Least(S) \in Nat /\ Least(S) <= a /\ Least(S) <= b /\ Least(S) <= c /\ Least(S) \in S
  <1>1. \E n \in S : \A m \in S : n <= m
    <2>1. CASE a <= b /\ a <= c
      BY <2>1
    <2>2. CASE b <= a /\ b <= c
      BY <2>2
    <2>3. CASE c <= a /\ c <= b
      BY <2>3
    <2> QED BY <2>1, <2>2, <2>3
  <1>2. Least(S) \in S /\ \A m \in S : Least(S) <= m
    BY <1>1 DEF Least
  <1> HIDE DEF Least
  <1> QED BY <1>2

\* Three journals, one after the other.
Thrice(d, i, db1, cr1, n1, j, db2, cr2, n2, k, db3, cr3, n3) ==
    Posted(Posted(Posted(d, i, db1, cr1, n1), j, db2, cr2, n2), k, db3, cr3, n3)

ThreeMoves(b, c, i, db1, cr1, n1, j, db2, cr2, n2, k, db3, cr3, n3) ==
    /\ BooksOK(c)
    /\ DOMAIN c \subseteq DOMAIN b \cup {i, j, k}
    /\ \A a : Balance(c, a) = Balance(b, a) + Change(a, db1, cr1, n1)
                                 + Change(a, db2, cr2, n2) + Change(a, db3, cr3, n3)

LEMMA PostedThrice ==
    ASSUME NEW d, IsDb(d), BooksOK(d.books),
           NEW i, NEW j, NEW k, i \notin DOMAIN d.books,
           j \notin DOMAIN d.books, k \notin DOMAIN d.books, i # j, i # k, j # k,
           NEW db1, NEW cr1, NEW n1 \in Nat, NEW db2, NEW cr2, NEW n2 \in Nat,
           NEW db3, NEW cr3, NEW n3 \in Nat
    PROVE  /\ SameRows(d, Thrice(d, i, db1, cr1, n1, j, db2, cr2, n2, k, db3, cr3, n3))
           /\ ThreeMoves(d.books, Thrice(d, i, db1, cr1, n1, j, db2, cr2, n2, k, db3, cr3, n3).books, i, db1, cr1, n1, j, db2, cr2, n2, k, db3, cr3, n3)
  <1> DEFINE d1 == Posted(d, i, db1, cr1, n1)
             d2 == Posted(d1, j, db2, cr2, n2)
             d3 == Posted(d2, k, db3, cr3, n3)
  <1>1. SameRows(d, d1) /\ Moves(d.books, d1.books, i, db1, cr1, n1)
    BY PostedMoves
  <1> HIDE DEF d1
  <1>2. IsDb(d1) /\ BooksOK(d1.books) /\ DOMAIN d1.books \subseteq DOMAIN d.books \cup {i}
    BY <1>1 DEF SameRows, Moves
  <1>3. SameRows(d1, d2) /\ Moves(d1.books, d2.books, j, db2, cr2, n2)
    BY <1>2, PostedMoves
  <1> HIDE DEF d2
  <1>4. IsDb(d2) /\ BooksOK(d2.books) /\ DOMAIN d2.books \subseteq DOMAIN d.books \cup {i, j}
    BY <1>2, <1>3 DEF SameRows, Moves
  <1>5. SameRows(d2, d3) /\ Moves(d2.books, d3.books, k, db3, cr3, n3)
    BY <1>4, PostedMoves
  <1> HIDE DEF d3
  <1>6. BooksOK(d3.books) /\ DOMAIN d3.books \subseteq DOMAIN d.books \cup {i, j, k}
    BY <1>4, <1>5 DEF Moves
  <1>7. SameRows(d, d3)
    BY <1>1, <1>3, <1>5 DEF SameRows
  <1>8. ASSUME NEW a
        PROVE  Balance(d3.books, a) = Balance(d.books, a) + Change(a, db1, cr1, n1)
                                        + Change(a, db2, cr2, n2) + Change(a, db3, cr3, n3)
    <2>1. Balance(d.books, a) \in Int
      BY BalanceType
    <2>2. /\ Change(a, db1, cr1, n1) \in Int
          /\ Change(a, db2, cr2, n2) \in Int
          /\ Change(a, db3, cr3, n3) \in Int
      BY DEF Change
    <2>3. Balance(d1.books, a) = Balance(d.books, a) + Change(a, db1, cr1, n1)
      BY <1>1 DEF Moves
    <2>4. Balance(d2.books, a) = Balance(d1.books, a) + Change(a, db2, cr2, n2)
      BY <1>3 DEF Moves
    <2>5. Balance(d3.books, a) = Balance(d2.books, a) + Change(a, db3, cr3, n3)
      BY <1>5 DEF Moves
    <2> QED BY <2>1, <2>2, <2>3, <2>4, <2>5
  <1>9. ThreeMoves(d.books, d3.books, i, db1, cr1, n1, j, db2, cr2, n2, k, db3, cr3, n3)
    BY <1>6, <1>8 DEF ThreeMoves
  <1>10. Thrice(d, i, db1, cr1, n1, j, db2, cr2, n2, k, db3, cr3, n3) = d3
    BY DEF d1, d2, d3, Thrice
  <1> QED BY <1>7, <1>9, <1>10

\* The amount, if the chargeback is in one of the states S.
InCase(row, S, n) == IF row.status \in S THEN n ELSE 0

LEMMA DisputeJournalFits ==
    ASSUME NEW f, NEW g \in [Disputes -> Parts], NEW posted, JournalsFit(f, g, posted),
           NEW x \in Disputes, NEW row, NEW more, more \subseteq posted \cup {<<part, x>> : part \in
               IF row.status = "open" THEN {"wallet", "unapplied", "expense"}
               ELSE IF row.status \in Resolved
                    THEN {"lost", "won:wallet", "won:unapplied", "won:expense"} ELSE {}},
           g[x].status \notin Resolved, row.status # "absent"
    PROVE  JournalsFit(f, With(g, x, row), more)
  <1> DEFINE h == With(g, x, row)
  <1>1. ASSUME NEW r \in Refunds, NEW k \in {"reserve", "processed", "restore"}, <<k, r>> \in more
        PROVE  <<k, r>> \in posted
    BY <1>1
  <1>2. ASSUME NEW y \in Disputes
        PROVE  /\ \A part \in {"wallet", "unapplied", "expense"} : <<part, y>> \in more => ~ Absent(h, y)
               /\ \A end \in {"lost", "won:wallet", "won:unapplied", "won:expense"} :
                     <<end, y>> \in more => h[y].status \in Resolved
    <2>1. CASE y # x
      <3>1. h[y] = g[y] /\ \A k : <<k, y>> \in more => <<k, y>> \in posted
        BY <2>1 DEF With
      <3> QED BY <3>1 DEF JournalsFit, Absent
    <2>2. CASE y = x
      <3>1. h[y] = row
        BY <2>2 DEF With
      <3>2. \A end \in {"lost", "won:wallet", "won:unapplied", "won:expense"} : <<end, x>> \notin posted
        BY DEF JournalsFit
      <3>3. "open" \notin Resolved
        BY DEF Resolved
      <3> QED BY <2>2, <3>1, <3>2, <3>3 DEF Absent
    <2> QED BY <2>1, <2>2
  <1> QED BY <1>1, <1>2 DEF JournalsFit

\* The one chargeback there may be gets a new row, and the money follows.
DisputeMove(s, d, e, x, row) ==
    LET Held == Unresolved \cup {"lost"}
        old  == d.disputes[x]
        n    == DisputeAmount[x]
    IN  /\ s # "order" /\ \A y \in Disputes : Absent(d.disputes, y) \/ y = x
        /\ e.refunds = d.refunds /\ e.refunded = d.refunded /\ e.disputes = With(d.disputes, x, row)
        /\ row.status # "absent" /\ row.wallet + row.unapplied + row.expense = n
        /\ s = "wallet" => row.unapplied = 0
        /\ s = "unapplied" => row.wallet = 0 /\ d.refunded + row.unapplied <= Captured
        /\ row.status \in Unresolved => e.status = "disputed"
        /\ row.status = "won" => e.status = "dispute_won"
        /\ row.status = "lost" => e.status = "dispute_lost"
        /\ BooksOK(e.books) /\ JournalsFit(e.refunds, e.disputes, DOMAIN e.books)
        /\ Balance(e.books, "disputed")
             = Balance(d.books, "disputed") + InCase(row, Unresolved, n) - InCase(old, Unresolved, n)
        /\ Balance(e.books, "chargebacks")
             = Balance(d.books, "chargebacks") - InCase(row, Held, row.expense) + InCase(old, Held, old.expense)
        /\ Balance(e.books, "wallet") >= 0
        /\ Balance(e.books, "receivable")
             = Balance(d.books, "receivable") + InCase(row, {"lost"}, n) - InCase(old, {"lost"}, n)
        /\ s = "wallet" => Balance(e.books, "refunds_payable") = Balance(d.books, "refunds_payable")
        /\ s = "unapplied" => Balance(e.books, "refunds_payable")
             = Balance(d.books, "refunds_payable") - InCase(row, Held, row.unapplied) + InCase(old, Held, old.unapplied)

LEMMA DisputeMoveIsSound ==
    ASSUME NEW s, NEW d, Sound(s, d), NEW e, IsDb(e), NEW x \in Disputes, NEW row \in Parts,
           DisputeMove(s, d, e, x, row)
    PROVE  Sound(s, e)
  <1> DEFINE g == d.disputes
             h == e.disputes
             f == d.refunds
             Held == Unresolved \cup {"lost"}
             processed == Back(f, {"processed"})
  <1>1. /\ g \in [Disputes -> Parts] /\ DisputesFit(s, g, d.refunded)
        /\ RefundsFit(f, d.refunded) /\ StatusFits(d.status, f, g)
        /\ MoneyFits(s, f, g, d.books) /\ BooksOK(d.books)
    BY SoundHas DEF DisputesFit
  <1>2. h = With(g, x, row) /\ h[x] = row /\ h \in [Disputes -> Parts]
    BY <1>1 DEF With, DisputeMove
  <1>3. \A y \in Disputes : Absent(g, y) \/ y = x
    BY DEF DisputeMove
  <1> HIDE DEF g, h
  <1>4. \A y \in Disputes : Absent(h, y) \/ y = x
    BY <1>1, <1>2, <1>3 DEF Absent, With
  <1>5. /\ DisputeAmount[x] \in Nat /\ Captured \in Nat
        /\ g[x].expense \in Nat /\ g[x].unapplied \in Nat
        /\ row.expense \in Nat /\ row.unapplied \in Nat
    <2>1. g[x] \in Parts
      BY <1>1
    <2> QED BY <2>1, AmountsAreNat DEF Parts
  <1>6. "absent" \notin Unresolved /\ "absent" \notin Held /\ "absent" \notin {"lost"}
    BY DEF Unresolved
  <1>7. ASSUME NEW S, "absent" \notin S
        PROVE  /\ Claimed(g, S) = InCase(g[x], S, DisputeAmount[x])
               /\ Expense(g, S) = InCase(g[x], S, g[x].expense)
               /\ Kept(g, S) = InCase(g[x], S, g[x].unapplied)
    BY <1>1, <1>3, <1>7, OneContested DEF InCase
  <1>8. ASSUME NEW S, "absent" \notin S
        PROVE  /\ Claimed(h, S) = InCase(row, S, DisputeAmount[x])
               /\ Expense(h, S) = InCase(row, S, row.expense)
               /\ Kept(h, S) = InCase(row, S, row.unapplied)
    <2>1. /\ Claimed(h, S) = InCase(h[x], S, DisputeAmount[x])
          /\ Expense(h, S) = InCase(h[x], S, h[x].expense)
          /\ Kept(h, S) = InCase(h[x], S, h[x].unapplied)
      <3>1. h \in [Disputes -> Parts]
        BY <1>2
      <3> QED BY <1>4, <1>8, <3>1, OneContested DEF InCase
    <2> QED BY <1>2, <2>1, Zenon
  <1>9. \A S : \A r \in {g[x], row} : \A n \in Nat : InCase(r, S, n) \in Nat
    BY DEF InCase
  <1>10. DisputesFit(s, h, e.refunded)
    <2>1. ASSUME NEW y \in Disputes, ~ Absent(h, y) PROVE h[y] = row /\ y = x
      BY <1>2, <1>4, <2>1
    <2> QED BY <1>2, <1>4, <2>1 DEF DisputesFit, DisputeMove
  <1>11. StatusFits(e.status, f, h)
    <2>1. ~ NoCase(h)
      BY <1>2 DEF NoCase, Absent, DisputeMove
    <2>2. ASSUME NEW y \in Disputes, y # x
          PROVE  h[y].status \notin Unresolved /\ h[y].status # "won" /\ h[y].status # "lost"
      BY <1>4, <1>6, <2>2 DEF Absent
    <2> QED BY <1>2, <2>1, <2>2 DEF StatusFits, DisputeMove
  <1>12. MoneyFits(s, f, h, e.books)
    <2>1. \A a : Balance(d.books, a) \in Int
      BY <1>1, BalanceType
    <2>2. processed \in Nat
      BY <1>1, PromisedIs DEF RefundsFit
    <2> HIDE DEF processed, Held
    <2>3. Balance(e.books, "disputed") = Claimed(h, Unresolved)
      <3>1. Balance(d.books, "disputed") = Claimed(g, Unresolved)
        BY <1>1 DEF MoneyFits
      <3>2. Balance(e.books, "disputed")
              = Balance(d.books, "disputed") + InCase(row, Unresolved, DisputeAmount[x])
                  - InCase(g[x], Unresolved, DisputeAmount[x])
        BY DEF g, DisputeMove
      <3> QED BY <1>5, <1>6, <1>7, <1>8, <1>9, <3>1, <3>2
    <2>4. Balance(e.books, "chargebacks") = - Expense(h, Held)
      <3>1. Balance(d.books, "chargebacks") = - Expense(g, Held)
        BY <1>1 DEF MoneyFits, Held
      <3>2. Balance(e.books, "chargebacks")
              = Balance(d.books, "chargebacks") - InCase(row, Held, row.expense) + InCase(g[x], Held, g[x].expense)
        BY DEF g, Held, DisputeMove
      <3> QED BY <1>5, <1>6, <1>7, <1>8, <1>9, <3>1, <3>2
    <2>5. - Balance(e.books, "receivable") = Captured - processed - Claimed(h, {"lost"})
      <3>1. - Balance(d.books, "receivable") = Captured - processed - Claimed(g, {"lost"})
        BY <1>1 DEF MoneyFits, processed
      <3>2. Balance(e.books, "receivable")
              = Balance(d.books, "receivable") + InCase(row, {"lost"}, DisputeAmount[x])
                  - InCase(g[x], {"lost"}, DisputeAmount[x])
        BY DEF g, DisputeMove
      <3> QED BY <1>5, <1>6, <1>7, <1>8, <1>9, <2>1, <2>2, <3>1, <3>2
    <2>6. s = "wallet" => Balance(e.books, "refunds_payable") = Back(f, RefundOpen)
      BY <1>1 DEF MoneyFits, DisputeMove
    <2>7. s = "unapplied" => Balance(e.books, "refunds_payable") = Captured - processed - Kept(h, Held)
      <3> SUFFICES ASSUME s = "unapplied"
                   PROVE  Balance(e.books, "refunds_payable") = Captured - processed - Kept(h, Held)
        OBVIOUS
      <3>1. Balance(d.books, "refunds_payable") = Captured - processed - Kept(g, Held)
        BY <1>1 DEF MoneyFits, processed, Held
      <3>2. Balance(e.books, "refunds_payable")
              = Balance(d.books, "refunds_payable") - InCase(row, Held, row.unapplied) + InCase(g[x], Held, g[x].unapplied)
        BY DEF g, Held, DisputeMove
      <3> QED BY <1>5, <1>6, <1>7, <1>8, <1>9, <2>1, <2>2, <3>1, <3>2
    <2>8. Balance(e.books, "wallet") >= 0
      BY DEF DisputeMove
    <2> QED BY <2>3, <2>4, <2>5, <2>6, <2>7, <2>8 DEF MoneyFits, processed, Held
  <1> QED BY <1>1, <1>10, <1>11, <1>12 DEF Sound, h, DisputeMove

LEMMA OpenedIsSound ==
    ASSUME NEW d, Sound(source, d), NEW x \in Disputes, Absent(d.disputes, x), CanOpen(d)
    PROVE  /\ Sound(source, Opened(d, x)) /\ Beside(d, Opened(d, x))
           /\ Opened(d, x).refunds = d.refunds
  <1> DEFINE n == DisputeAmount[x]
             purse == Balance(d.books, "wallet")
             outstanding == Most(Captured - d.refunded, 0)
             w == IF source = "wallet" THEN Least({n, outstanding, Most(purse, 0)}) ELSE 0
             u == IF source = "unapplied" THEN Least({n, outstanding}) ELSE 0
             c == n - w - u
             i == <<"wallet", x>>
             j == <<"unapplied", x>>
             k == <<"expense", x>>
             taken == Posted(Posted(Posted(d, i, "wallet", "disputed", w),
                                    j, "refunds_payable", "disputed", u),
                             k, "chargebacks", "disputed", c)
             row == [status |-> "open", wallet |-> w, unapplied |-> u, expense |-> c]
             e == Opened(d, x)
  <1>1. /\ IsDb(d) /\ BooksOK(d.books) /\ d.refunded \in Nat /\ d.refunded <= Captured
        /\ d.disputes \in [Disputes -> Parts] /\ JournalsFit(d.refunds, d.disputes, DOMAIN d.books)
        /\ Balance(d.books, "wallet") >= 0
    BY SoundHas DEF MoneyFits, DisputesFit
  <1>2. n \in Nat /\ Captured \in Nat
    BY AmountsAreNat
  <1>3. source # "order" /\ NoCase(d.disputes)
    <2>1. source # "order" /\ d.status \notin {"disputed", "dispute_won", "dispute_lost"}
      BY DEF CanOpen, CanTransition
    <2> QED BY <2>1, NoCaseYet
  <1>4. \A a : Balance(d.books, a) \in Int
    BY <1>1, BalanceType
  <1>5. purse \in Nat /\ purse >= 0 /\ Most(purse, 0) = purse
    <2>1. purse \in Int /\ purse >= 0
      BY <1>1, <1>4
    <2> HIDE DEF purse
    <2> QED BY <2>1 DEF Most
  <1>6. outstanding \in Nat /\ d.refunded + outstanding = Captured
    BY <1>1, <1>2 DEF Most
  <1> HIDE DEF purse, outstanding
  <1>7. w \in Nat /\ w <= n /\ (source = "wallet" => w <= purse) /\ (source # "wallet" => w = 0)
    <2>1. Least({n, outstanding, purse}) \in Nat /\ Least({n, outstanding, purse}) <= n
          /\ Least({n, outstanding, purse}) <= purse
      BY <1>2, <1>5, <1>6, LeastIs
    <2> QED BY <1>2, <1>5, <2>1
  <1>8. /\ u \in Nat /\ u <= n /\ (source # "unapplied" => u = 0)
        /\ source = "unapplied" => d.refunded + u <= Captured
    <2>1. {n, outstanding} = {n, outstanding, outstanding}
      OBVIOUS
    <2>2. /\ Least({n, outstanding, outstanding}) \in Nat
          /\ Least({n, outstanding, outstanding}) <= n
          /\ Least({n, outstanding, outstanding}) <= outstanding
      BY <1>2, <1>6, LeastIs
    <2> QED BY <1>1, <1>2, <1>6, <2>1, <2>2
  <1>9. e = [taken EXCEPT !.status = "disputed", !.disputes[x] = row]
    BY DEF Opened, purse, outstanding
  <1> HIDE DEF w, u
  <1>10. c \in Nat /\ w + u + c = n
    BY <1>2, <1>7, <1>8
  <1> HIDE DEF c, e
  <1>11. {i, j, k} \cap DOMAIN d.books = {} /\ i # j /\ i # k /\ j # k
    BY <1>1 DEF JournalsFit
  <1> HIDE DEF i, j, k
  <1>12. /\ SameRows(d, taken) /\ BooksOK(taken.books)
         /\ DOMAIN taken.books \subseteq DOMAIN d.books \cup {i, j, k}
         /\ \A a : Balance(taken.books, a) = Balance(d.books, a) + Change(a, "wallet", "disputed", w)
                     + Change(a, "refunds_payable", "disputed", u) + Change(a, "chargebacks", "disputed", c)
    <2>1. taken = Thrice(d, i, "wallet", "disputed", w, j, "refunds_payable", "disputed", u,
                         k, "chargebacks", "disputed", c)
      BY DEF Thrice
    <2> HIDE DEF taken
    <2>2. /\ SameRows(d, taken)
          /\ ThreeMoves(d.books, taken.books, i, "wallet", "disputed", w, j, "refunds_payable", "disputed", u,
                        k, "chargebacks", "disputed", c)
      BY <1>1, <1>7, <1>8, <1>10, <1>11, <2>1, PostedThrice
    <2> QED BY <2>2 DEF ThreeMoves
  <1> HIDE DEF taken
  <1>13. e = Db("disputed", d.refunded, d.refunds, With(d.disputes, x, row), taken.books)
    <2>1. IsDb(taken)
      BY <1>12 DEF SameRows
    <2>2. e = Db("disputed", taken.refunded, taken.refunds, With(taken.disputes, x, row), taken.books)
      BY <1>9, <2>1, SetDispute DEF With
    <2> QED BY <1>12, <2>2 DEF SameRows
  <1>14. /\ row \in Parts /\ row.status = "open" /\ row.wallet = w /\ row.unapplied = u /\ row.expense = c
    BY <1>7, <1>8, <1>10 DEF Parts, Unresolved
  <1> HIDE DEF row
  <1>15. /\ IsDb(e) /\ e.status = "disputed" /\ e.refunded = d.refunded /\ e.refunds = d.refunds
         /\ e.disputes = With(d.disputes, x, row) /\ e.books = taken.books
    BY <1>13, Fields
  <1>16. JournalsFit(e.refunds, e.disputes, DOMAIN e.books)
    <2>1. DOMAIN e.books \subseteq DOMAIN d.books \cup {<<part, x>> : part \in
               IF row.status = "open" THEN {"wallet", "unapplied", "expense"}
               ELSE IF row.status \in Resolved
                    THEN {"lost", "won:wallet", "won:unapplied", "won:expense"} ELSE {}}
      <3>1. \A id \in DOMAIN e.books : id \in DOMAIN d.books \/ \E part \in {"wallet", "unapplied", "expense"} : id = <<part, x>>
        BY <1>12, <1>15 DEF i, j, k
      <3> QED BY <1>14, <3>1
    <2>2. d.disputes[x].status \notin Resolved
      BY DEF Absent, Resolved
    <2>3. JournalsFit(d.refunds, With(d.disputes, x, row), DOMAIN e.books)
      BY <1>1, <1>14, <2>1, <2>2, DisputeJournalFits
    <2> QED BY <1>15, <2>3
  <1>17. /\ Balance(e.books, "disputed") = Balance(d.books, "disputed") + n
         /\ Balance(e.books, "chargebacks") = Balance(d.books, "chargebacks") - c
         /\ Balance(e.books, "receivable") = Balance(d.books, "receivable")
         /\ Balance(e.books, "wallet") = purse - w
         /\ Balance(e.books, "refunds_payable") = Balance(d.books, "refunds_payable") - u
    <2>1. ASSUME NEW a
          PROVE  Balance(e.books, a) = Balance(d.books, a) + Change(a, "wallet", "disputed", w)
                   + Change(a, "refunds_payable", "disputed", u) + Change(a, "chargebacks", "disputed", c)
      BY <1>12, <1>15
    <2>2. Balance(e.books, "disputed") = Balance(d.books, "disputed") + n
      BY <1>2, <1>4, <1>7, <1>8, <1>10, <2>1 DEF Change
    <2> QED BY <1>4, <1>7, <1>8, <1>10, <2>1, <2>2 DEF Change, purse
  <1>18. Sound(source, e)
    <2>1. /\ "open" \in Unresolved /\ "open" \notin {"lost"} /\ "open" # "won" /\ "open" # "absent"
          /\ "absent" \notin Unresolved \cup {"lost"}
      BY DEF Unresolved
    <2>2. \A m : /\ InCase(row, Unresolved, m) = m /\ InCase(row, Unresolved \cup {"lost"}, m) = m
                 /\ InCase(row, {"lost"}, m) = 0
                 /\ InCase(d.disputes[x], Unresolved, m) = 0
                 /\ InCase(d.disputes[x], Unresolved \cup {"lost"}, m) = 0
                 /\ InCase(d.disputes[x], {"lost"}, m) = 0
      BY <1>14, <2>1 DEF InCase, Absent
    <2> HIDE DEF n
    <2>3. /\ Balance(e.books, "disputed") = Balance(d.books, "disputed") + InCase(row, Unresolved, n)
                - InCase(d.disputes[x], Unresolved, n)
          /\ Balance(e.books, "chargebacks") = Balance(d.books, "chargebacks")
                - InCase(row, Unresolved \cup {"lost"}, row.expense)
                + InCase(d.disputes[x], Unresolved \cup {"lost"}, d.disputes[x].expense)
          /\ Balance(e.books, "receivable") = Balance(d.books, "receivable") + InCase(row, {"lost"}, n)
                - InCase(d.disputes[x], {"lost"}, n)
      <3>1. /\ InCase(row, Unresolved, n) = n /\ InCase(d.disputes[x], Unresolved, n) = 0
            /\ InCase(row, Unresolved \cup {"lost"}, row.expense) = c
            /\ InCase(d.disputes[x], Unresolved \cup {"lost"}, d.disputes[x].expense) = 0
            /\ InCase(row, {"lost"}, n) = 0 /\ InCase(d.disputes[x], {"lost"}, n) = 0
        BY <1>14, <2>2, Zenon
      <3> QED BY <1>2, <1>4, <1>10, <1>17, <3>1
    <2>4. Balance(e.books, "refunds_payable") = Balance(d.books, "refunds_payable")
            - InCase(row, Unresolved \cup {"lost"}, row.unapplied)
            + InCase(d.disputes[x], Unresolved \cup {"lost"}, d.disputes[x].unapplied)
      <3>1. /\ InCase(row, Unresolved \cup {"lost"}, row.unapplied) = u
            /\ InCase(d.disputes[x], Unresolved \cup {"lost"}, d.disputes[x].unapplied) = 0
        BY <1>14, <2>2, Zenon
      <3> QED BY <1>4, <1>8, <1>17, <3>1
    <2>5. source = "wallet" => Balance(e.books, "refunds_payable") = Balance(d.books, "refunds_payable")
      BY <1>4, <1>8, <1>17
    <2>6. Balance(e.books, "wallet") >= 0
      BY <1>1, <1>5, <1>7, <1>17
    <2>7. \A y \in Disputes : Absent(d.disputes, y) \/ y = x
      BY <1>3 DEF NoCase
    <2>8. /\ row.status # "absent" /\ row.status # "won" /\ row.status # "lost"
          /\ row.wallet + row.unapplied + row.expense = n
          /\ source = "wallet" => row.unapplied = 0
          /\ source = "unapplied" => row.wallet = 0 /\ d.refunded + row.unapplied <= Captured
      BY <1>7, <1>8, <1>10, <1>14
    <2>9. BooksOK(e.books)
      BY <1>12, <1>15
    <2>10. DisputeMove(source, d, e, x, row)
      BY <1>3, <1>14, <1>15, <1>16, <2>3, <2>4, <2>5, <2>6, <2>7, <2>8, <2>9 DEF n, DisputeMove
    <2> QED BY <1>14, <1>15, <2>10, DisputeMoveIsSound
  <1>19. Beside(d, e)
    <2>1. {i, j, k} \cap OrderIds = {}
      BY DEF OrderIds, i, j, k
    <2> QED BY <1>3, <1>12, <1>15, <2>1 DEF Beside
  <1> QED BY <1>15, <1>18, <1>19 DEF e

\* The row of a chargeback in another state.
Decided(g, x, status) == [g[x] EXCEPT !.status = status]

LEMMA DecidedIs ==
    ASSUME NEW g \in [Disputes -> Parts], NEW x \in Disputes, NEW status \in Unresolved \cup Resolved
    PROVE  /\ Decided(g, x, status) \in Parts
           /\ Decided(g, x, status).status = status
           /\ Decided(g, x, status).wallet = g[x].wallet
           /\ Decided(g, x, status).unapplied = g[x].unapplied
           /\ Decided(g, x, status).expense = g[x].expense
  <1> DEFINE old == g[x]
             row == [old EXCEPT !.status = status]
  <1>1. old \in Parts
    OBVIOUS
  <1> HIDE DEF old
  <1>2. /\ row \in Parts /\ row.status = status /\ row.wallet = old.wallet
        /\ row.unapplied = old.unapplied /\ row.expense = old.expense
    BY <1>1 DEF Parts
  <1> QED BY <1>2 DEF old, Decided

LEMMA ReviewIsSound ==
    ASSUME NEW d, Sound(source, d), NEW x \in Disputes, d.disputes[x].status \in Unresolved,
           NEW status \in Unresolved
    PROVE  LET e == [d EXCEPT !.disputes[x].status = status]
           IN  Sound(source, e) /\ Beside(d, e) /\ e.refunds = d.refunds
  <1> DEFINE e == [d EXCEPT !.disputes[x].status = status]
             g == d.disputes
             row == Decided(g, x, status)
  <1>1. /\ IsDb(d) /\ BooksOK(d.books) /\ g \in [Disputes -> Parts]
        /\ JournalsFit(d.refunds, g, DOMAIN d.books) /\ DisputesFit(source, g, d.refunded)
        /\ Balance(d.books, "wallet") >= 0 /\ StatusFits(d.status, d.refunds, g)
    BY SoundHas DEF MoneyFits, DisputesFit
  <1>2. /\ row \in Parts /\ row.status = status /\ row.wallet = g[x].wallet
        /\ row.unapplied = g[x].unapplied /\ row.expense = g[x].expense
        /\ [g EXCEPT ![x].status = status] = With(g, x, row)
    <2>1. [g EXCEPT ![x].status = status] = With(g, x, row)
      BY DEF With, Decided
    <2> QED BY <1>1, <2>1, DecidedIs
  <1>3. e = Db(d.status, d.refunded, d.refunds, With(g, x, row), d.books)
    BY <1>1, <1>2, SetDisputeStatus
  <1> HIDE DEF e, row, g
  <1>4. /\ IsDb(e) /\ e.status = d.status /\ e.refunded = d.refunded /\ e.refunds = d.refunds
        /\ e.disputes = With(g, x, row) /\ e.books = d.books
    BY <1>3, Fields
  <1>5. ~ Absent(g, x) /\ g[x].status \in Unresolved /\ g[x].status \notin Resolved
    BY DEF g, Absent, Unresolved, Resolved
  <1>6. status \notin Resolved /\ status \notin {"open"} \ Unresolved /\ status # "absent" /\ status # "won" /\ status # "lost"
    BY DEF Resolved, Unresolved
  <1>7. JournalsFit(e.refunds, e.disputes, DOMAIN e.books)
    <2>1. JournalsFit(d.refunds, With(g, x, row), DOMAIN d.books)
      BY <1>1, <1>2, <1>5, <1>6, DisputeJournalFits
    <2> QED BY <1>4, <2>1
  <1>8. /\ source # "order" /\ \A y \in Disputes : Absent(g, y) \/ y = x
        /\ row.wallet + row.unapplied + row.expense = DisputeAmount[x]
        /\ source = "wallet" => row.unapplied = 0
        /\ source = "unapplied" => row.wallet = 0 /\ d.refunded + row.unapplied <= Captured
    BY <1>1, <1>2, <1>5 DEF DisputesFit
  <1>9. d.status = "disputed"
    BY <1>1, <1>5 DEF StatusFits
  <1>10. \A S : \A m : status \in S /\ g[x].status \in S => InCase(row, S, m) = m /\ InCase(g[x], S, m) = m
    BY <1>2 DEF InCase
  <1>11. \A m : InCase(row, {"lost"}, m) = 0 /\ InCase(g[x], {"lost"}, m) = 0
    BY <1>2, <1>5, <1>6 DEF InCase, Resolved
  <1> DEFINE n == DisputeAmount[x]
             Held == Unresolved \cup {"lost"}
  <1>12. /\ InCase(row, Unresolved, n) = n /\ InCase(g[x], Unresolved, n) = n
         /\ InCase(row, Held, row.expense) = row.expense /\ InCase(g[x], Held, g[x].expense) = row.expense
         /\ InCase(row, Held, row.unapplied) = row.unapplied /\ InCase(g[x], Held, g[x].unapplied) = row.unapplied
         /\ InCase(row, {"lost"}, n) = 0 /\ InCase(g[x], {"lost"}, n) = 0
    BY <1>2, <1>5, <1>10, <1>11
  <1>13. n \in Nat /\ row.expense \in Nat /\ row.unapplied \in Nat
    BY <1>2, AmountsAreNat DEF Parts
  <1>14. \A a : Balance(d.books, a) \in Int
    BY <1>1, BalanceType
  <1>15. DisputeMove(source, d, e, x, row)
    <2> HIDE DEF n, Held
    <2>1. /\ Balance(e.books, "disputed")
               = Balance(d.books, "disputed") + InCase(row, Unresolved, n) - InCase(g[x], Unresolved, n)
          /\ Balance(e.books, "chargebacks")
               = Balance(d.books, "chargebacks") - InCase(row, Held, row.expense) + InCase(g[x], Held, g[x].expense)
          /\ Balance(e.books, "receivable")
               = Balance(d.books, "receivable") + InCase(row, {"lost"}, n) - InCase(g[x], {"lost"}, n)
          /\ Balance(e.books, "refunds_payable")
               = Balance(d.books, "refunds_payable") - InCase(row, Held, row.unapplied) + InCase(g[x], Held, g[x].unapplied)
      BY <1>4, <1>12, <1>13, <1>14
    <2> QED BY <1>1, <1>2, <1>4, <1>6, <1>7, <1>8, <1>9, <2>1 DEF DisputeMove, g, n, Held
  <1>16. Sound(source, e)
    BY <1>2, <1>4, <1>15, DisputeMoveIsSound
  <1>17. Beside(d, e)
    BY <1>4, <1>8 DEF Beside
  <1> QED BY <1>4, <1>16, <1>17 DEF e

LEMMA ResolveIsSound ==
    ASSUME NEW d, Sound(source, d), NEW x \in Disputes, d.disputes[x].status \in Unresolved,
           NEW decision \in Resolved
    PROVE  /\ Sound(source, Resolve(d, x, decision)) /\ Beside(d, Resolve(d, x, decision))
           /\ Resolve(d, x, decision).refunds = d.refunds
  <1> DEFINE e == Resolve(d, x, decision)
             g == d.disputes
             row == Decided(g, x, decision)
             n == DisputeAmount[x]
             w == g[x].wallet
             u == g[x].unapplied
             c == g[x].expense
             h == <<"lost", x>>
             i == <<"won:wallet", x>>
             j == <<"won:unapplied", x>>
             k == <<"won:expense", x>>
             lost == Posted(d, h, "disputed", "receivable", n)
             won == Posted(Posted(Posted(d, i, "disputed", "wallet", w),
                                  j, "disputed", "refunds_payable", u),
                           k, "disputed", "chargebacks", c)
             moved == IF decision = "lost" THEN lost ELSE won
             status == IF decision = "won" THEN "dispute_won" ELSE "dispute_lost"
  <1>1. /\ IsDb(d) /\ BooksOK(d.books) /\ g \in [Disputes -> Parts]
        /\ JournalsFit(d.refunds, g, DOMAIN d.books) /\ DisputesFit(source, g, d.refunded)
        /\ Balance(d.books, "wallet") >= 0
    BY SoundHas DEF MoneyFits, DisputesFit
  <1>2. decision \in {"won", "lost"} /\ decision \in Unresolved \cup Resolved
    BY DEF Resolved
  <1>3. e = [moved EXCEPT !.disputes[x].status = decision, !.status = status]
    BY DEF Resolve
  <1>4. /\ n \in Nat /\ w \in Nat /\ u \in Nat /\ c \in Nat
    <2>1. g[x] \in Parts
      BY <1>1
    <2> QED BY <2>1, AmountsAreNat DEF Parts
  <1>5. ~ Absent(g, x) /\ g[x].status \in Unresolved /\ g[x].status \notin Resolved /\ g[x].status # "lost"
    BY DEF Absent, Unresolved, Resolved
  <1>6. /\ source # "order" /\ \A y \in Disputes : Absent(g, y) \/ y = x
        /\ w + u + c = n
        /\ source = "wallet" => u = 0
        /\ source = "unapplied" => w = 0 /\ d.refunded + u <= Captured
    BY <1>1, <1>5 DEF DisputesFit
  <1>7. /\ row \in Parts /\ row.status = decision /\ row.wallet = w /\ row.unapplied = u /\ row.expense = c
        /\ [g EXCEPT ![x].status = decision] = With(g, x, row)
    <2>1. [g EXCEPT ![x].status = decision] = With(g, x, row)
      BY DEF With, Decided
    <2> QED BY <1>1, <1>2, <2>1, DecidedIs
  <1>8. /\ h \notin DOMAIN d.books /\ i \notin DOMAIN d.books /\ j \notin DOMAIN d.books /\ k \notin DOMAIN d.books
        /\ i # j /\ i # k /\ j # k
    BY <1>1, <1>5 DEF JournalsFit
  <1>9. \A a : Balance(d.books, a) \in Int
    BY <1>1, BalanceType
  <1> HIDE DEF e, g, row, n, w, u, c, status
  <1>10. /\ SameRows(d, moved) /\ BooksOK(moved.books)
         /\ \A id \in DOMAIN moved.books : id \in DOMAIN d.books \cup {h, i, j, k}
         /\ decision = "lost" =>
              \A a : Balance(moved.books, a) = Balance(d.books, a) + Change(a, "disputed", "receivable", n)
         /\ decision # "lost" =>
              \A a : Balance(moved.books, a) = Balance(d.books, a) + Change(a, "disputed", "wallet", w)
                       + Change(a, "disputed", "refunds_payable", u) + Change(a, "disputed", "chargebacks", c)
    <2> HIDE DEF h, i, j, k
    <2>1. CASE decision = "lost"
      <3>1. SameRows(d, lost) /\ Moves(d.books, lost.books, h, "disputed", "receivable", n)
        BY <1>1, <1>4, <1>8, PostedMoves
      <3>2. moved = lost
        BY <2>1
      <3> HIDE DEF moved, lost
      <3> QED BY <2>1, <3>1, <3>2 DEF Moves
    <2>2. CASE decision # "lost"
      <3>1. won = Thrice(d, i, "disputed", "wallet", w, j, "disputed", "refunds_payable", u,
                         k, "disputed", "chargebacks", c)
        BY DEF Thrice
      <3>2. moved = won
        BY <2>2
      <3> HIDE DEF moved, won
      <3>3. /\ SameRows(d, won)
            /\ ThreeMoves(d.books, won.books, i, "disputed", "wallet", w, j, "disputed", "refunds_payable", u,
                          k, "disputed", "chargebacks", c)
        BY <1>1, <1>4, <1>8, <3>1, PostedThrice
      <3> QED BY <2>2, <3>2, <3>3 DEF ThreeMoves
    <2> QED BY <2>1, <2>2
  <1> HIDE DEF moved
  <1>11. e = Db(status, d.refunded, d.refunds, With(g, x, row), moved.books)
    <2>1. IsDb(moved)
      BY <1>10 DEF SameRows
    <2>2. e = Db(status, moved.refunded, moved.refunds, [moved.disputes EXCEPT ![x].status = decision], moved.books)
      BY <1>3, <2>1, SetBothStatuses
    <2>3. moved.refunded = d.refunded /\ moved.refunds = d.refunds /\ moved.disputes = g
      BY <1>10 DEF SameRows, g
    <2> QED BY <1>7, <2>2, <2>3
  <1>12. /\ IsDb(e) /\ e.status = status /\ e.refunded = d.refunded /\ e.refunds = d.refunds
         /\ e.disputes = With(g, x, row) /\ e.books = moved.books
    BY <1>11, Fields
  <1>13. JournalsFit(e.refunds, e.disputes, DOMAIN e.books)
    <2>1. "open" \notin Resolved
      BY DEF Resolved
    <2>2. DOMAIN e.books \subseteq DOMAIN d.books \cup {<<part, x>> : part \in
               IF row.status = "open" THEN {"wallet", "unapplied", "expense"}
               ELSE IF row.status \in Resolved
                    THEN {"lost", "won:wallet", "won:unapplied", "won:expense"} ELSE {}}
      <3>1. \A id \in DOMAIN e.books : id \in DOMAIN d.books
               \/ \E part \in {"lost", "won:wallet", "won:unapplied", "won:expense"} : id = <<part, x>>
        BY <1>10, <1>12
      <3> QED BY <1>7, <2>1, <3>1
    <2>3. row.status # "absent"
      BY <1>2, <1>7
    <2>4. JournalsFit(d.refunds, With(g, x, row), DOMAIN e.books)
      BY <1>1, <1>5, <2>2, <2>3, DisputeJournalFits
    <2> QED BY <1>12, <2>4
  <1> DEFINE Held == Unresolved \cup {"lost"}
  <1>14. /\ InCase(row, Unresolved, n) = 0 /\ InCase(g[x], Unresolved, n) = n
         /\ InCase(row, Held, c) = (IF decision = "lost" THEN c ELSE 0) /\ InCase(g[x], Held, c) = c
         /\ InCase(row, Held, u) = (IF decision = "lost" THEN u ELSE 0) /\ InCase(g[x], Held, u) = u
         /\ InCase(row, {"lost"}, n) = (IF decision = "lost" THEN n ELSE 0) /\ InCase(g[x], {"lost"}, n) = 0
    <2>1. decision \notin Unresolved
      BY <1>2 DEF Unresolved
    <2> QED BY <1>2, <1>5, <1>7, <2>1 DEF InCase
  <1> HIDE DEF Held
  <1>15. /\ Balance(e.books, "disputed") = Balance(d.books, "disputed") - n
         /\ Balance(e.books, "chargebacks") = Balance(d.books, "chargebacks") + (IF decision = "lost" THEN 0 ELSE c)
         /\ Balance(e.books, "receivable") = Balance(d.books, "receivable") + (IF decision = "lost" THEN n ELSE 0)
         /\ Balance(e.books, "wallet") = Balance(d.books, "wallet") + (IF decision = "lost" THEN 0 ELSE w)
         /\ Balance(e.books, "refunds_payable")
              = Balance(d.books, "refunds_payable") + (IF decision = "lost" THEN 0 ELSE u)
    <2>1. CASE decision = "lost"
      <3>1. \A a : Balance(e.books, a) = Balance(d.books, a) + Change(a, "disputed", "receivable", n)
        BY <1>10, <1>12, <2>1
      <3> QED BY <1>4, <1>9, <2>1, <3>1 DEF Change
    <2>2. CASE decision # "lost"
      <3>1. ASSUME NEW a
            PROVE  Balance(e.books, a) = Balance(d.books, a) + Change(a, "disputed", "wallet", w)
                       + Change(a, "disputed", "refunds_payable", u) + Change(a, "disputed", "chargebacks", c)
        BY <1>10, <1>12, <2>2
      <3>2. Balance(e.books, "disputed") = Balance(d.books, "disputed") - n
        BY <1>4, <1>6, <1>9, <3>1 DEF Change
      <3> QED BY <1>4, <1>9, <2>2, <3>1, <3>2 DEF Change
    <2> QED BY <2>1, <2>2
  <1>16. DisputeMove(source, d, e, x, row)
    <2>1. /\ Balance(e.books, "disputed")
               = Balance(d.books, "disputed") + InCase(row, Unresolved, n) - InCase(g[x], Unresolved, n)
          /\ Balance(e.books, "chargebacks")
               = Balance(d.books, "chargebacks") - InCase(row, Held, c) + InCase(g[x], Held, c)
          /\ Balance(e.books, "receivable")
               = Balance(d.books, "receivable") + InCase(row, {"lost"}, n) - InCase(g[x], {"lost"}, n)
          /\ Balance(e.books, "refunds_payable")
               = Balance(d.books, "refunds_payable") - InCase(row, Held, u) + InCase(g[x], Held, u)
      BY <1>4, <1>9, <1>14, <1>15
    <2>2. Balance(e.books, "wallet") >= 0
      BY <1>1, <1>4, <1>9, <1>15
    <2>3. source = "wallet" => Balance(e.books, "refunds_payable") = Balance(d.books, "refunds_payable")
      BY <1>4, <1>6, <1>9, <1>15
    <2>4. /\ row.status # "absent" /\ row.status \notin Unresolved
          /\ row.status = "won" => e.status = "dispute_won"
          /\ row.status = "lost" => e.status = "dispute_lost"
      BY <1>2, <1>7, <1>12 DEF status, Unresolved
    <2>5. BooksOK(e.books)
      BY <1>10, <1>12
    <2>6. row.wallet + row.unapplied + row.expense = n
      BY <1>6, <1>7
    <2>7. InCase(g[x], Held, g[x].expense) = InCase(g[x], Held, c) /\ InCase(g[x], Held, g[x].unapplied) = InCase(g[x], Held, u)
          /\ row.expense = c /\ row.unapplied = u /\ row.wallet = w
      BY <1>7 DEF c, u, w
    <2> QED BY <1>6, <1>12, <1>13, <2>1, <2>2, <2>3, <2>4, <2>5, <2>6, <2>7 DEF DisputeMove, g, n, Held, Unresolved
  <1>17. Sound(source, e)
    BY <1>7, <1>12, <1>16, DisputeMoveIsSound
  <1>18. Beside(d, e)
    <2>1. {h, i, j, k} \cap OrderIds = {}
      BY DEF OrderIds
    <2> QED BY <1>6, <1>10, <1>12, <2>1 DEF Beside
  <1> QED BY <1>12, <1>17, <1>18 DEF e

-----------------------------------------------------------------------------
(* Transactions: everyone else's                                           *)

RevIds == {<<k, y>> : k \in {"reserve", "processed", "restore", "wallet", "unapplied", "expense",
                             "lost", "won:wallet", "won:unapplied", "won:expense"},
                      y \in Refunds \cup Disputes}

\* Journals that are not of the payment's refunds and chargebacks, and leave
\* their money alone.
LEMMA OtherMoneyIsSound ==
    ASSUME NEW s, NEW d, Sound(s, d), NEW e, SameRows(d, e), BooksOK(e.books),
           RevIds \cap DOMAIN e.books \subseteq DOMAIN d.books,
           \A a \in {"disputed", "chargebacks", "receivable"} : Balance(e.books, a) = Balance(d.books, a),
           Balance(e.books, "wallet") >= 0,
           s # "order" => Balance(e.books, "refunds_payable") = Balance(d.books, "refunds_payable")
    PROVE  Sound(s, e)
  <1>1. /\ IsDb(e) /\ e.status = d.status /\ e.refunded = d.refunded
        /\ e.refunds = d.refunds /\ e.disputes = d.disputes
    BY DEF SameRows
  <1>2. JournalsFit(e.refunds, e.disputes, DOMAIN e.books)
    <2>1. JournalsFit(d.refunds, d.disputes, DOMAIN d.books)
      BY SoundHas
    <2>2. ASSUME NEW k \in {"reserve", "processed", "restore", "wallet", "unapplied", "expense",
                            "lost", "won:wallet", "won:unapplied", "won:expense"},
                 NEW y \in Refunds \cup Disputes, <<k, y>> \in DOMAIN e.books
          PROVE  <<k, y>> \in DOMAIN d.books
      BY <2>2 DEF RevIds
    <2> QED BY <1>1, <2>1, <2>2 DEF JournalsFit
  <1>3. MoneyFits(s, e.refunds, e.disputes, e.books)
    <2>1. MoneyFits(s, d.refunds, d.disputes, d.books)
      BY SoundHas
    <2> QED BY <1>1, <2>1 DEF MoneyFits
  <1> QED BY <1>1, <1>2, <1>3, SoundHas DEF Sound

LEMMA SpentIsSound ==
    ASSUME NEW d, Sound(source, d), NEW n \in Nat, <<"spend", n>> \notin DOMAIN d.books,
           Balance(d.books, "wallet") >= n
    PROVE  LET e == Posted(d, <<"spend", n>>, "wallet", "sales", n)
           IN  Sound(source, e) /\ Beside(d, e) /\ e.refunds = d.refunds
  <1> DEFINE id == <<"spend", n>>
             e == Posted(d, id, "wallet", "sales", n)
  <1>1. IsDb(d) /\ BooksOK(d.books)
    BY SoundHas
  <1>2. SameRows(d, e) /\ Moves(d.books, e.books, id, "wallet", "sales", n)
    BY <1>1, PostedMoves
  <1> HIDE DEF e
  <1>3. \A a : Balance(d.books, a) \in Int
    BY <1>1, BalanceType
  <1>4. \A a : Balance(e.books, a) = Balance(d.books, a) + Change(a, "wallet", "sales", n)
    BY <1>2 DEF Moves
  <1>5. /\ \A a \in {"disputed", "chargebacks", "receivable", "refunds_payable"} :
              Balance(e.books, a) = Balance(d.books, a)
        /\ Balance(e.books, "wallet") >= 0
    BY <1>3, <1>4 DEF Change
  <1>6. BooksOK(e.books) /\ DOMAIN e.books \subseteq DOMAIN d.books \cup {id}
    BY <1>2 DEF Moves
  <1>7. id \notin RevIds /\ id \notin OrderIds
    BY DEF RevIds, OrderIds
  <1>8. Sound(source, e)
    <2>1. RevIds \cap DOMAIN e.books \subseteq DOMAIN d.books
      BY <1>6, <1>7
    <2> QED BY <1>2, <1>5, <1>6, <2>1, OtherMoneyIsSound
  <1>9. e.refunds = d.refunds
    BY <1>2 DEF SameRows
  <1>10. Beside(d, e)
    BY <1>5, <1>6, <1>7, <1>9 DEF Beside, Owed
  <1> QED BY <1>8, <1>9, <1>10 DEF e

LEMMA SettledIsSound ==
    ASSUME NEW d, Sound(source, d), d.status = "captured"
    PROVE  LET e == [d EXCEPT !.status = "settled"]
           IN  Sound(source, e) /\ Beside(d, e) /\ e.refunds = d.refunds
  <1> DEFINE e == [d EXCEPT !.status = "settled"]
  <1>1. IsDb(d) /\ StatusFits(d.status, d.refunds, d.disputes) /\ NoCase(d.disputes)
    BY SoundHas, NoCaseYet
  <1>2. e = Db("settled", d.refunded, d.refunds, d.disputes, d.books)
    BY <1>1, SetStatus
  <1> HIDE DEF e
  <1>3. /\ IsDb(e) /\ e.status = "settled" /\ e.refunded = d.refunded /\ e.refunds = d.refunds
        /\ e.disputes = d.disputes /\ e.books = d.books
    BY <1>2, Fields
  <1>4. StatusFits("settled", d.refunds, d.disputes)
    <2>1. \A x \in Disputes : d.disputes[x].status \notin Unresolved \cup {"won", "lost"}
      BY <1>1 DEF NoCase, Absent, Unresolved
    <2> QED BY <1>1, <2>1 DEF StatusFits
  <1>5. Sound(source, e)
    BY <1>3, <1>4 DEF Sound
  <1>6. Beside(d, e)
    BY <1>3 DEF Beside, Owed
  <1> QED BY <1>3, <1>5, <1>6 DEF e

-----------------------------------------------------------------------------
(* The steps                                                               *)

\* What the provider says of a refund it was asked for.
LEMMA AskedIs ==
    ASSUME IsPsp, psp.disputes \in [Disputes -> {"none"} \cup Unresolved \cup Resolved],
           psp.refunds \in [Refunds -> {"none", "pending"} \cup Outcome], NEW r \in Refunds
    PROVE  LET p == Asked(r)
               said == IF psp.refunds[r] = "none" THEN "pending" ELSE psp.refunds[r]
           IN  /\ p = [refunds |-> p.refunds, disputes |-> p.disputes]
               /\ p.disputes = psp.disputes
               /\ p.refunds = With(psp.refunds, r, said)
  <1> DEFINE said == IF psp.refunds[r] = "none" THEN "pending" ELSE psp.refunds[r]
  <1>1. Asked(r) = [refunds |-> With(psp.refunds, r, said), disputes |-> psp.disputes]
    BY DEF Asked, IsPsp, With
  <1> HIDE DEF said
  <1>2. \A f, g : \A p : p = [refunds |-> f, disputes |-> g] =>
            p = [refunds |-> p.refunds, disputes |-> p.disputes] /\ p.disputes = g /\ p.refunds = f
    OBVIOUS
  <1> QED BY <1>1, <1>2 DEF said

\* A refund that changes its status to what the provider says, and what the
\* provider says of one it is asked for, fit together.
LEMMA StaysAgreed ==
    ASSUME NEW f, NEW said, Agrees(f, said), f \in [Refunds -> RefundStates], NEW r \in Refunds,
           NEW told, told \in {"pending"} \cup Outcome, said[r] \in {"none", told},
           said[r] = "none" => told = "pending",
           NEW to, to \in {f[r], "initiated", told}, f[r] \in RefundFinal => to = f[r]
    PROVE  Agrees(With(f, r, to), With(said, r, told))
  <1> DEFINE h == With(f, r, to)
             says == With(said, r, told)
  <1>1. says \in [Refunds -> {"none", "pending"} \cup Outcome]
    BY DEF Agrees, With
  <1>2. ASSUME NEW q \in Refunds
        PROVE  /\ h[q] \in {"pending"} \cup RefundFinal => says[q] # "none"
               /\ h[q] \in RefundFinal => says[q] = h[q]
    <2>1. CASE q # r
      <3>1. h[q] = f[q] /\ says[q] = said[q]
        BY <2>1 DEF With, Agrees
      <3> QED BY <3>1 DEF Agrees
    <2>2. CASE q = r
      <3>1. h[q] = to /\ says[q] = told
        BY <2>2 DEF With, Agrees
      <3>2. told # "none" /\ "initiated" \notin RefundFinal
        BY DEF Outcome, RefundFinal
      <3>3. f[r] \in RefundFinal => said[r] = f[r] /\ f[r] # "none"
        BY DEF Agrees, RefundFinal
      <3> QED BY <3>1, <3>2, <3>3
    <2> QED BY <2>1, <2>2
  <1> QED BY <1>1, <1>2 DEF Agrees

\* No refund that is on record is forgotten, and nothing the provider has
\* decided is taken back.
Onward(f, h, said, says) ==
    \A r \in Refunds : /\ f[r] # "absent" => h[r] # "absent"
                       /\ said[r] # "none" => says[r] # "none"
                       /\ said[r] \in RefundFinal => says[r] = said[r]

LEMMA JobsStayFit ==
    ASSUME NEW job, NEW f, NEW h, NEW said, NEW says, JobFits(job, f, said), Onward(f, h, said, says)
    PROVE  JobFits(job, h, says)
  <1>1. CASE job \in [kind : {"refund"}, of : Refunds, seen : {"pending"} \cup Outcome]
             /\ f[job.of] # "absent" /\ said[job.of] # "none" /\ (job.seen \in RefundFinal => said[job.of] = job.seen)
    <2>1. job.of \in Refunds
      BY <1>1
    <2> QED BY <1>1, <2>1 DEF JobFits, Onward
  <1> QED BY <1>1 DEF JobFits

\* What a step about the payment keeps of RevInv, whatever the order does.
LEMMA StepKeeps ==
    ASSUME RevInv, source' = source, jobs' = jobs,
           Sound(source, db'), psp' = [refunds |-> (psp').refunds, disputes |-> (psp').disputes],
           (psp').disputes \in [Disputes -> {"none"} \cup Unresolved \cup Resolved],
           Agrees((db').refunds, (psp').refunds),
           Onward(db.refunds, (db').refunds, psp.refunds, (psp').refunds)
    PROVE  RevInv'
  <1>1. Sound(source, db)' /\ IsPsp' /\ Agrees(db.refunds, psp.refunds)'
    BY DEF IsPsp
  <1>2. jobs' = [w \in Workers |-> jobs[w]']
    BY DEF RevInv
  <1>3. ASSUME NEW w \in Workers PROVE JobFits(jobs[w], db.refunds, psp.refunds)'
    <2>1. JobFits(jobs[w], db.refunds, psp.refunds)
      BY DEF RevInv
    <2>2. JobFits(jobs[w], (db').refunds, (psp').refunds)
      BY <2>1, JobsStayFit
    <2> QED BY <2>2
  <1> QED BY <1>1, <1>2, <1>3 DEF RevInv

IsTable(f) == f = [r \in Refunds |-> f[r]]

LEMMA WithAgain ==
    ASSUME NEW f, IsTable(f), NEW r \in Refunds, NEW a, NEW b
    PROVE  /\ With(With(f, r, a), r, b) = With(f, r, b)
           /\ With(f, r, f[r]) = f
BY DEF With, IsTable

LEMMA SubmitKeeps ==
    ASSUME RevInv, NEW d, Sound(source, d), NEW r \in Refunds,
           db.refunds[r] \in {"absent", "initiated"},
           d.refunds = With(db.refunds, r, "initiated"), Submit(d, r),
           source' = source, jobs' = jobs
    PROVE  RevInv' /\ (db' = db \/ Beside(d, db'))
  <1> DEFINE f == db.refunds
             said == psp.refunds
             told == IF said[r] = "none" THEN "pending" ELSE said[r]
  <1>1. /\ IsPsp /\ psp.disputes \in [Disputes -> {"none"} \cup Unresolved \cup Resolved]
        /\ said \in [Refunds -> {"none", "pending"} \cup Outcome] /\ Agrees(f, said)
        /\ Sound(source, db) /\ f \in [Refunds -> RefundStates]
        /\ IsTable(f) /\ IsTable(said)
    <2>1. Sound(source, db) /\ IsPsp /\ Agrees(f, said)
          /\ psp.disputes \in [Disputes -> {"none"} \cup Unresolved \cup Resolved]
      BY DEF RevInv
    <2>2. f \in [Refunds -> RefundStates]
      BY <2>1, SoundHas
    <2>3. said \in [Refunds -> {"none", "pending"} \cup Outcome]
      BY <2>1 DEF Agrees
    <2> QED BY <2>1, <2>2, <2>3 DEF IsTable
  <1>2. told \in {"pending"} \cup Outcome /\ said[r] \in {"none", told} /\ (said[r] = "none" => told = "pending")
    BY <1>1
  <1>3. f[r] \notin RefundFinal
    BY DEF RefundFinal
  <1> HIDE DEF f, said, told
  <1>4. ASSUME psp' = Asked(r)
        PROVE  /\ psp' = [refunds |-> (psp').refunds, disputes |-> (psp').disputes]
               /\ (psp').disputes \in [Disputes -> {"none"} \cup Unresolved \cup Resolved]
               /\ (psp').refunds = With(said, r, told)
    BY <1>1, <1>4, AskedIs DEF said, told
  <1>5. ASSUME NEW to, to \in {f[r], "initiated", told}
        PROVE  /\ Agrees(With(f, r, to), With(said, r, told))
               /\ f[r] \in {"absent", "initiated"} => Onward(f, With(f, r, to), said, With(said, r, told))
    <2>1. Agrees(With(f, r, to), With(said, r, told))
      BY <1>1, <1>2, <1>3, <1>5, StaysAgreed
    <2>2. ASSUME f[r] \in {"absent", "initiated"}, NEW q \in Refunds
          PROVE  /\ f[q] # "absent" => With(f, r, to)[q] # "absent"
                 /\ said[q] # "none" => With(said, r, told)[q] # "none"
                 /\ said[q] \in RefundFinal => With(said, r, told)[q] = said[q]
      <3>1. CASE q # r
        BY <1>1, <3>1 DEF With
      <3>2. CASE q = r
        <4>1. With(f, r, to)[q] = to /\ With(said, r, told)[q] = told
          BY <1>1, <3>2 DEF With
        <4>2. told # "absent" /\ told # "none" /\ "none" \notin RefundFinal
          BY <1>2 DEF Outcome, RefundFinal
        <4> QED BY <1>2, <1>5, <2>2, <3>2, <4>1, <4>2
      <3> QED BY <3>1, <3>2
    <2> QED BY <2>1, <2>2 DEF Onward
  <1>6. f[r] \in {"absent", "initiated"} /\ d.refunds = With(f, r, "initiated")
    BY DEF f
  <1>7. ASSUME psp' = Asked(r), Sound(source, db'), NEW to, to \in {f[r], "initiated", told},
               (db').refunds = With(f, r, to)
        PROVE  RevInv'
    <2>1. Agrees((db').refunds, (psp').refunds) /\ Onward(f, (db').refunds, said, (psp').refunds)
      BY <1>4, <1>5, <1>6, <1>7
    <2> QED BY <1>4, <1>7, <2>1, StepKeeps DEF f, said
  <1>8. CASE Accepts(r) /\ psp' = Asked(r) /\ CanApply(d, r, (psp').refunds[r])
             /\ db' = ApplyRefund(d, r, (psp').refunds[r])
    <2>1. (psp').refunds[r] = told
      BY <1>1, <1>4, <1>8 DEF With
    <2>2. d.refunds[r] = "initiated"
      BY <1>1, <1>6 DEF With
    <2>3. d.refunds[r] # "absent" /\ d.refunds[r] \notin RefundFinal
      BY <2>2 DEF RefundFinal
    <2>4. /\ Sound(source, ApplyRefund(d, r, told)) /\ Beside(d, ApplyRefund(d, r, told))
          /\ ApplyRefund(d, r, told).refunds = With(d.refunds, r, told)
      BY <1>2, <1>8, <2>1, <2>3, ApplyIsSound
    <2>5. With(d.refunds, r, told) = With(f, r, told)
      BY <1>1, <1>6, WithAgain
    <2>6. db' = ApplyRefund(d, r, told)
      BY <1>8, <2>1
    <2>7. Sound(source, db') /\ Beside(d, db') /\ (db').refunds = With(f, r, told)
      BY <2>4, <2>5, <2>6
    <2> QED BY <1>7, <1>8, <2>7
  <1>9. CASE Accepts(r) /\ psp' = Asked(r) /\ db' \in {d, db}
    <2>1. CASE db' = d
      <3>1. Beside(d, db')
        BY <2>1 DEF Beside
      <3>2. Sound(source, db') /\ (db').refunds = With(f, r, "initiated")
        BY <1>6, <2>1
      <3> QED BY <1>7, <1>9, <3>1, <3>2
    <2>2. CASE db' = db
      <3>1. Sound(source, db') /\ (db').refunds = With(f, r, f[r])
        BY <1>1, <2>2, WithAgain DEF f
      <3> QED BY <1>7, <1>9, <2>2, <3>1
    <2> QED BY <1>9, <2>1, <2>2
  <1>10. CASE psp' = psp /\ db' = d
    <2>1. Beside(d, db')
      BY <1>10 DEF Beside
    <2>2. (db').refunds = With(f, r, "initiated") /\ (psp').refunds = said
      BY <1>6, <1>10 DEF said
    <2>3. ASSUME NEW q \in Refunds
          PROVE  /\ With(f, r, "initiated")[q] \in {"pending"} \cup RefundFinal => f[q] = With(f, r, "initiated")[q]
                 /\ f[q] # "absent" => With(f, r, "initiated")[q] # "absent"
      <3>1. "initiated" \notin {"pending"} \cup RefundFinal
        BY DEF RefundFinal
      <3>2. CASE q = r
        BY <1>1, <3>1, <3>2 DEF With
      <3>3. CASE q # r
        BY <1>1, <3>3 DEF With
      <3> QED BY <3>2, <3>3
    <2>4. Agrees((db').refunds, (psp').refunds) /\ Onward(f, (db').refunds, said, (psp').refunds)
      BY <1>1, <2>2, <2>3 DEF Agrees, Onward
    <2>5. /\ psp' = [refunds |-> (psp').refunds, disputes |-> (psp').disputes]
          /\ (psp').disputes \in [Disputes -> {"none"} \cup Unresolved \cup Resolved]
      BY <1>1, <1>10 DEF IsPsp
    <2>6. Sound(source, db')
      BY <1>10
    <2> QED BY <2>1, <2>4, <2>5, <2>6, StepKeeps DEF f, said
  <1> QED BY <1>8, <1>9, <1>10 DEF Submit

LEMMA NothingElse ==
    ASSUME NEW f, NEW said PROVE Onward(f, f, said, said)
BY DEF Onward

LEMMA JobsFitOf ==
    ASSUME jobs = [w \in Workers |-> jobs[w]], \A w \in Workers : JobFits(jobs[w], db.refunds, psp.refunds),
           NEW w \in Workers, NEW job, JobFits(job, db.refunds, psp.refunds),
           jobs' = [jobs EXCEPT ![w] = job], db' = db, psp' = psp
    PROVE  /\ jobs' = [v \in Workers |-> jobs[v]']
           /\ \A v \in Workers : JobFits(jobs[v], db.refunds, psp.refunds)'
  <1>1. \A v \in Workers : jobs[v]' = IF v = w THEN job ELSE jobs[v]
    OBVIOUS
  <1>2. jobs' = [v \in Workers |-> jobs[v]']
    OBVIOUS
  <1>3. ASSUME NEW v \in Workers PROVE JobFits(jobs[v], db.refunds, psp.refunds)'
    <2>1. JobFits(jobs[v]', db.refunds, psp.refunds)
      BY <1>1
    <2> QED BY <2>1
  <1> QED BY <1>2, <1>3

\* A job that starts or ends and changes nothing else.
LEMMA JobKeeps ==
    ASSUME RevInv, NEW w \in Workers, NEW job, JobFits(job, db.refunds, psp.refunds),
           jobs' = [jobs EXCEPT ![w] = job], UNCHANGED <<source, db, psp>>
    PROVE  RevInv'
  <1>1. /\ jobs' = [v \in Workers |-> jobs[v]']
        /\ \A v \in Workers : JobFits(jobs[v], db.refunds, psp.refunds)'
    BY JobsFitOf DEF RevInv
  <1>2. Sound(source, db)' /\ Agrees(db.refunds, psp.refunds)'
    BY DEF RevInv
  <1> QED BY <1>1, <1>2 DEF RevInv, IsPsp

\* A transaction about the payment by a job that then ends.
LEMMA JobStepKeeps ==
    ASSUME RevInv, NEW w \in Workers, jobs' = [jobs EXCEPT ![w] = Idle], UNCHANGED <<source, psp>>,
           Sound(source, db'), Agrees((db').refunds, psp.refunds),
           Onward(db.refunds, (db').refunds, psp.refunds, psp.refunds)
    PROVE  RevInv'
  <1>1. \A v \in Workers : jobs[v]' = IF v = w THEN Idle ELSE jobs[v]
    BY DEF RevInv
  <1>2. jobs' = [v \in Workers |-> jobs[v]']
    BY DEF RevInv
  <1>3. ASSUME NEW v \in Workers PROVE JobFits(jobs[v], db.refunds, psp.refunds)'
    <2>1. JobFits(jobs[v], db.refunds, psp.refunds) /\ JobFits(Idle, db.refunds, psp.refunds)
      BY DEF RevInv, JobFits
    <2>2. JobFits(jobs[v], (db').refunds, psp.refunds) /\ JobFits(Idle, (db').refunds, psp.refunds)
      BY <2>1, JobsStayFit
    <2>3. JobFits(jobs[v]', (db').refunds, psp.refunds)
      BY <1>1, <2>2
    <2> QED BY <2>3
  <1>4. Sound(source, db)' /\ Agrees(db.refunds, psp.refunds)'
    OBVIOUS
  <1> QED BY <1>2, <1>3, <1>4 DEF RevInv, IsPsp

\* A transaction of its own that leaves the refunds alone.
LEMMA OwnStepKeeps ==
    ASSUME RevInv, UNCHANGED <<source, jobs>>, Sound(source, db'), (db').refunds = db.refunds,
           psp' = [refunds |-> (psp').refunds, disputes |-> (psp').disputes],
           (psp').disputes \in [Disputes -> {"none"} \cup Unresolved \cup Resolved],
           (psp').refunds = psp.refunds
    PROVE  RevInv'
  <1>1. Agrees(db.refunds, psp.refunds) /\ Onward(db.refunds, db.refunds, psp.refunds, psp.refunds)
    BY NothingElse DEF RevInv
  <1>2. Agrees((db').refunds, (psp').refunds) /\ Onward(db.refunds, (db').refunds, psp.refunds, (psp').refunds)
    BY <1>1
  <1> QED BY <1>2, StepKeeps

-----------------------------------------------------------------------------
(* The invariant of the payment                                            *)

\* CreateRefund reserves and submits in one transaction.
LEMMA CreateRefundKeeps ==
    ASSUME RevInv, NEW r \in Refunds, CreateRefund(r)
    PROVE  RevInv' /\ (db' = db \/ Beside(db, db'))
  <1> DEFINE d == Reserve(db, r)
  <1>1. /\ CanReserve(db, r) /\ Submit(d, r) /\ source' = source /\ jobs' = jobs
        /\ db.refunds[r] \in {"absent", "initiated"} /\ Sound(source, db)
    BY DEF CreateRefund, CanReserve, RevInv
  <1>2. Sound(source, d) /\ d.refunds = With(db.refunds, r, "initiated") /\ Beside(db, d)
    BY <1>1, ReserveIsSound
  <1> HIDE DEF d
  <1>3. RevInv' /\ (db' = db \/ Beside(d, db'))
    BY <1>1, <1>2, SubmitKeeps
  <1>4. Beside(d, db') => Beside(db, db')
    BY <1>2 DEF Beside
  <1> QED BY <1>3, <1>4

LEMMA ResubmitRefundKeeps ==
    ASSUME RevInv, NEW r \in Refunds, ResubmitRefund(r)
    PROVE  RevInv' /\ (db' = db \/ Beside(db, db'))
  <1>1. /\ Submit(db, r) /\ source' = source /\ jobs' = jobs
        /\ db.refunds[r] \in {"absent", "initiated"} /\ Sound(source, db)
    BY DEF ResubmitRefund, RevInv
  <1>2. IsTable(db.refunds)
    BY <1>1, SoundHas DEF IsTable
  <1>3. db.refunds = With(db.refunds, r, "initiated")
    BY <1>2, WithAgain DEF ResubmitRefund
  <1> QED BY <1>1, <1>3, SubmitKeeps

LEMMA FetchKeeps ==
    ASSUME RevInv, NEW w \in Workers,
           (\E r \in Refunds : FetchRefund(w, r)) \/ (\E x \in Disputes : FetchDispute(w, x)) \/ Abandon(w)
    PROVE  RevInv' /\ db' = db
  <1>1. CASE \E r \in Refunds : FetchRefund(w, r)
    <2>1. PICK r \in Refunds : FetchRefund(w, r)
      BY <1>1
    <2> DEFINE job == [kind |-> "refund", of |-> r, seen |-> psp.refunds[r]]
    <2>2. Agrees(db.refunds, psp.refunds)
      BY DEF RevInv
    <2>3. db.refunds[r] \in {"pending"} \cup RefundFinal /\ jobs' = [jobs EXCEPT ![w] = job]
          /\ UNCHANGED <<source, db, psp>>
      BY <2>1 DEF FetchRefund
    <2>4. psp.refunds[r] \in {"pending"} \cup Outcome /\ psp.refunds[r] # "none"
      BY <2>2, <2>3 DEF Agrees, RefundFinal
    <2>5. db.refunds[r] # "absent"
      BY <2>3 DEF RefundFinal
    <2>6. JobFits(job, db.refunds, psp.refunds)
      BY <2>4, <2>5 DEF JobFits
    <2> HIDE DEF job
    <2> QED BY <2>3, <2>6, JobKeeps
  <1>2. CASE \E x \in Disputes : FetchDispute(w, x)
    <2>1. PICK x \in Disputes : FetchDispute(w, x)
      BY <1>2
    <2> DEFINE job == [kind |-> "dispute", of |-> x, seen |-> psp.disputes[x]]
    <2>2. psp.disputes \in [Disputes -> {"none"} \cup Unresolved \cup Resolved]
      BY DEF RevInv
    <2>3. psp.disputes[x] # "none" /\ jobs' = [jobs EXCEPT ![w] = job] /\ UNCHANGED <<source, db, psp>>
      BY <2>1 DEF FetchDispute
    <2>4. JobFits(job, db.refunds, psp.refunds)
      BY <2>2, <2>3 DEF JobFits
    <2> HIDE DEF job
    <2> QED BY <2>3, <2>4, JobKeeps
  <1>3. CASE Abandon(w)
    <2>1. jobs' = [jobs EXCEPT ![w] = Idle] /\ UNCHANGED <<source, db, psp>>
      BY <1>3 DEF Abandon
    <2>2. JobFits(Idle, db.refunds, psp.refunds)
      BY DEF JobFits
    <2> QED BY <2>1, <2>2, JobKeeps
  <1> QED BY <1>1, <1>2, <1>3

\* applyRefund under the payment's lock, with what the job saw before it.
LEMMA SyncRefundKeeps ==
    ASSUME RevInv, NEW w \in Workers, SyncRefund(w)
    PROVE  RevInv' /\ Beside(db, db')
  <1> DEFINE f == db.refunds
             said == psp.refunds
  <1>1. /\ jobs[w].kind = "refund" /\ CanApply(db, jobs[w].of, jobs[w].seen)
        /\ db' = ApplyRefund(db, jobs[w].of, jobs[w].seen)
        /\ jobs' = [jobs EXCEPT ![w] = Idle] /\ UNCHANGED <<source, psp>>
    BY DEF SyncRefund
  <1>2. Sound(source, db) /\ Agrees(f, said) /\ JobFits(jobs[w], f, said)
    BY DEF RevInv
  <1>3. /\ jobs[w].of \in Refunds /\ jobs[w].seen \in {"pending"} \cup Outcome
        /\ f[jobs[w].of] # "absent" /\ said[jobs[w].of] # "none"
        /\ jobs[w].seen \in RefundFinal => said[jobs[w].of] = jobs[w].seen
    BY <1>1, <1>2 DEF JobFits, Idle
  <1>4. PICK r \in Refunds, seen \in {"pending"} \cup Outcome : r = jobs[w].of /\ seen = jobs[w].seen
    BY <1>3
  <1>5. /\ Sound(source, db') /\ Beside(db, db')
        /\ (db').refunds = IF f[r] \in RefundFinal THEN f ELSE With(f, r, seen)
    BY <1>1, <1>2, <1>3, <1>4, ApplyIsSound
  <1>6. f \in [Refunds -> RefundStates] /\ said \in [Refunds -> {"none", "pending"} \cup Outcome]
    BY <1>2, SoundHas DEF Agrees
  <1> HIDE DEF f, said
  <1>7. CASE f[r] \in RefundFinal
    <2>1. Onward(f, f, said, said)
      BY NothingElse
    <2> QED BY <1>1, <1>2, <1>5, <1>7, <2>1, JobStepKeeps DEF f, said
  <1>8. CASE f[r] \notin RefundFinal
    <2>1. ASSUME NEW q \in Refunds
          PROVE  /\ With(f, r, seen)[q] \in {"pending"} \cup RefundFinal => said[q] # "none"
                 /\ With(f, r, seen)[q] \in RefundFinal => said[q] = With(f, r, seen)[q]
                 /\ f[q] # "absent" => With(f, r, seen)[q] # "absent"
      <3>1. CASE q = r
        <4>1. With(f, r, seen)[q] = seen
          BY <1>6, <3>1 DEF With
        <4>2. "pending" \notin RefundFinal /\ "none" \notin RefundFinal /\ seen # "absent"
          BY DEF Outcome, RefundFinal
        <4> QED BY <1>3, <1>4, <1>8, <3>1, <4>1, <4>2
      <3>2. CASE q # r
        <4>1. With(f, r, seen)[q] = f[q]
          BY <1>6, <3>2 DEF With
        <4> QED BY <1>2, <4>1 DEF Agrees
      <3> QED BY <3>1, <3>2
    <2>2. Agrees(With(f, r, seen), said) /\ Onward(f, With(f, r, seen), said, said)
      BY <1>6, <2>1 DEF Agrees, Onward
    <2>3. (db').refunds = With(f, r, seen)
      BY <1>5, <1>8
    <2> QED BY <1>1, <1>5, <2>2, <2>3, JobStepKeeps DEF f, said
  <1> QED BY <1>5, <1>7, <1>8

\* processDisputeEvent records the chargeback in a transaction of its own.
LEMMA OpenDisputeKeeps ==
    ASSUME RevInv, NEW w \in Workers, OpenDispute(w)
    PROVE  RevInv' /\ Beside(db, db')
  <1>1. /\ jobs[w].kind = "dispute" /\ Absent(db.disputes, jobs[w].of) /\ CanOpen(db)
        /\ db' = Opened(db, jobs[w].of) /\ UNCHANGED <<source, psp, jobs>>
    BY DEF OpenDispute, Absent
  <1>2. /\ Sound(source, db) /\ JobFits(jobs[w], db.refunds, psp.refunds)
        /\ IsPsp /\ psp.disputes \in [Disputes -> {"none"} \cup Unresolved \cup Resolved]
    BY DEF RevInv
  <1>3. jobs[w].of \in Disputes
    BY <1>1, <1>2 DEF JobFits, Idle
  <1>4. Sound(source, db') /\ Beside(db, db') /\ (db').refunds = db.refunds
    BY <1>1, <1>2, <1>3, OpenedIsSound
  <1>5. /\ psp' = [refunds |-> (psp').refunds, disputes |-> (psp').disputes]
        /\ (psp').disputes \in [Disputes -> {"none"} \cup Unresolved \cup Resolved]
        /\ (psp').refunds = psp.refunds
    BY <1>1, <1>2 DEF IsPsp
  <1> QED BY <1>1, <1>4, <1>5, OwnStepKeeps

\* SyncDispute: another state of a chargeback, or a decision.
LEMMA SyncDisputeKeeps ==
    ASSUME RevInv, NEW w \in Workers, SyncDispute(w)
    PROVE  RevInv' /\ (db' = db \/ Beside(db, db'))
  <1>1. /\ Sound(source, db) /\ JobFits(jobs[w], db.refunds, psp.refunds)
        /\ Agrees(db.refunds, psp.refunds)
    BY DEF RevInv
  <1>2. jobs[w].kind = "dispute" /\ jobs' = [jobs EXCEPT ![w] = Idle] /\ UNCHANGED <<source, psp>>
    BY DEF SyncDispute
  <1>3. jobs[w].of \in Disputes /\ jobs[w].seen \in Unresolved \cup Resolved
    BY <1>1, <1>2 DEF JobFits, Idle
  <1>4. PICK x \in Disputes, seen \in Unresolved \cup Resolved : x = jobs[w].of /\ seen = jobs[w].seen
    BY <1>3
  <1> DEFINE status == db.disputes[x].status
  <1>5. status \in {"absent"} \cup Unresolved \cup Resolved
    <2>1. db.disputes[x] \in Parts
      BY <1>1, SoundHas DEF DisputesFit
    <2> QED BY <2>1 DEF Parts
  <1>6. /\ status # "absent"
        /\ db' = CASE status \in Resolved -> db
                   [] status \in Unresolved /\ seen \in Unresolved -> [db EXCEPT !.disputes[x].status = seen]
                   [] status \in Unresolved /\ seen \in Resolved -> Resolve(db, x, seen)
    BY <1>4 DEF SyncDispute
  <1>7. Unresolved \cap Resolved = {}
    BY DEF Unresolved, Resolved
  <1>8. Sound(source, db') /\ (db' = db \/ Beside(db, db')) /\ (db').refunds = db.refunds
    <2>1. CASE status \in Resolved
      <3>1. db' = db
        BY <1>6, <1>7, <2>1
      <3> QED BY <1>1, <3>1
    <2>2. CASE status \in Unresolved /\ seen \in Unresolved
      <3>1. db' = [db EXCEPT !.disputes[x].status = seen]
        BY <1>6, <1>7, <2>2
      <3> QED BY <1>1, <2>2, <3>1, ReviewIsSound
    <2>3. CASE status \in Unresolved /\ seen \in Resolved
      <3>1. db' = Resolve(db, x, seen)
        BY <1>6, <1>7, <2>3
      <3> QED BY <1>1, <2>3, <3>1, ResolveIsSound
    <2> QED BY <1>5, <1>6, <2>1, <2>2, <2>3
  <1>9. /\ Agrees((db').refunds, psp.refunds)
        /\ Onward(db.refunds, (db').refunds, psp.refunds, psp.refunds)
    BY <1>1, <1>8, NothingElse
  <1> QED BY <1>2, <1>8, <1>9, JobStepKeeps

LEMMA SubmitDisputeEvidenceKeeps ==
    ASSUME RevInv, NEW x \in Disputes, SubmitDisputeEvidence(x)
    PROVE  RevInv' /\ (db' = db \/ Beside(db, db'))
  <1>1. /\ Sound(source, db) /\ IsPsp
        /\ psp.disputes \in [Disputes -> {"none"} \cup Unresolved \cup Resolved]
    BY DEF RevInv
  <1>2. /\ db.disputes[x].status \in Unresolved /\ "under_review" \in Unresolved
        /\ psp' = [psp EXCEPT !.disputes[x] = "under_review"]
        /\ db' = [db EXCEPT !.disputes[x].status = "under_review"] \/ db' = db
        /\ UNCHANGED <<source, jobs>>
    BY DEF SubmitDisputeEvidence, Unresolved
  <1>3. Sound(source, db') /\ (db' = db \/ Beside(db, db')) /\ (db').refunds = db.refunds
    <2>1. CASE db' = db
      BY <1>1, <2>1
    <2>2. CASE db' = [db EXCEPT !.disputes[x].status = "under_review"]
      BY <1>1, <1>2, <2>2, ReviewIsSound
    <2> QED BY <1>2, <2>1, <2>2
  <1>4. psp' = [refunds |-> psp.refunds, disputes |-> [psp.disputes EXCEPT ![x] = "under_review"]]
    BY <1>1, <1>2 DEF IsPsp
  <1>5. [psp.disputes EXCEPT ![x] = "under_review"] \in [Disputes -> {"none"} \cup Unresolved \cup Resolved]
    BY <1>1, <1>2
  <1>6. /\ psp' = [refunds |-> (psp').refunds, disputes |-> (psp').disputes]
        /\ (psp').disputes \in [Disputes -> {"none"} \cup Unresolved \cup Resolved]
        /\ (psp').refunds = psp.refunds
    BY <1>4, <1>5
  <1> QED BY <1>2, <1>3, <1>6, OwnStepKeeps

\* Spending from the wallet, and the settlement of the payment.
LEMMA OthersKeep ==
    ASSUME RevInv, (\E n \in 1..Captured : Spend(n)) \/ MarkSettled
    PROVE  RevInv' /\ Beside(db, db')
  <1>1. /\ Sound(source, db) /\ IsPsp
        /\ psp.disputes \in [Disputes -> {"none"} \cup Unresolved \cup Resolved]
    BY DEF RevInv
  <1>2. UNCHANGED <<source, psp, jobs>>
    BY DEF Spend, MarkSettled
  <1>3. Sound(source, db') /\ Beside(db, db') /\ (db').refunds = db.refunds
    <2>1. CASE \E n \in 1..Captured : Spend(n)
      <3>1. PICK n \in 1..Captured : Spend(n)
        BY <2>1
      <3>2. /\ n \in Nat /\ <<"spend", n>> \notin DOMAIN db.books /\ Balance(db.books, "wallet") >= n
            /\ db' = Posted(db, <<"spend", n>>, "wallet", "sales", n)
        BY <3>1 DEF Spend
      <3> QED BY <1>1, <3>2, SpentIsSound
    <2>2. CASE MarkSettled
      <3>1. db.status = "captured" /\ db' = [db EXCEPT !.status = "settled"]
        BY <2>2 DEF MarkSettled
      <3> QED BY <1>1, <3>1, SettledIsSound
    <2> QED BY <2>1, <2>2
  <1>4. /\ psp' = [refunds |-> (psp').refunds, disputes |-> (psp').disputes]
        /\ (psp').disputes \in [Disputes -> {"none"} \cup Unresolved \cup Resolved]
        /\ (psp').refunds = psp.refunds
    BY <1>1, <1>2 DEF IsPsp
  <1> QED BY <1>2, <1>3, <1>4, OwnStepKeeps

\* The provider decides a refund or a chargeback: nothing of ours moves.
LEMMA ProviderKeeps ==
    ASSUME RevInv,
           \/ \E r \in Refunds, outcome \in Outcome : RefundEnds(r, outcome)
           \/ \E x \in Disputes, status \in {"open"} \cup Resolved : DisputeMoves(x, status)
    PROVE  RevInv' /\ db' = db
  <1>1. /\ Sound(source, db) /\ IsPsp /\ Agrees(db.refunds, psp.refunds)
        /\ psp.disputes \in [Disputes -> {"none"} \cup Unresolved \cup Resolved]
    BY DEF RevInv
  <1>2. CASE \E r \in Refunds, outcome \in Outcome : RefundEnds(r, outcome)
    <2>1. PICK r \in Refunds, outcome \in Outcome : RefundEnds(r, outcome)
      BY <1>2
    <2>2. /\ psp.refunds[r] = "pending" /\ psp' = [psp EXCEPT !.refunds[r] = outcome]
          /\ UNCHANGED <<source, db, jobs>>
      BY <2>1 DEF RefundEnds
    <2> DEFINE said == psp.refunds
               says == With(said, r, outcome)
    <2>3. psp' = [refunds |-> says, disputes |-> psp.disputes]
      BY <1>1, <2>2 DEF IsPsp, With
    <2>4. said \in [Refunds -> {"none", "pending"} \cup Outcome] /\ Agrees(db.refunds, said)
      BY <1>1 DEF Agrees
    <2>5. says \in [Refunds -> {"none", "pending"} \cup Outcome]
      BY <2>4 DEF With
    <2>6. ASSUME NEW q \in Refunds
          PROVE  /\ said[q] # "none" => says[q] # "none"
                 /\ said[q] \in RefundFinal => says[q] = said[q]
      <3>1. "pending" \notin RefundFinal /\ "none" \notin Outcome
        BY DEF Outcome, RefundFinal
      <3>2. says[q] = IF q = r THEN outcome ELSE said[q]
        BY <2>4 DEF With
      <3> HIDE DEF says
      <3> QED BY <2>2, <3>1, <3>2
    <2> HIDE DEF says
    <2>7. /\ psp' = [refunds |-> (psp').refunds, disputes |-> (psp').disputes]
          /\ (psp').refunds = says /\ (psp').disputes = psp.disputes
      BY <2>3
    <2> HIDE DEF said
    <2>8. Agrees(db.refunds, says) /\ Onward(db.refunds, db.refunds, said, says)
      BY <2>4, <2>5, <2>6 DEF Agrees, Onward
    <2>9. /\ Agrees((db').refunds, (psp').refunds) /\ Sound(source, db')
          /\ Onward(db.refunds, (db').refunds, psp.refunds, (psp').refunds)
          /\ (psp').disputes \in [Disputes -> {"none"} \cup Unresolved \cup Resolved]
      BY <1>1, <2>2, <2>7, <2>8 DEF said
    <2> QED BY <2>2, <2>7, <2>9, StepKeeps
  <1>3. CASE \E x \in Disputes, status \in {"open"} \cup Resolved : DisputeMoves(x, status)
    <2>1. PICK x \in Disputes, status \in {"open"} \cup Resolved : DisputeMoves(x, status)
      BY <1>3
    <2>2. /\ psp' = [psp EXCEPT !.disputes[x] = status] /\ UNCHANGED <<source, db, jobs>>
          /\ status \in {"none"} \cup Unresolved \cup Resolved
      BY <2>1 DEF DisputeMoves, Unresolved
    <2>3. psp' = [refunds |-> psp.refunds, disputes |-> [psp.disputes EXCEPT ![x] = status]]
      BY <1>1, <2>2 DEF IsPsp
    <2>4. /\ psp' = [refunds |-> (psp').refunds, disputes |-> (psp').disputes]
          /\ (psp').disputes \in [Disputes -> {"none"} \cup Unresolved \cup Resolved]
          /\ (psp').refunds = psp.refunds
      BY <1>1, <2>2, <2>3
    <2>5. Sound(source, db') /\ (db').refunds = db.refunds
      BY <1>1, <2>2
    <2> QED BY <2>2, <2>4, <2>5, OwnStepKeeps
  <1> QED BY <1>2, <1>3

LEMMA RevStep ==
    ASSUME RevInv, RevNext
    PROVE  RevInv' /\ (db' = db \/ Beside(db, db'))
  <1>1. CASE \E r \in Refunds : CreateRefund(r)
    BY <1>1, CreateRefundKeeps
  <1>2. CASE \E r \in Refunds : ResubmitRefund(r)
    BY <1>2, ResubmitRefundKeeps
  <1>3. CASE \/ \E r \in Refunds, outcome \in Outcome : RefundEnds(r, outcome)
             \/ \E x \in Disputes, status \in {"open"} \cup Resolved : DisputeMoves(x, status)
    BY <1>3, ProviderKeeps
  <1>4. CASE \E x \in Disputes : SubmitDisputeEvidence(x)
    BY <1>4, SubmitDisputeEvidenceKeeps
  <1>5. CASE \E w \in Workers : SyncRefund(w)
    BY <1>5, SyncRefundKeeps
  <1>6. CASE \E w \in Workers : OpenDispute(w)
    BY <1>6, OpenDisputeKeeps
  <1>7. CASE \E w \in Workers : SyncDispute(w)
    BY <1>7, SyncDisputeKeeps
  <1>8. CASE \E w \in Workers : \/ \E r \in Refunds : FetchRefund(w, r)
                                \/ \E x \in Disputes : FetchDispute(w, x)
                                \/ Abandon(w)
    BY <1>8, FetchKeeps
  <1>9. CASE (\E n \in 1..Captured : Spend(n)) \/ MarkSettled
    BY <1>9, OthersKeep
  <1> QED BY <1>1, <1>2, <1>3, <1>4, <1>5, <1>6, <1>7, <1>8, <1>9 DEF RevNext

LEMMA RevStutter ==
    ASSUME RevInv, UNCHANGED revVars
    PROVE  RevInv' /\ db' = db
  <1>1. source' = source /\ db' = db /\ psp' = psp /\ jobs' = jobs
    BY DEF revVars
  <1>2. Sound(source, db)' /\ Agrees(db.refunds, psp.refunds)' /\ IsPsp'
    BY <1>1 DEF RevInv, IsPsp
  <1>3. ASSUME NEW w \in Workers PROVE JobFits(jobs[w], db.refunds, psp.refunds)'
    <2>1. JobFits(jobs[w], db.refunds, psp.refunds)
      BY DEF RevInv
    <2> QED BY <1>1, <2>1
  <1> QED BY <1>1, <1>2, <1>3 DEF RevInv

LEMMA RevInitInv == RevInit => RevInv
  <1> SUFFICES ASSUME RevInit PROVE RevInv
    OBVIOUS
  <1> DEFINE f == [r \in Refunds |-> "absent"]
             row == [status |-> "absent", wallet |-> 0, unapplied |-> 0, expense |-> 0]
             g == [x \in Disputes |-> row]
             id == <<"capture", "payment">>
             to == AccountOf(source)
             j == Journal("receivable", to, Captured)
             books == Post(NoBooks, id, j)
  <1>1. source \in Sources /\ jobs = [w \in Workers |-> Idle]
        /\ db = Db("captured", 0, f, g, books)
        /\ psp = [refunds |-> [r \in Refunds |-> "none"], disputes |-> [x \in Disputes |-> "none"]]
    BY DEF RevInit, Db
  <1>2. to \in {"wallet", "refunds_payable", "sales"}
        /\ (source = "wallet" => to = "wallet") /\ (source = "unapplied" => to = "refunds_payable")
    BY <1>1, ReversalAssumption DEF AccountOf
  <1>3. Captured \in Nat /\ Captured > 0
    BY AmountsAreNat
  <1>4. BooksOK(NoBooks) /\ id \notin DOMAIN NoBooks /\ \A a : Balance(NoBooks, a) = 0
    BY NoBooksOK
  <1> HIDE DEF to
  <1>5. BooksOK(books) /\ DOMAIN books = {id}
    <2>1. BooksOK(books)
      BY <1>3, <1>4, PostNew
    <2>2. DOMAIN books = DOMAIN NoBooks \cup {id}
      BY PostDomain
    <2> HIDE DEF books
    <2> QED BY <2>1, <2>2, NoBooksOK
  <1>6. \A a : Balance(books, a) = (IF a = to THEN Captured ELSE 0) - (IF a = "receivable" THEN Captured ELSE 0)
    <2>1. ASSUME NEW a
          PROVE  Balance(books, a) = (IF a = to THEN Captured ELSE 0) - (IF a = "receivable" THEN Captured ELSE 0)
      <3>1. Balance(books, a) = Balance(NoBooks, a) + (IF a = to THEN Captured ELSE 0)
                                    - (IF a = "receivable" THEN Captured ELSE 0)
        BY <1>3, <1>4, PostMoves
      <3>2. Balance(NoBooks, a) = 0
        BY <1>4
      <3> HIDE DEF books
      <3> QED BY <1>3, <3>1, <3>2
    <2> QED BY <2>1
  <1>7. /\ f \in [Refunds -> RefundStates] /\ Recorded(f) = {}
        /\ \A S \in SUBSET (RefundStates \ {"absent"}) : {r \in Refunds : f[r] \in S} = {}
    BY DEF RefundStates, Recorded
  <1>8. /\ Back(f, Promised) = 0 /\ Back(f, RefundOpen) = 0 /\ Back(f, {"processed"}) = 0
    <2>1. /\ Promised \in SUBSET (RefundStates \ {"absent"})
          /\ RefundOpen \in SUBSET (RefundStates \ {"absent"})
          /\ {"processed"} \in SUBSET (RefundStates \ {"absent"})
      BY DEF Promised, RefundStates, RefundOpen, RefundFinal
    <2> HIDE DEF f
    <2>2. ASSUME NEW S \in SUBSET (RefundStates \ {"absent"}) PROVE Back(f, S) = 0
      <3>1. {r \in Refunds : f[r] \in S} = {}
        BY <1>7
      <3> QED BY <3>1, TotalEmpty DEF Back
    <2> QED BY <2>1, <2>2
  <1>9. NoCase(g) /\ g \in [Disputes -> Parts]
    BY DEF NoCase, Absent, Parts
  <1>10. /\ Claimed(g, Unresolved) = 0 /\ Expense(g, Unresolved \cup {"lost"}) = 0
         /\ Claimed(g, {"lost"}) = 0 /\ Kept(g, Unresolved \cup {"lost"}) = 0
    <2>1. "absent" \notin Unresolved \cup {"lost"}
      BY DEF Unresolved
    <2> HIDE DEF g
    <2> QED BY <1>9, <2>1, NothingContested
  <1>11. RefundsFit(f, 0)
    <2>1. IsFiniteSet(Recorded(f))
      BY <1>7, FS_EmptySet
    <2> HIDE DEF f
    <2> QED BY <1>3, <1>7, <1>8, <2>1 DEF RefundsFit
  <1>12. DisputesFit(source, g, 0)
    <2> HIDE DEF g
    <2> QED BY <1>9 DEF DisputesFit, NoCase
  <1>13. StatusFits("captured", f, g)
    <2>1. \A x \in Disputes : g[x].status \notin Unresolved \cup {"won", "lost"}
      BY DEF Unresolved
    <2> HIDE DEF f, g
    <2> QED BY <1>3, <1>8, <2>1 DEF StatusFits
  <1>14. JournalsFit(f, g, DOMAIN books)
    <2> HIDE DEF books, f, g
    <2> QED BY <1>5 DEF JournalsFit
  <1>15. MoneyFits(source, f, g, books)
    <2>1. /\ Balance(books, "disputed") = 0 /\ Balance(books, "chargebacks") = 0
          /\ Balance(books, "wallet") = (IF to = "wallet" THEN Captured ELSE 0)
          /\ Balance(books, "receivable") = 0 - Captured
          /\ Balance(books, "refunds_payable") = (IF to = "refunds_payable" THEN Captured ELSE 0)
      <3> HIDE DEF books
      <3> QED BY <1>2, <1>3, <1>6
    <2> HIDE DEF books, f, g
    <2> QED BY <1>2, <1>3, <1>8, <1>10, <2>1 DEF MoneyFits
  <1> HIDE DEF f, g, books
  <1>16. Sound(source, db)
    <2>1. IsDb(db) /\ db.status = "captured" /\ db.refunded = 0 /\ db.refunds = f
          /\ db.disputes = g /\ db.books = books
      BY <1>1, Fields
    <2> QED BY <1>5, <1>11, <1>12, <1>13, <1>14, <1>15, <2>1 DEF Sound
  <1>17. db.refunds = f
    BY <1>1, Fields
  <1>18. Agrees(db.refunds, psp.refunds) /\ IsPsp
         /\ psp.disputes \in [Disputes -> {"none"} \cup Unresolved \cup Resolved]
    <2>1. \A r \in Refunds : f[r] \notin {"pending"} \cup RefundFinal
      BY DEF f, RefundFinal
    <2> QED BY <1>1, <1>17, <2>1 DEF Agrees, IsPsp
  <1>19. jobs = [w \in Workers |-> jobs[w]]
         /\ \A w \in Workers : JobFits(jobs[w], db.refunds, psp.refunds)
    BY <1>1 DEF JobFits
  <1> QED BY <1>1, <1>16, <1>18, <1>19 DEF RevInv

\* What the invariant says of the properties the runs check.
LEMMA RevInvMeans ==
    ASSUME RevInv
    PROVE  /\ RefundsFitCapture /\ OwedBackIsCovered /\ ContestedMoneyIsHeld
           /\ StatusIsTheBooks /\ RefundsAgree
  <1> DEFINE f == db.refunds
             g == db.disputes
             b == db.books
  <1>1. Sound(source, db) /\ source \in Sources /\ Agrees(f, psp.refunds)
    BY DEF RevInv
  <1>2. /\ f \in [Refunds -> RefundStates] /\ IsFiniteSet(Recorded(f))
        /\ db.refunded = Back(f, Promised) /\ db.refunded <= Captured /\ db.refunded \in Nat
        /\ DisputesFit(source, g, db.refunded) /\ StatusFits(db.status, f, g)
        /\ MoneyFits(source, f, g, b)
    BY <1>1, SoundHas DEF RefundsFit
  <1>3. \A S : SumRefunds(db, S) = Back(f, S)
    BY DEF SumRefunds, Back
  <1>4. \A S : DisputesIn(S) = Cases(g, S)
    BY DEF DisputesIn, Cases
  <1>5. /\ Back(f, RefundOpen) \in Nat /\ Back(f, {"processed"}) \in Nat
        /\ Back(f, Promised) = Back(f, RefundOpen) + Back(f, {"processed"})
    BY <1>2, PromisedIs
  <1>6. Captured \in Nat /\ Captured > 0
    BY AmountsAreNat
  <1>7. "absent" \notin Unresolved \cup {"lost"} /\ "absent" \notin Unresolved /\ "absent" \notin {"lost"}
    BY DEF Unresolved
  <1>8. /\ Claimed(g, Unresolved) \in Nat /\ Claimed(g, {"lost"}) \in Nat
        /\ Expense(g, Unresolved \cup {"lost"}) \in Nat /\ Kept(g, Unresolved \cup {"lost"}) \in Nat
    BY <1>2, <1>7, ContestedType
  <1>9. RefundsFitCapture
    BY <1>2, <1>3 DEF RefundsFitCapture, Promised
  <1>10. RefundsAgree
    BY <1>1 DEF RefundsAgree, Agrees
  <1>11. ContestedMoneyIsHeld
    <2>1. Claimed(g, Unresolved) = Total(DisputeAmount, DisputesIn(Unresolved))
      BY <1>4 DEF Claimed
    <2>2. Expense(g, Unresolved \cup {"lost"})
            = Total([x \in Disputes |-> db.disputes[x].expense], DisputesIn(Unresolved \cup {"lost"}))
      BY <1>4 DEF Expense
    <2> QED BY <1>2, <2>1, <2>2 DEF ContestedMoneyIsHeld, MoneyFits
  <1>12. OwedBackIsCovered
    <2>1. CASE source = "wallet"
      BY <1>2, <1>3, <1>5, <2>1 DEF OwedBackIsCovered, OwedBack, MoneyFits
    <2>2. CASE source = "unapplied"
      <3>1. db.refunded + Kept(g, Unresolved \cup {"lost"}) <= Captured
        <4>1. CASE NoCase(g)
          BY <1>2, <1>7, <4>1, NothingContested
        <4>2. CASE ~ NoCase(g)
          <5>1. PICK x \in Disputes : ~ Absent(g, x)
            BY <4>2 DEF NoCase
          <5>2. /\ g \in [Disputes -> Parts] /\ \A y \in Disputes : Absent(g, y) \/ y = x
                /\ db.refunded + g[x].unapplied <= Captured
            BY <1>2, <2>2, <5>1 DEF DisputesFit
          <5>3. Kept(g, Unresolved \cup {"lost"}) = IF g[x].status \in Unresolved \cup {"lost"} THEN g[x].unapplied ELSE 0
            BY <1>7, <5>2, OneContested
          <5> QED BY <1>2, <5>2, <5>3
        <4> QED BY <4>1, <4>2
      <3>2. Balance(b, "refunds_payable") = Captured - Back(f, {"processed"}) - Kept(g, Unresolved \cup {"lost"})
        BY <1>2, <2>2 DEF MoneyFits
      <3>3. Balance(b, "refunds_payable") >= Back(f, RefundOpen)
        BY <1>2, <1>5, <1>6, <1>8, <3>1, <3>2
      <3> QED BY <1>3, <3>3 DEF OwedBackIsCovered, OwedBack
    <2>3. CASE source = "order"
      BY <2>3 DEF OwedBackIsCovered
    <2> QED BY <1>1, <2>1, <2>2, <2>3, ReversalAssumption
  <1>13. StatusIsTheBooks
    <2>1. - Balance(b, "receivable") = Captured - Back(f, {"processed"}) - Claimed(g, {"lost"})
      BY <1>2 DEF MoneyFits
    <2>2. Claimed(g, {"lost"}) = Total(DisputeAmount, DisputesIn({"lost"}))
      BY <1>4 DEF Claimed
    <2>3. CASE NoCase(g)
      <3>1. DisputesIn(Unresolved) = {} /\ DisputesIn({"won"}) = {} /\ DisputesIn({"lost"}) = {}
        BY <1>4, <1>7, <2>3, NothingContested
      <3>2. LET n == Back(f, {"processed"})
            IN  /\ n = 0 => db.status \in {"captured", "settled"}
                /\ n \in 1..(Captured - 1) => db.status = "partially_refunded"
                /\ n >= Captured => db.status = "refunded"
        BY <1>2, <2>3 DEF StatusFits
      <3>3. Back(f, {"processed"}) = 0 \/ Back(f, {"processed"}) \in 1..(Captured - 1) \/ Back(f, {"processed"}) >= Captured
        BY <1>5, <1>6
      <3> HIDE DEF f, g, b
      <3>4. LET n == Back(f, {"processed"})
            IN  CASE n = 0 -> db.status \in {"captured", "settled"}
                  [] n \in 1..(Captured - 1) -> db.status = "partially_refunded"
                  [] n >= Captured -> db.status = "refunded"
        BY <1>5, <1>6, <3>2, <3>3
      <3>5. SumRefunds(db, {"processed"}) = Back(f, {"processed"})
        BY <1>3
      <3> QED BY <2>1, <2>2, <3>1, <3>4, <3>5 DEF StatusIsTheBooks, b
    <2>4. CASE ~ NoCase(g)
      <3>1. PICK x \in Disputes : ~ Absent(g, x)
        BY <2>4 DEF NoCase
      <3>2. /\ g \in [Disputes -> Parts] /\ \A y \in Disputes : Absent(g, y) \/ y = x
        BY <1>2, <3>1 DEF DisputesFit
      <3>3. g[x].status \in Unresolved \cup {"won", "lost"}
        <4>1. g[x] \in Parts
          BY <3>2
        <4> QED BY <3>1, <4>1 DEF Parts, Absent, Resolved
      <3>4. /\ DisputesIn(Unresolved) = IF g[x].status \in Unresolved THEN {x} ELSE {}
            /\ DisputesIn({"won"}) = IF g[x].status \in {"won"} THEN {x} ELSE {}
            /\ DisputesIn({"lost"}) = IF g[x].status \in {"lost"} THEN {x} ELSE {}
        BY <1>4, <1>7, <3>2, OneContested
      <3>5. "won" \notin Unresolved /\ "lost" \notin Unresolved
        BY DEF Unresolved
      <3>6. /\ g[x].status \in Unresolved => db.status = "disputed"
            /\ g[x].status = "won" => db.status = "dispute_won"
            /\ g[x].status = "lost" => db.status = "dispute_lost"
        BY <1>2 DEF StatusFits
      <3>7. SumRefunds(db, {"processed"}) = Back(f, {"processed"})
        BY <1>3
      <3>8. - Balance(db.books, "receivable")
               = Captured - SumRefunds(db, {"processed"}) - Total(DisputeAmount, DisputesIn({"lost"}))
        BY <2>1, <2>2, <3>7
      <3>9. CASE g[x].status \in Unresolved
        <4>1. /\ DisputesIn(Unresolved) # {} /\ DisputesIn({"won"}) = {} /\ DisputesIn({"lost"}) = {}
              /\ db.status = "disputed"
          BY <3>4, <3>5, <3>6, <3>9
        <4> HIDE DEF f, g, b
        <4> QED BY <3>8, <4>1 DEF StatusIsTheBooks
      <3>10. CASE g[x].status = "won"
        <4>1. /\ DisputesIn(Unresolved) = {} /\ DisputesIn({"won"}) # {} /\ DisputesIn({"lost"}) = {}
              /\ db.status = "dispute_won"
          BY <3>4, <3>5, <3>6, <3>10
        <4> HIDE DEF f, g, b
        <4> QED BY <3>8, <4>1 DEF StatusIsTheBooks
      <3>11. CASE g[x].status = "lost"
        <4>1. /\ DisputesIn(Unresolved) = {} /\ DisputesIn({"won"}) = {} /\ DisputesIn({"lost"}) # {}
              /\ db.status = "dispute_lost"
          BY <3>4, <3>5, <3>6, <3>11
        <4> HIDE DEF f, g, b
        <4> QED BY <3>8, <4>1 DEF StatusIsTheBooks
      <3> QED BY <3>3, <3>9, <3>10, <3>11
    <2> QED BY <2>3, <2>4
  <1> QED BY <1>9, <1>10, <1>11, <1>12, <1>13

LEMMA RevInvType == ASSUME RevInv PROVE RevTypeOK
  <1>1. /\ Sound(source, db) /\ source \in Sources /\ Agrees(db.refunds, psp.refunds)
        /\ psp.disputes \in [Disputes -> {"none"} \cup Unresolved \cup Resolved]
        /\ jobs = [w \in Workers |-> jobs[w]]
        /\ \A w \in Workers : JobFits(jobs[w], db.refunds, psp.refunds)
    BY DEF RevInv
  <1>2. /\ db.refunds \in [Refunds -> RefundStates] /\ db.refunded \in Nat
        /\ db.disputes \in [Disputes -> Parts] /\ StatusIsTheBooks
    BY <1>1, SoundHas, RevInvMeans DEF DisputesFit
  <1>3. db.status \in {"captured", "settled", "partially_refunded", "refunded",
                       "disputed", "dispute_won", "dispute_lost"}
    <2>1. SumRefunds(db, {"processed"}) \in Nat /\ Captured \in Nat /\ Captured > 0
      BY <1>1, SoundHas, PromisedIs, AmountsAreNat DEF SumRefunds, Back
    <2> DEFINE n == SumRefunds(db, {"processed"})
    <2>2. n = 0 \/ n \in 1..(Captured - 1) \/ n >= Captured
      BY <2>1
    <2>3. (n \in 1..(Captured - 1) => n # 0 /\ ~ (n >= Captured)) /\ (n >= Captured => n # 0)
      BY <2>1
    <2> HIDE DEF n
    <2> QED BY <1>2, <2>2, <2>3, Zenon DEF StatusIsTheBooks, n
  <1>4. psp.refunds \in [Refunds -> {"none", "pending"} \cup Outcome]
    BY <1>1 DEF Agrees
  <1>5. jobs \in [Workers -> {Idle}
          \cup [kind : {"refund"}, of : Refunds, seen : {"pending"} \cup Outcome]
          \cup [kind : {"dispute"}, of : Disputes, seen : Unresolved \cup Resolved]]
    <2>1. ASSUME NEW w \in Workers
          PROVE  jobs[w] \in {Idle}
                   \cup [kind : {"refund"}, of : Refunds, seen : {"pending"} \cup Outcome]
                   \cup [kind : {"dispute"}, of : Disputes, seen : Unresolved \cup Resolved]
      <3>1. JobFits(jobs[w], db.refunds, psp.refunds)
        BY <1>1
      <3> QED BY <3>1 DEF JobFits
    <2> QED BY <1>1, <2>1
  <1> QED BY <1>1, <1>2, <1>3, <1>4, <1>5 DEF RevTypeOK, RefundStates, Parts

-----------------------------------------------------------------------------
(* The split of an order's refund, over components and over tenders        *)

LEMMA DivFacts ==
    ASSUME NEW a \in Nat, NEW n \in Nat, n > 0
    PROVE  a \div n \in Nat /\ n * (a \div n) <= a /\ a < n * (a \div n) + n
OBVIOUS

\* Two shares that are rounded down differ by no more than what is left.
LEMMA ShareIsNat ==
    ASSUME NEW a \in Nat, NEW s \in Nat, NEW d \in Nat, NEW t \in Nat, s - d + t > 0
    PROVE  a + (a * d) \div (s - d + t) - (a * t) \div (s - d + t) \in Nat
  <1> DEFINE n == s - d + t
             p == a * d
             r == a * t
             q1 == p \div n
             q2 == r \div n
             k == a + q1 - q2
  <1>1. n \in Nat /\ n > 0 /\ p \in Nat /\ r \in Nat
    OBVIOUS
  <1>2. a * n + p - r = a * s /\ a * s >= 0
    OBVIOUS
  <1>3. n = s - d + t
    OBVIOUS
  <1> HIDE DEF n, p, r
  <1>4. q1 \in Nat /\ q2 \in Nat /\ p < n * q1 + n /\ n * q2 <= r
    BY <1>1, DivFacts
  <1> HIDE DEF q1, q2
  <1>5. k \in Int /\ n * k = n * a + n * q1 - n * q2
    BY <1>1, <1>4
  <1>6. n * k > 0 - n
    <2>1. n * a = a * n
      BY <1>1
    <2> DEFINE x == n * a  y == n * q1  z == n * q2  u == n * k  v == a * s
    <2>2. x \in Nat /\ y \in Nat /\ z \in Nat /\ u \in Int /\ v \in Nat
      BY <1>1, <1>4, <1>5
    <2>3. x + p - r = v
      BY <1>2, <2>1
    <2>4. p < y + n /\ z <= r /\ u = x + y - z
      BY <1>4, <1>5
    <2> HIDE DEF x, y, z, u, v
    <2>5. u > 0 - n
      BY <1>1, <2>2, <2>3, <2>4
    <2> QED BY <2>5 DEF u
  <1> HIDE DEF k
  <1>7. k >= 0
    <2>1. SUFFICES ASSUME k < 0 PROVE FALSE
      BY <1>5
    <2>2. n * k <= 0 - n
      <3>1. 0 - k - 1 \in Nat
        BY <1>5, <2>1
      <3>2. n * (0 - k - 1) >= 0
        BY <1>1, <3>1
      <3>3. n * (0 - k - 1) = 0 - n * k - n
        BY <1>1, <1>5
      <3>4. n * k \in Int
        BY <1>1, <1>5
      <3> QED BY <1>1, <3>2, <3>3, <3>4
    <2>3. n * k \in Int
      BY <1>1, <1>5
    <2> QED BY <1>1, <1>6, <2>2, <2>3
  <1>8. k \in Nat
    BY <1>5, <1>7
  <1> QED BY <1>8 DEF k, q1, q2, p, r, n

\* The tenders' sums, spelt out.
Of(a, t) == IF t \in Tenders THEN a[t] ELSE 0

LEMMA TendersTotal ==
    ASSUME NEW a, \A t \in Tenders : a[t] \in Nat
    PROVE  /\ a["card"] \in Nat /\ Of(a, "wallet") \in Nat /\ Of(a, "bonus") \in Nat
           /\ Total(a, {}) = 0 /\ Total(a, {"card"}) = a["card"]
           /\ Total(a, {"card", "wallet"} \cap Tenders) = a["card"] + Of(a, "wallet")
           /\ Total(a, Tenders) = a["card"] + Of(a, "wallet") + Of(a, "bonus")
  <1>1. Tenders \subseteq {"card", "wallet", "bonus"} /\ "card" \in Tenders
    BY OrderRefundAssumption
  <1>2. a["card"] \in Nat /\ Of(a, "wallet") \in Nat /\ Of(a, "bonus") \in Nat
    BY <1>1 DEF Of
  <1> DEFINE Two == {"card", "wallet"} \cap Tenders
  <1>3. IsFiniteSet({"card"}) /\ Total(a, {"card"}) = a["card"] /\ Total(a, {}) = 0
    BY <1>2, TotalSingleton, TotalEmpty, FS_Singleton
  <1>4. IsFiniteSet(Two) /\ Total(a, Two) = a["card"] + Of(a, "wallet")
    <2>1. CASE "wallet" \in Tenders
      <3>1. Two = {"card"} \cup {"wallet"} /\ "wallet" \notin {"card"} /\ \A t \in {"card"} \cup {"wallet"} : a[t] \in Nat
        BY <1>1, <2>1
      <3> HIDE DEF Two
      <3>2. IsFiniteSet(Two)
        BY <1>3, <3>1, FS_AddElement
      <3>3. Total(a, {"card"} \cup {"wallet"}) = Total(a, {"card"}) + a["wallet"]
        BY <1>3, <3>1, TotalAdd
      <3> QED BY <1>3, <2>1, <3>1, <3>2, <3>3 DEF Of
    <2>2. CASE "wallet" \notin Tenders
      <3>1. Two = {"card"}
        BY <1>1, <2>2
      <3> HIDE DEF Two
      <3> QED BY <1>2, <1>3, <2>2, <3>1 DEF Of
    <2> QED BY <2>1, <2>2
  <1>5. Total(a, Tenders) = a["card"] + Of(a, "wallet") + Of(a, "bonus")
    <2>1. CASE "bonus" \in Tenders
      <3>1. Tenders = Two \cup {"bonus"} /\ "bonus" \notin Two /\ \A t \in Two \cup {"bonus"} : a[t] \in Nat
        BY <1>1, <2>1
      <3> HIDE DEF Two
      <3>2. Total(a, Two \cup {"bonus"}) = Total(a, Two) + a["bonus"]
        BY <1>4, <3>1, TotalAdd
      <3> QED BY <1>4, <2>1, <3>1, <3>2 DEF Of
    <2>2. CASE "bonus" \notin Tenders
      <3>1. Tenders = Two
        BY <1>1, <2>2
      <3> HIDE DEF Two
      <3> QED BY <1>2, <1>4, <2>2, <3>1 DEF Of
    <2> QED BY <2>1, <2>2
  <1> QED BY <1>2, <1>3, <1>4, <1>5

LEMMA OrderIsWorthSomething ==
    /\ Net(Components) \in Nat /\ Net(Components) > 0
    /\ Components.subtotal \in Nat /\ Components.discount \in Nat /\ Components.tax \in Nat
    /\ \A t \in Tenders : Paid[t] \in Nat
  <1>1. \A t \in Tenders : Paid[t] \in Nat
    BY OrderRefundAssumption
  <1>2. Paid["card"] \in Nat /\ Paid["card"] > 0
    BY OrderRefundAssumption, AmountsAreNat
  <1>3. Total(Paid, Tenders) \in Nat /\ Total(Paid, Tenders) > 0
    BY <1>1, <1>2, TendersTotal
  <1>4. Components.subtotal \in Nat /\ Components.discount \in Nat /\ Components.tax \in Nat
    BY OrderRefundAssumption DEF ComponentsOf
  <1> QED BY <1>1, <1>3, <1>4, OrderRefundAssumption

LEMMA SplitIs ==
    ASSUME NEW req \in Requests, req.split # NoSplit => Net(req.split) = req.amount
    PROVE  SplitOf(req) \in ComponentsOf(Nat) /\ Net(SplitOf(req)) = req.amount
  <1> DEFINE a == req.amount
             s == Components.subtotal
             d == Components.discount
             t == Components.tax
  <1>1. a \in Nat /\ req.split \in ComponentsOf(Nat)
    BY OrderRefundAssumption
  <1>2. s \in Nat /\ d \in Nat /\ t \in Nat /\ Net(Components) = s - d + t /\ s - d + t > 0
    BY OrderIsWorthSomething DEF Net
  <1>3. CASE req.split # NoSplit
    BY <1>1, <1>3 DEF SplitOf
  <1>4. CASE req.split = NoSplit
    <2> DEFINE n == s - d + t
               q1 == (a * d) \div n
               q2 == (a * t) \div n
    <2>1. SplitOf(req) = [subtotal |-> a + q1 - q2, discount |-> q1, tax |-> q2]
      BY <1>2, <1>4 DEF SplitOf
    <2>2. a + q1 - q2 \in Nat
      BY <1>1, <1>2, ShareIsNat
    <2>3. q1 \in Nat /\ q2 \in Nat
      <3>1. n \in Nat /\ n > 0 /\ a * d \in Nat /\ a * t \in Nat
        BY <1>1, <1>2
      <3> HIDE DEF n
      <3> QED BY <3>1, DivFacts
    <2> HIDE DEF q1, q2
    <2>4. SplitOf(req) \in ComponentsOf(Nat)
      BY <2>1, <2>2, <2>3 DEF ComponentsOf
    <2>5. Net(SplitOf(req)) = (a + q1 - q2) - q1 + q2
      <3> HIDE DEF a
      <3> QED BY <2>1 DEF Net
    <2>6. Net(SplitOf(req)) = a
      <3> HIDE DEF a
      <3> QED BY <1>1, <2>3, <2>5
    <2> QED BY <2>4, <2>6
  <1> QED BY <1>3, <1>4

LEMMA TwoLeast ==
    ASSUME NEW a \in Nat, NEW b \in Nat
    PROVE  Least({a, b}) = IF a <= b THEN a ELSE b
  <1>1. {a, b} = {a, b, b}
    OBVIOUS
  <1>2. Least({a, b}) \in Nat /\ Least({a, b}) <= a /\ Least({a, b}) <= b /\ Least({a, b}) \in {a, b}
    BY <1>1, LeastIs, Zenon
  <1> HIDE DEF Least
  <1> QED BY <1>2

\* The card gives back first, then purchased money, then granted money, and
\* together they give back the amount.
LEMMA TakesIs ==
    ASSUME TendersFit(order.tenders), NEW amount \in Nat, amount <= Total(Left, Tenders)
    PROVE  LET takes == Takes(amount)
           IN  /\ takes \in [Tenders -> Nat]
               /\ \A t \in Tenders : takes[t] <= Paid[t] - order.tenders[t]
               /\ Total(takes, Tenders) = amount
               /\ \A t \in Tenders \ {"card"} : takes[t] > 0 =>
                     \A u \in Tenders \ {t, "bonus"} : takes[u] = Paid[u] - order.tenders[u]
  <1> DEFINE takes == Takes(amount)
  <1>1. Tenders \subseteq {"card", "wallet", "bonus"} /\ "card" \in Tenders
    BY OrderRefundAssumption
  <1>2. \A t \in Tenders : Left[t] = Paid[t] - order.tenders[t] /\ Left[t] \in Nat
    BY OrderIsWorthSomething DEF Left, TendersFit
  <1> DEFINE c == Left["card"]
             w == Of(Left, "wallet")
             b == Of(Left, "bonus")
  <1>3. /\ c \in Nat /\ w \in Nat /\ b \in Nat
        /\ Total(Left, {}) = 0 /\ Total(Left, {"card"}) = c
        /\ Total(Left, {"card", "wallet"} \cap Tenders) = c + w
        /\ Total(Left, Tenders) = c + w + b
    BY <1>2, TendersTotal
  <1>4. ASSUME NEW t \in Tenders
        PROVE  takes[t] = Least({Left[t], Most(amount - Total(Left, Before(t)), 0)})
    BY DEF Takes
  <1>5. /\ Most(amount - 0, 0) = amount
        /\ Most(amount - c, 0) = (IF amount >= c THEN amount - c ELSE 0)
        /\ Most(amount - (c + w), 0) = (IF amount >= c + w THEN amount - (c + w) ELSE 0)
    <2> HIDE DEF c, w
    <2> QED BY <1>3 DEF Most
  <1>6. takes["card"] = IF c <= amount THEN c ELSE amount
    <2>1. takes["card"] = Least({c, amount})
      BY <1>1, <1>3, <1>4, <1>5 DEF Before
    <2> QED BY <1>3, <2>1, TwoLeast
  <1>7. "wallet" \in Tenders =>
            takes["wallet"] = IF amount >= c THEN (IF w <= amount - c THEN w ELSE amount - c) ELSE 0
    <2>1. SUFFICES ASSUME "wallet" \in Tenders
                   PROVE takes["wallet"] = IF amount >= c THEN (IF w <= amount - c THEN w ELSE amount - c) ELSE 0
      OBVIOUS
    <2> DEFINE m == IF amount >= c THEN amount - c ELSE 0
    <2>2. takes["wallet"] = Least({w, m}) /\ m \in Nat
      BY <1>3, <1>4, <1>5, <2>1 DEF Before, Of
    <2>3. Least({w, m}) = IF w <= m THEN w ELSE m
      BY <1>3, <2>2, TwoLeast
    <2> HIDE DEF w, c
    <2> QED BY <1>3, <2>2, <2>3
  <1>8. "bonus" \in Tenders =>
            takes["bonus"] = IF amount >= c + w THEN (IF b <= amount - (c + w) THEN b ELSE amount - (c + w)) ELSE 0
    <2>1. SUFFICES ASSUME "bonus" \in Tenders
                   PROVE takes["bonus"] = IF amount >= c + w THEN (IF b <= amount - (c + w) THEN b ELSE amount - (c + w)) ELSE 0
      OBVIOUS
    <2> DEFINE m == IF amount >= c + w THEN amount - (c + w) ELSE 0
    <2>2. takes["bonus"] = Least({b, m}) /\ m \in Nat
      <3>1. Before("bonus") = {"card", "wallet"} \cap Tenders
        BY DEF Before
      <3>2. takes["bonus"] = Least({Left["bonus"], Most(amount - Total(Left, Before("bonus")), 0)})
        BY <1>4, <2>1
      <3>3. b = Left["bonus"]
        BY <2>1 DEF Of
      <3> HIDE DEF takes, c, w, b
      <3>4. m \in Nat
        BY <1>3
      <3>5. Total(Left, Before("bonus")) = c + w
        BY <1>3, <3>1
      <3>6. Most(amount - Total(Left, Before("bonus")), 0) = m
        BY <1>5, <3>5
      <3> HIDE DEF m
      <3> QED BY <3>2, <3>3, <3>4, <3>6
    <2>3. Least({b, m}) = IF b <= m THEN b ELSE m
      BY <1>3, <2>2, TwoLeast
    <2> HIDE DEF w, c, b
    <2> QED BY <1>3, <2>2, <2>3
  <1>9. ("wallet" \notin Tenders => w = 0) /\ ("bonus" \notin Tenders => b = 0)
        /\ ("wallet" \in Tenders => w = Left["wallet"]) /\ ("bonus" \in Tenders => b = Left["bonus"])
    BY DEF Of
  <1>10. takes = [t \in Tenders |-> takes[t]]
    BY DEF Takes
  <1>11. amount <= c + w + b
    BY <1>3
  <1>12. c = Left["card"]
    OBVIOUS
  <1> HIDE DEF takes, c, w, b
  <1>13. \A t \in Tenders : takes[t] \in Nat /\ takes[t] <= Left[t]
    <2>1. takes["card"] \in Nat /\ takes["card"] <= Left["card"]
      BY <1>3, <1>6, <1>12
    <2>2. "wallet" \in Tenders => takes["wallet"] \in Nat /\ takes["wallet"] <= Left["wallet"]
      BY <1>3, <1>7, <1>9
    <2>3. "bonus" \in Tenders => takes["bonus"] \in Nat /\ takes["bonus"] <= Left["bonus"]
      BY <1>3, <1>8, <1>9
    <2> QED BY <1>1, <2>1, <2>2, <2>3
  <1>14. Total(takes, Tenders) = amount
    <2>1. Total(takes, Tenders) = takes["card"] + Of(takes, "wallet") + Of(takes, "bonus")
      BY <1>13, TendersTotal
    <2>2. Of(takes, "wallet") = IF amount >= c THEN (IF w <= amount - c THEN w ELSE amount - c) ELSE 0
      BY <1>3, <1>7, <1>9 DEF Of
    <2>3. Of(takes, "bonus") = IF amount >= c + w THEN (IF b <= amount - (c + w) THEN b ELSE amount - (c + w)) ELSE 0
      BY <1>3, <1>8, <1>9 DEF Of
    <2> QED BY <1>3, <1>6, <1>11, <2>1, <2>2, <2>3
  <1>15. ASSUME NEW t \in Tenders \ {"card"}, takes[t] > 0, NEW u \in Tenders \ {t, "bonus"}
         PROVE  takes[u] = Left[u]
    <2>1. amount >= c
      BY <1>1, <1>3, <1>7, <1>8, <1>15
    <2>2. takes["card"] = Left["card"]
      BY <1>3, <1>6, <1>12, <2>1
    <2>3. CASE u = "wallet"
      <3>1. t = "bonus"
        BY <1>1, <1>15, <2>3
      <3>2. amount > c + w
        BY <1>3, <1>8, <1>15, <3>1
      <3> QED BY <1>3, <1>7, <1>9, <2>1, <2>3, <3>2
    <2> QED BY <1>1, <2>2, <2>3
  <1>16. /\ takes \in [Tenders -> Nat]
         /\ \A t \in Tenders : takes[t] <= Paid[t] - order.tenders[t]
         /\ Total(takes, Tenders) = amount
         /\ \A t \in Tenders \ {"card"} : takes[t] > 0 =>
               \A u \in Tenders \ {t, "bonus"} : takes[u] = Paid[u] - order.tenders[u]
    BY <1>2, <1>10, <1>13, <1>14, <1>15
  <1> QED BY <1>16 DEF takes

-----------------------------------------------------------------------------
(* The reversing journals of an order's refund                             *)

\* From d to e journals of the refund x were posted, under some of the keys K,
\* and p of them went into refunds_payable.
OnWay(d, e, x, K, p) ==
    /\ SameRows(d, e) /\ BooksOK(e.books) /\ p \in Nat
    /\ DOMAIN e.books \subseteq DOMAIN d.books \cup {<<"order", x, k>> : k \in K}
    /\ \A a \in {"disputed", "chargebacks", "receivable"} : Balance(e.books, a) = Balance(d.books, a)
    /\ Balance(e.books, "wallet") >= Balance(d.books, "wallet")
    /\ Balance(e.books, "refunds_payable") = Balance(d.books, "refunds_payable") + p

LEMMA OnWayStarts ==
    ASSUME NEW d, IsDb(d), BooksOK(d.books), NEW x
    PROVE  OnWay(d, d, x, {}, 0)
  <1>1. \A a : Balance(d.books, a) \in Int
    BY BalanceType
  <1> QED BY <1>1 DEF OnWay, SameRows

LEMMA OnWayOn ==
    ASSUME NEW d, BooksOK(d.books), NEW e, NEW x, NEW K, NEW p, OnWay(d, e, x, K, p),
           NEW k, k \notin K, <<"order", x, k>> \notin DOMAIN d.books, NEW n \in Nat,
           NEW debit \in {"order", "sales", "gst_payable"},
           NEW credit \in {"order", "wallet", "bonus", "refunds_payable", "discounts"}
    PROVE  OnWay(d, Posted(e, <<"order", x, k>>, debit, credit, n), x, K \cup {k},
                 IF credit = "refunds_payable" THEN p + n ELSE p)
  <1> DEFINE id == <<"order", x, k>>
             g == Posted(e, id, debit, credit, n)
             q == IF credit = "refunds_payable" THEN p + n ELSE p
  <1>1. /\ SameRows(d, e) /\ BooksOK(e.books) /\ p \in Nat
        /\ DOMAIN e.books \subseteq DOMAIN d.books \cup {<<"order", x, j>> : j \in K}
        /\ \A a \in {"disputed", "chargebacks", "receivable"} : Balance(e.books, a) = Balance(d.books, a)
        /\ Balance(e.books, "wallet") >= Balance(d.books, "wallet")
        /\ Balance(e.books, "refunds_payable") = Balance(d.books, "refunds_payable") + p
    BY DEF OnWay
  <1>2. id \notin DOMAIN e.books
    BY <1>1
  <1>3. IsDb(e)
    BY <1>1 DEF SameRows
  <1>4. SameRows(e, g) /\ Moves(e.books, g.books, id, debit, credit, n)
    BY <1>1, <1>2, <1>3, PostedMoves
  <1>5. {<<"order", x, j>> : j \in K} \cup {id} = {<<"order", x, j>> : j \in K \cup {k}}
    OBVIOUS
  <1> HIDE DEF g
  <1>6. BooksOK(g.books) /\ DOMAIN g.books \subseteq DOMAIN e.books \cup {id}
        /\ \A a : Balance(g.books, a) = Balance(e.books, a) + Change(a, debit, credit, n)
    BY <1>4 DEF Moves
  <1>7. DOMAIN g.books \subseteq DOMAIN d.books \cup {<<"order", x, j>> : j \in K \cup {k}}
    BY <1>1, <1>5, <1>6
  <1> HIDE DEF id
  <1>8. \A a : Balance(e.books, a) \in Int /\ Balance(d.books, a) \in Int
    BY <1>1, BalanceType
  <1>9. \A a \in {"disputed", "chargebacks", "receivable"} : Balance(g.books, a) = Balance(d.books, a)
    BY <1>1, <1>6, <1>8 DEF Change
  <1>10. Balance(g.books, "wallet") >= Balance(d.books, "wallet")
    BY <1>1, <1>6, <1>8 DEF Change
  <1>11. Balance(g.books, "refunds_payable") = Balance(d.books, "refunds_payable") + q /\ q \in Nat
    BY <1>1, <1>6, <1>8 DEF Change
  <1>12. SameRows(d, g)
    BY <1>1, <1>4 DEF SameRows
  <1> HIDE DEF q
  <1>13. OnWay(d, g, x, K \cup {k}, q)
    BY <1>6, <1>7, <1>9, <1>10, <1>11, <1>12 DEF OnWay
  <1> QED BY <1>13 DEF g, id, q

LEMMA OnWayWider ==
    ASSUME NEW d, NEW e, NEW x, NEW K, NEW p, OnWay(d, e, x, K, p), NEW L, K \subseteq L
    PROVE  OnWay(d, e, x, L, p)
  <1>1. DOMAIN e.books \subseteq DOMAIN d.books \cup {<<"order", x, k>> : k \in L}
    BY DEF OnWay
  <1> QED BY <1>1 DEF OnWay

\* refundTenders: all of it, or the card's share, goes to refunds_payable only
\* when it goes back to the card.
LEMMA ReversedIs ==
    ASSUME NEW d, IsDb(d), BooksOK(d.books), NEW x, NEW req \in Requests,
           req.split # NoSplit => Net(req.split) = req.amount,
           NEW takes \in [Tenders -> Nat],
           \A k \in OrderKeys : <<"order", x, k>> \notin DOMAIN d.books
    PROVE  OnWay(d, Reversed(d, x, req, takes), x, OrderKeys,
                 IF req.to = "source" THEN takes["card"] ELSE 0)
  <1> DEFINE split == SplitOf(req)
             card == Posted(d, <<"order", x, "card">>, "order", "refunds_payable", takes["card"])
             main == IF "wallet" \in Tenders
                     THEN Posted(card, <<"order", x, "wallet">>, "order", "wallet", takes["wallet"]) ELSE card
             back == IF req.to = "wallet"
                     THEN Posted(d, <<"order", x, "credit">>, "order", "wallet", req.amount)
                     ELSE IF "bonus" \in Tenders
                          THEN Posted(main, <<"order", x, "bonus">>, "order", "bonus", takes["bonus"]) ELSE main
             sub == Posted(back, <<"order", x, "subtotal">>, "sales", "order", split.subtotal)
             tax == Posted(sub, <<"order", x, "tax">>, "gst_payable", "order", split.tax)
             disc == Posted(tax, <<"order", x, "discount">>, "order", "discounts", split.discount)
             p == IF req.to = "source" THEN takes["card"] ELSE 0
             K1 == {"card", "wallet", "bonus", "credit"}
  <1>1. Reversed(d, x, req, takes) = disc
    BY DEF Reversed
  <1>2. /\ split.subtotal \in Nat /\ split.tax \in Nat /\ split.discount \in Nat
        /\ req.amount \in Nat /\ req.to \in {"source", "wallet"} /\ "card" \in Tenders
    BY SplitIs, OrderRefundAssumption DEF ComponentsOf
  <1>3. OnWay(d, d, x, {}, 0)
    BY OnWayStarts
  <1>4. OnWay(d, back, x, K1, p)
    <2>1. CASE req.to = "wallet"
      <3>1. OnWay(d, Posted(d, <<"order", x, "credit">>, "order", "wallet", req.amount), x, {} \cup {"credit"},
                  IF "wallet" = "refunds_payable" THEN 0 + req.amount ELSE 0)
        BY <1>2, <1>3, OnWayOn DEF OrderKeys
      <3>2. back = Posted(d, <<"order", x, "credit">>, "order", "wallet", req.amount) /\ p = 0
        BY <2>1
      <3> HIDE DEF back, p
      <3>3. OnWay(d, back, x, {"credit"}, 0)
        BY <3>1, <3>2
      <3> QED BY <3>2, <3>3, OnWayWider
    <2>2. CASE req.to = "source"
      <3>1. OnWay(d, card, x, {"card"}, p)
        <4>1. OnWay(d, card, x, {} \cup {"card"},
                    IF "refunds_payable" = "refunds_payable" THEN 0 + takes["card"] ELSE 0)
          BY <1>2, <1>3, OnWayOn DEF OrderKeys
        <4>2. p = 0 + takes["card"]
          BY <1>2, <2>2
        <4> HIDE DEF card, p
        <4> QED BY <4>1, <4>2
      <3>2. OnWay(d, main, x, {"card", "wallet"}, p)
        <4>1. CASE "wallet" \in Tenders
          <5>1. main = Posted(card, <<"order", x, "wallet">>, "order", "wallet", takes["wallet"])
            BY <4>1
          <5> HIDE DEF card, p, main
          <5>2. OnWay(d, main, x, {"card"} \cup {"wallet"}, IF "wallet" = "refunds_payable" THEN p + takes["wallet"] ELSE p)
            BY <3>1, <4>1, <5>1, OnWayOn DEF OrderKeys
          <5>3. {"card"} \cup {"wallet"} = {"card", "wallet"}
            OBVIOUS
          <5> QED BY <5>2, <5>3
        <4>2. CASE "wallet" \notin Tenders
          <5>1. main = card
            BY <4>2
          <5> HIDE DEF card, p, main
          <5> QED BY <3>1, <5>1, OnWayWider
        <4> QED BY <4>1, <4>2
      <3>3. CASE "bonus" \in Tenders
        <4>1. back = Posted(main, <<"order", x, "bonus">>, "order", "bonus", takes["bonus"])
          BY <2>2, <3>3
        <4> HIDE DEF p, main, back
        <4>2. OnWay(d, back, x, {"card", "wallet"} \cup {"bonus"}, IF "bonus" = "refunds_payable" THEN p + takes["bonus"] ELSE p)
          BY <3>2, <3>3, <4>1, OnWayOn DEF OrderKeys
        <4> QED BY <4>2, OnWayWider
      <3>4. CASE "bonus" \notin Tenders
        <4>1. back = main
          BY <2>2, <3>4
        <4> HIDE DEF p, main, back
        <4> QED BY <3>2, <4>1, OnWayWider
      <3> QED BY <3>3, <3>4
    <2> QED BY <1>2, <2>1, <2>2
  <1> HIDE DEF split, back, p
  <1>5. OnWay(d, sub, x, K1 \cup {"subtotal"}, IF "order" = "refunds_payable" THEN p + split.subtotal ELSE p)
    BY <1>2, <1>4, OnWayOn DEF OrderKeys
  <1>6. OnWay(d, sub, x, K1 \cup {"subtotal"}, p)
    BY <1>5
  <1> HIDE DEF sub
  <1>7. OnWay(d, tax, x, (K1 \cup {"subtotal"}) \cup {"tax"}, IF "order" = "refunds_payable" THEN p + split.tax ELSE p)
    BY <1>2, <1>6, OnWayOn DEF OrderKeys
  <1>8. OnWay(d, tax, x, (K1 \cup {"subtotal"}) \cup {"tax"}, p)
    BY <1>7
  <1> HIDE DEF tax
  <1>9. OnWay(d, disc, x, ((K1 \cup {"subtotal"}) \cup {"tax"}) \cup {"discount"},
              IF "discounts" = "refunds_payable" THEN p + split.discount ELSE p)
    BY <1>2, <1>8, OnWayOn DEF OrderKeys
  <1>10. ((K1 \cup {"subtotal"}) \cup {"tax"}) \cup {"discount"} = OrderKeys
    BY DEF OrderKeys
  <1> HIDE DEF disc
  <1>11. OnWay(d, disc, x, OrderKeys, p)
    BY <1>9, <1>10
  <1> QED BY <1>1, <1>11 DEF p

-----------------------------------------------------------------------------
(* The invariant of the order                                              *)

CardsOf(refunds) == Total([x \in OrderRefunds |-> refunds[x].card], OrderRefunds)
Listed(refunds, x, amount, card) == [refunds EXCEPT ![x] = [amount |-> amount, card |-> card]]

LEMMA CardsAre ==
    ASSUME NEW refunds \in [OrderRefunds -> [amount : Nat, card : Nat]], IsFiniteSet(Made(refunds))
    PROVE  /\ CardsOf(refunds) = Total([x \in OrderRefunds |-> refunds[x].card], Made(refunds))
           /\ CardsOf(refunds) \in Nat
  <1> DEFINE card == [x \in OrderRefunds |-> refunds[x].card]
  <1>1. \A x \in OrderRefunds : card[x] \in Nat /\ (x \notin Made(refunds) => card[x] = 0)
    BY DEF Made
  <1>2. Made(refunds) \subseteq OrderRefunds
    BY DEF Made
  <1>3. CardsOf(refunds) = Total(card, OrderRefunds)
    BY DEF CardsOf
  <1> HIDE DEF card
  <1>4. UnitsOf(card, OrderRefunds) = UnitsOf(card, Made(refunds))
    <2>1. \A x \in OrderRefunds : x \notin Made(refunds) => 1..card[x] = {}
      BY <1>1
    <2> QED BY <1>2, <2>1 DEF UnitsOf
  <1>5. CardsOf(refunds) = Total(card, Made(refunds))
    BY <1>3, <1>4 DEF Total
  <1>6. Total(card, Made(refunds)) \in Nat
    BY <1>1, <1>2, TotalType
  <1> QED BY <1>5, <1>6 DEF card

\* A refund that is made adds its card share.
LEMMA CardsGrow ==
    ASSUME NEW refunds \in [OrderRefunds -> [amount : Nat, card : Nat]], IsFiniteSet(Made(refunds)),
           NEW x \in OrderRefunds, refunds[x].card = 0, NEW amount \in Nat, NEW n \in Nat
    PROVE  /\ Listed(refunds, x, amount, n) \in [OrderRefunds -> [amount : Nat, card : Nat]]
           /\ IsFiniteSet(Made(Listed(refunds, x, amount, n)))
           /\ CardsOf(Listed(refunds, x, amount, n)) = CardsOf(refunds) + n
  <1> DEFINE more == Listed(refunds, x, amount, n)
             card == [y \in OrderRefunds |-> refunds[y].card]
             cards == [y \in OrderRefunds |-> more[y].card]
             M == Made(refunds)
  <1>1. more \in [OrderRefunds -> [amount : Nat, card : Nat]]
    BY DEF Listed
  <1>2. \A y \in OrderRefunds : more[y].card = IF y = x THEN n ELSE refunds[y].card
    BY DEF Listed
  <1> HIDE DEF more
  <1>3. x \notin M /\ M \subseteq OrderRefunds
    BY DEF Made
  <1>4. Made(more) = IF n = 0 THEN M ELSE M \cup {x}
    BY <1>2 DEF Made
  <1>5. IsFiniteSet(M \cup {x})
    BY FS_AddElement
  <1>6. IsFiniteSet(Made(more))
    BY <1>4, <1>5
  <1>7. /\ CardsOf(refunds) = Total(card, M) /\ CardsOf(refunds) \in Nat
        /\ CardsOf(more) = Total(cards, Made(more))
    BY <1>1, <1>6, CardsAre
  <1>8. /\ \A y \in M : cards[y] = card[y]
        /\ \A y \in M \cup {x} : cards[y] \in Nat
        /\ cards[x] = n
    BY <1>1, <1>2, <1>3
  <1> HIDE DEF card, cards, M
  <1>9. Total(cards, M) = Total(card, M)
    BY <1>8, TotalCongruence
  <1>10. Total(cards, M \cup {x}) = Total(cards, M) + cards[x]
    BY <1>3, <1>8, TotalAdd DEF M
  <1>11. CardsOf(more) = CardsOf(refunds) + n
    <2>1. CASE n = 0
      BY <1>4, <1>7, <1>9, <2>1
    <2>2. CASE n # 0
      BY <1>4, <1>7, <1>8, <1>9, <1>10, <2>2
    <2> QED BY <2>1, <2>2
  <1> QED BY <1>1, <1>6, <1>11 DEF more

\* CardShareStaysOwed, of any database and refunds of the order.
CardShareOwed(s, d, refunds) ==
    s = "order" => Balance(d.books, "refunds_payable") = CardsOf(refunds) - SumRefunds(d, {"processed"})

LEMMA CardShareIs ==
    ASSUME NEW s, NEW d, Sound(s, d),
           NEW refunds \in [OrderRefunds -> [amount : Nat, card : Nat]], IsFiniteSet(Made(refunds))
    PROVE  CardShareOwed(s, d, refunds) <=> (s = "order" => Owed(d) = CardsOf(refunds))
  <1>1. Balance(d.books, "refunds_payable") \in Int
    BY SoundHas, BalanceType
  <1>2. Back(d.refunds, {"processed"}) \in Nat /\ SumRefunds(d, {"processed"}) = Back(d.refunds, {"processed"})
    BY SoundHas, PromisedIs DEF SumRefunds, Back
  <1>3. CardsOf(refunds) \in Nat
    BY CardsAre
  <1> QED BY <1>1, <1>2, <1>3 DEF CardShareOwed, Owed

LEMMA CardShareMeans ==
    /\ CardShareStaysOwed <=> CardShareOwed(source, db, order.refunds)
    /\ CardShareStaysOwed' <=> CardShareOwed(source', db', (order').refunds)
BY DEF CardShareStaysOwed, CardShareOwed, CardsOf

\* A step that leaves the order alone.
LEMMA OrderStays ==
    ASSUME RevInv, OrderInv, order' = order, source' = source, RevInv', db' = db \/ Beside(db, db')
    PROVE  OrderInv'
  <1>1. /\ order.refunds \in [OrderRefunds -> [amount : Nat, card : Nat]]
        /\ IsFiniteSet(Made(order.refunds)) /\ OrderJournalsFit(order.refunds, DOMAIN db.books)
        /\ OrderGivesBack /\ CardShareStaysOwed
    BY DEF OrderInv
  <1>2. Sound(source, db) /\ Sound(source, db)'
    BY DEF RevInv
  <1>3. OrderIds \cap DOMAIN (db').books \subseteq DOMAIN db.books
        /\ (source = "order" => Owed(db') = Owed(db))
    BY DEF Beside
  <1>4. OrderJournalsFit(order.refunds, DOMAIN (db').books)
    BY <1>1, <1>3 DEF OrderJournalsFit
  <1>5. CardShareStaysOwed'
    <2>1. source = "order" => Owed(db) = CardsOf(order.refunds)
      BY <1>1, <1>2, CardShareIs, CardShareMeans
    <2>2. source = "order" => Owed(db') = CardsOf(order.refunds)
      BY <1>3, <2>1
    <2>3. CardShareOwed(source, db', order.refunds)
      BY <1>1, <1>2, <2>2, CardShareIs
    <2> QED BY <2>3, CardShareMeans
  <1>6. OrderGivesBack'
    BY <1>1 DEF OrderGivesBack
  <1>7. (OrderJournalsFit(order.refunds, DOMAIN db.books))'
    BY <1>4
  <1> QED BY <1>5, <1>6, <1>7 DEF OrderInv

\* The reversing journals leave the payment's refunds and chargebacks sound.
LEMMA ReversedIsSound ==
    ASSUME RevInv, OrderInv, source = "order", NEW x \in OrderRefunds, order.refunds[x] = NotMade,
           NEW req \in Requests, req.split # NoSplit => Net(req.split) = req.amount,
           NEW takes \in [Tenders -> Nat]
    PROVE  LET d == Reversed(db, x, req, takes)
           IN  /\ Sound(source, d) /\ d.refunds = db.refunds
               /\ OrderIds \cap DOMAIN d.books
                    \subseteq DOMAIN db.books \cup {<<"order", x, k>> : k \in OrderKeys}
               /\ Owed(d) = Owed(db) + (IF req.to = "source" THEN takes["card"] ELSE 0)
  <1> DEFINE d == Reversed(db, x, req, takes)
             p == IF req.to = "source" THEN takes["card"] ELSE 0
  <1>1. Sound(source, db) /\ IsDb(db) /\ BooksOK(db.books) /\ Balance(db.books, "wallet") >= 0
    BY SoundHas DEF RevInv, MoneyFits
  <1>2. \A k \in OrderKeys : <<"order", x, k>> \notin DOMAIN db.books
    <2>1. OrderJournalsFit(order.refunds, DOMAIN db.books) /\ order.refunds[x].amount = 0
      BY DEF OrderInv, NotMade
    <2>2. ASSUME NEW k \in OrderKeys, <<"order", x, k>> \in DOMAIN db.books PROVE FALSE
      <3>1. <<"order", x, k>> \in OrderIds \cap DOMAIN db.books
        BY <2>2 DEF OrderIds
      <3>2. order.refunds[(<<"order", x, k>>)[2]].amount # 0
        BY <2>1, <3>1 DEF OrderJournalsFit
      <3> QED BY <2>1, <3>2
    <2> QED BY <2>2
  <1>3. OnWay(db, d, x, OrderKeys, p)
    BY <1>1, <1>2, ReversedIs
  <1> HIDE DEF d, p
  <1>4. /\ SameRows(db, d) /\ BooksOK(d.books) /\ p \in Nat
        /\ DOMAIN d.books \subseteq DOMAIN db.books \cup {<<"order", x, k>> : k \in OrderKeys}
        /\ \A a \in {"disputed", "chargebacks", "receivable"} : Balance(d.books, a) = Balance(db.books, a)
        /\ Balance(d.books, "wallet") >= Balance(db.books, "wallet")
        /\ Balance(d.books, "refunds_payable") = Balance(db.books, "refunds_payable") + p
    BY <1>3 DEF OnWay
  <1>5. d.refunds = db.refunds
    BY <1>4 DEF SameRows
  <1>6. Balance(db.books, "refunds_payable") \in Int /\ Back(db.refunds, {"processed"}) \in Nat
        /\ Balance(db.books, "wallet") \in Int /\ Balance(d.books, "wallet") \in Int
    BY <1>1, <1>4, SoundHas, PromisedIs, BalanceType
  <1>7. Owed(d) = Owed(db) + p
    BY <1>4, <1>5, <1>6 DEF Owed
  <1>8. RevIds \cap DOMAIN d.books \subseteq DOMAIN db.books
    <2>1. ASSUME NEW k PROVE <<"order", x, k>> \notin RevIds
      BY DEF RevIds
    <2> QED BY <1>4, <2>1
  <1>9. Balance(d.books, "wallet") >= 0
    BY <1>1, <1>4, <1>6
  <1>10. Sound(source, d)
    BY <1>1, <1>4, <1>8, <1>9, OtherMoneyIsSound
  <1> QED BY <1>4, <1>5, <1>7, <1>10 DEF d, p

\* What a refund adds to the order's row and its tenders' keeps them in step.
LEMMA GivenFits ==
    ASSUME OrderInv, NEW x \in OrderRefunds, NEW req \in Requests, NEW card, NEW takes,
           req.split # NoSplit => Net(req.split) = req.amount,
           Fits(Plus(order.back, SplitOf(req))), req.amount <= Total(Left, Tenders),
           takes = Takes(req.amount), order' = Given(x, req, takes, card)
    PROVE  /\ (order').refunds = Listed(order.refunds, x, req.amount, card)
           /\ order' = [status |-> (order').status, back |-> (order').back,
                        tenders |-> (order').tenders, refunds |-> (order').refunds]
           /\ (order').back \in ComponentsOf(Nat) /\ TendersFit((order').tenders)
           /\ OrderGivesBack'
  <1> DEFINE a == req.amount
             back == Plus(order.back, SplitOf(req))
             tenders == [t \in Tenders |-> order.tenders[t] + takes[t]]
             status == IF Net(back) = Net(Components) THEN "refunded" ELSE "partially_refunded"
             refunds == Listed(order.refunds, x, a, card)
  <1>1. order' = [status |-> status, back |-> back, tenders |-> tenders, refunds |-> refunds]
    BY DEF Given, Listed
  <1>2. /\ order.back \in ComponentsOf(Nat) /\ TendersFit(order.tenders)
        /\ Net(order.back) = Total(order.tenders, Tenders)
        /\ \A t \in Tenders \ {"card"} :
              order.tenders[t] > 0 => \A u \in Tenders \ {t, "bonus"} : order.tenders[u] = Paid[u]
    BY DEF OrderInv, OrderGivesBack
  <1>3. a \in Nat /\ a > 0
    BY OrderRefundAssumption
  <1>4. SplitOf(req) \in ComponentsOf(Nat) /\ Net(SplitOf(req)) = a
    BY SplitIs
  <1>5. /\ takes \in [Tenders -> Nat] /\ Total(takes, Tenders) = a
        /\ \A t \in Tenders : takes[t] <= Paid[t] - order.tenders[t]
        /\ \A t \in Tenders \ {"card"} : takes[t] > 0 =>
              \A u \in Tenders \ {t, "bonus"} : takes[u] = Paid[u] - order.tenders[u]
    BY <1>2, <1>3, TakesIs
  <1>6. back \in ComponentsOf(Nat) /\ Net(back) = Net(order.back) + a
    <2> DEFINE s == SplitOf(req)
    <2>1. /\ s.subtotal \in Nat /\ s.discount \in Nat /\ s.tax \in Nat
          /\ order.back.subtotal \in Nat /\ order.back.discount \in Nat /\ order.back.tax \in Nat
      BY <1>2, <1>4 DEF ComponentsOf
    <2>2. Net(s) = s.subtotal - s.discount + s.tax /\ Net(s) = a
      BY <1>4 DEF Net
    <2>3. back = Plus(order.back, s)
      OBVIOUS
    <2> HIDE DEF a, s
    <2>4. back \in ComponentsOf(Nat) /\ Net(back) = Net(order.back) + Net(s)
      BY <2>1, <2>3 DEF Plus, ComponentsOf, Net
    <2> QED BY <2>2, <2>4
  <1>7. order.tenders \in [Tenders -> Nat] /\ \A t \in Tenders : order.tenders[t] <= Paid[t] /\ Paid[t] \in Nat
    BY <1>2, OrderIsWorthSomething DEF TendersFit
  <1>8. \A t \in Tenders : tenders[t] = order.tenders[t] + takes[t]
    OBVIOUS
  <1>9. TendersFit(tenders)
    BY <1>5, <1>7 DEF TendersFit
  <1>10. Total(tenders, Tenders) = Total(order.tenders, Tenders) + Total(takes, Tenders)
    <2>1. "card" \in Tenders
      BY OrderRefundAssumption
    <2>2. \A t \in Tenders : tenders[t] \in Nat /\ takes[t] \in Nat /\ order.tenders[t] \in Nat
      BY <1>5, <1>7, <1>8
    <2> HIDE DEF tenders
    <2>3. /\ Total(tenders, Tenders) = tenders["card"] + Of(tenders, "wallet") + Of(tenders, "bonus")
          /\ Of(tenders, "wallet") \in Nat /\ Of(tenders, "bonus") \in Nat
      BY <2>2, TendersTotal
    <2>4. /\ Total(takes, Tenders) = takes["card"] + Of(takes, "wallet") + Of(takes, "bonus")
          /\ Of(takes, "wallet") \in Nat /\ Of(takes, "bonus") \in Nat
      BY <2>2, TendersTotal
    <2>5. /\ Total(order.tenders, Tenders)
               = order.tenders["card"] + Of(order.tenders, "wallet") + Of(order.tenders, "bonus")
          /\ Of(order.tenders, "wallet") \in Nat /\ Of(order.tenders, "bonus") \in Nat
      BY <2>2, TendersTotal
    <2>6. tenders["card"] = order.tenders["card"] + takes["card"]
      BY <1>8, <2>1
    <2>7. Of(tenders, "wallet") = Of(order.tenders, "wallet") + Of(takes, "wallet")
      BY <1>8 DEF Of
    <2>8. Of(tenders, "bonus") = Of(order.tenders, "bonus") + Of(takes, "bonus")
      BY <1>8 DEF Of
    <2> QED BY <2>1, <2>2, <2>3, <2>4, <2>5, <2>6, <2>7, <2>8
  <1>11. \A t \in Tenders \ {"card"} :
            tenders[t] > 0 => \A u \in Tenders \ {t, "bonus"} : tenders[u] = Paid[u]
    <2>1. ASSUME NEW t \in Tenders \ {"card"}, tenders[t] > 0, NEW u \in Tenders \ {t, "bonus"}
          PROVE  tenders[u] = Paid[u]
      <3>1. order.tenders[t] \in Nat /\ takes[t] \in Nat /\ order.tenders[u] \in Nat /\ takes[u] \in Nat
            /\ Paid[u] \in Nat /\ takes[u] <= Paid[u] - order.tenders[u]
        BY <1>5, <1>7
      <3>2. tenders[t] = order.tenders[t] + takes[t] /\ tenders[u] = order.tenders[u] + takes[u]
        BY <1>8
      <3>3. order.tenders[t] > 0 => order.tenders[u] = Paid[u]
        BY <1>2
      <3>4. takes[t] > 0 => takes[u] = Paid[u] - order.tenders[u]
        BY <1>5
      <3> HIDE DEF tenders
      <3> QED BY <2>1, <3>1, <3>2, <3>3, <3>4
    <2> QED BY <2>1
  <1>12. Net(order.back) \in Nat
    BY <1>2, <1>7, TendersTotal
  <1>13. Net(back) # 0
    <2> HIDE DEF back, a
    <2> QED BY <1>3, <1>6, <1>12
  <1>14. \A c \in {"subtotal", "discount", "tax"} : back[c] <= Components[c]
    <2>1. Fits(back)
      OBVIOUS
    <2> HIDE DEF back
    <2> QED BY <2>1 DEF Fits
  <1>15. Net(back) = Total(tenders, Tenders)
    <2> HIDE DEF back, tenders, a
    <2> QED BY <1>2, <1>5, <1>6, <1>10
  <1> HIDE DEF back, tenders, refunds, a
  <1>16. /\ (order').back = back /\ (order').tenders = tenders
         /\ (order').refunds = refunds /\ (order').status = status
    BY <1>1
  <1>17. status = CASE Net(back) = 0 -> "paid"
                    [] Net(back) = Net(Components) -> "refunded"
                    [] OTHER -> "partially_refunded"
    BY <1>13
  <1> HIDE DEF status
  <1>18. OrderGivesBack'
    BY <1>11, <1>14, <1>15, <1>16, <1>17 DEF OrderGivesBack
  <1> QED BY <1>1, <1>6, <1>9, <1>16, <1>18 DEF refunds, a

\* Refund: the order's and the payment's rows change together or not at all.
LEMMA RefundOrderKeeps ==
    ASSUME RevInv, OrderInv, NEW x \in OrderRefunds, NEW req \in Requests, RefundOrder(x, req)
    PROVE  RevInv' /\ OrderInv'
  <1> DEFINE takes == Takes(req.amount)
             card == IF req.to = "source" THEN takes["card"] ELSE 0
             d == Reversed(db, x, req, takes)
  <1>1. /\ source = "order" /\ order.refunds[x] = NotMade
        /\ req.split # NoSplit => Net(req.split) = req.amount
        /\ Fits(Plus(order.back, SplitOf(req))) /\ req.amount <= Total(Left, Tenders)
        /\ (\/ card = 0 /\ db' = d /\ psp' = psp
            \/ \E r \in Refunds : CanReserve(d, r) /\ RefundAmount[r] = card /\ Submit(Reserve(d, r), r))
        /\ order' = (IF db' = db THEN order ELSE Given(x, req, takes, card))
        /\ source' = source /\ jobs' = jobs
    BY DEF RefundOrder
  <1>2. req.amount \in Nat /\ req.amount > 0 /\ TendersFit(order.tenders)
    BY OrderRefundAssumption DEF OrderInv
  <1>3. takes \in [Tenders -> Nat]
    BY <1>1, <1>2, TakesIs
  <1>4. card \in Nat
    <2>1. "card" \in Tenders
      BY OrderRefundAssumption
    <2> QED BY <1>3, <2>1
  <1>5. /\ Sound(source, d) /\ d.refunds = db.refunds
        /\ OrderIds \cap DOMAIN d.books
             \subseteq DOMAIN db.books \cup {<<"order", x, k>> : k \in OrderKeys}
        /\ Owed(d) = Owed(db) + card
    BY <1>1, <1>3, ReversedIsSound
  <1>6. db' # db => /\ (order').refunds = Listed(order.refunds, x, req.amount, card)
                    /\ order' = [status |-> (order').status, back |-> (order').back,
                                 tenders |-> (order').tenders, refunds |-> (order').refunds]
                    /\ (order').back \in ComponentsOf(Nat) /\ TendersFit((order').tenders)
                    /\ OrderGivesBack'
    <2>1. SUFFICES ASSUME db' # db
                   PROVE  /\ (order').refunds = Listed(order.refunds, x, req.amount, card)
                          /\ order' = [status |-> (order').status, back |-> (order').back,
                                       tenders |-> (order').tenders, refunds |-> (order').refunds]
                          /\ (order').back \in ComponentsOf(Nat) /\ TendersFit((order').tenders)
                          /\ OrderGivesBack'
      OBVIOUS
    <2>2. takes = Takes(req.amount) /\ order' = Given(x, req, takes, card)
      BY <1>1, <2>1
    <2> HIDE DEF takes, card, d
    <2> QED BY <1>1, <2>2, GivenFits
  <1> HIDE DEF takes, card, d
  <1>7. RevInv' /\ (db' = db \/ Beside(d, db'))
    <2>1. CASE card = 0 /\ db' = d /\ psp' = psp
      <3>1. /\ IsPsp /\ psp.disputes \in [Disputes -> {"none"} \cup Unresolved \cup Resolved]
            /\ Agrees(db.refunds, psp.refunds) /\ Onward(db.refunds, db.refunds, psp.refunds, psp.refunds)
        BY NothingElse DEF RevInv
      <3>2. /\ psp' = [refunds |-> (psp').refunds, disputes |-> (psp').disputes]
            /\ (psp').disputes \in [Disputes -> {"none"} \cup Unresolved \cup Resolved]
        BY <2>1, <3>1 DEF IsPsp
      <3>3. /\ Agrees((db').refunds, (psp').refunds) /\ Sound(source, db')
            /\ Onward(db.refunds, (db').refunds, psp.refunds, (psp').refunds)
        BY <1>5, <2>1, <3>1
      <3>4. Beside(d, db')
        BY <2>1 DEF Beside
      <3> QED BY <1>1, <3>2, <3>3, <3>4, StepKeeps
    <2>2. CASE \E r \in Refunds : CanReserve(d, r) /\ RefundAmount[r] = card /\ Submit(Reserve(d, r), r)
      <3>1. PICK r \in Refunds : CanReserve(d, r) /\ Submit(Reserve(d, r), r)
        BY <2>2
      <3> DEFINE e == Reserve(d, r)
      <3>2. Sound(source, e) /\ e.refunds = With(d.refunds, r, "initiated") /\ Beside(d, e)
        BY <1>5, <3>1, ReserveIsSound
      <3>3. db.refunds[r] \in {"absent", "initiated"}
        BY <1>5, <3>1 DEF CanReserve
      <3>4. Submit(e, r)
        BY <3>1
      <3> HIDE DEF e
      <3>5. RevInv' /\ (db' = db \/ Beside(e, db'))
        BY <1>1, <1>5, <3>2, <3>3, <3>4, SubmitKeeps
      <3> QED BY <3>2, <3>5 DEF Beside
    <2> QED BY <1>1, <2>1, <2>2
  <1>8. CASE db' = db
    BY <1>1, <1>7, <1>8, OrderStays
  <1>9. CASE db' # db
    <2> DEFINE refunds == Listed(order.refunds, x, req.amount, card)
    <2>1. /\ order.refunds \in [OrderRefunds -> [amount : Nat, card : Nat]]
          /\ IsFiniteSet(Made(order.refunds)) /\ OrderJournalsFit(order.refunds, DOMAIN db.books)
          /\ CardShareStaysOwed /\ order.refunds[x].card = 0
      BY <1>1 DEF OrderInv, NotMade
    <2>2. Sound(source, db) /\ Sound(source, db')
      BY <1>1, <1>7 DEF RevInv
    <2>3. /\ refunds \in [OrderRefunds -> [amount : Nat, card : Nat]]
          /\ IsFiniteSet(Made(refunds))
          /\ CardsOf(refunds) = CardsOf(order.refunds) + card
      BY <1>2, <1>4, <2>1, CardsGrow
    <2>4. (order').refunds = refunds
      BY <1>6, <1>9
    <2>5. OrderIds \cap DOMAIN (db').books \subseteq DOMAIN d.books /\ Owed(db') = Owed(d)
      BY <1>1, <1>7, <1>9 DEF Beside
    <2>6. OrderJournalsFit(refunds, DOMAIN (db').books)
      <3>1. ASSUME NEW id \in OrderIds \cap DOMAIN (db').books PROVE refunds[id[2]].amount # 0
        <4>1. PICK y \in OrderRefunds, k \in OrderKeys : id = <<"order", y, k>>
          BY DEF OrderIds
        <4>2. id[2] = y
          BY <4>1
        <4>3. refunds[y].amount = IF y = x THEN req.amount ELSE order.refunds[y].amount
          BY <2>1 DEF Listed
        <4>4. id \in DOMAIN db.books \/ y = x
          BY <1>5, <2>5, <4>1
        <4>5. y = x \/ order.refunds[y].amount # 0
          BY <2>1, <4>2, <4>4 DEF OrderJournalsFit
        <4> HIDE DEF refunds
        <4> QED BY <1>2, <4>2, <4>3, <4>5
      <3> HIDE DEF refunds
      <3> QED BY <3>1 DEF OrderJournalsFit
    <2> HIDE DEF refunds
    <2>7. CardShareStaysOwed'
      <3>1. Owed(db) = CardsOf(order.refunds)
        BY <1>1, <2>1, <2>2, CardShareIs, CardShareMeans
      <3>2. Owed(db') = CardsOf(refunds)
        BY <1>5, <2>3, <2>5, <3>1
      <3>3. CardShareOwed(source, db', refunds)
        BY <2>2, <2>3, <3>2, CardShareIs
      <3> QED BY <1>1, <2>4, <3>3, CardShareMeans
    <2>8. /\ (order.refunds \in [OrderRefunds -> [amount : Nat, card : Nat]])'
          /\ IsFiniteSet(Made(order.refunds))' /\ OrderJournalsFit(order.refunds, DOMAIN db.books)'
      BY <2>3, <2>4, <2>6
    <2>9. OrderInv'
      BY <1>6, <1>9, <2>7, <2>8 DEF OrderInv
    <2> QED BY <1>7, <2>9
  <1> QED BY <1>8, <1>9

-----------------------------------------------------------------------------
(* The theorems                                                            *)

LEMMA RefInitInv == OrderRefundInit => RefInv
  <1> SUFFICES ASSUME OrderRefundInit PROVE RefInv
    OBVIOUS
  <1> DEFINE refunds == [x \in OrderRefunds |-> NotMade]
             tenders == [t \in Tenders |-> 0]
  <1>1. RevInit /\ RevInv
    BY RevInitInv DEF OrderRefundInit
  <1>2. order = [status |-> "paid", back |-> NoSplit, tenders |-> tenders, refunds |-> refunds]
    BY DEF OrderRefundInit
  <1>3. TendersFit(tenders)
    BY OrderIsWorthSomething DEF TendersFit
  <1>4. refunds \in [OrderRefunds -> [amount : Nat, card : Nat]] /\ Made(refunds) = {}
    BY DEF NotMade, Made
  <1>5. NoSplit \in ComponentsOf(Nat) /\ Net(NoSplit) = 0
        /\ \A c \in {"subtotal", "discount", "tax"} : NoSplit[c] = 0
    BY DEF NoSplit, ComponentsOf, Net
  <1>6. Total(tenders, Tenders) = 0
    <2>1. \A t \in Tenders : tenders[t] \in Nat /\ tenders[t] = 0
      OBVIOUS
    <2>2. "card" \in Tenders
      BY OrderRefundAssumption
    <2> HIDE DEF tenders
    <2>3. Total(tenders, Tenders) = tenders["card"] + Of(tenders, "wallet") + Of(tenders, "bonus")
      BY <2>1, TendersTotal
    <2> QED BY <2>1, <2>2, <2>3 DEF Of
  <1>7. DOMAIN db.books = {<<"capture", "payment">>}
    BY <1>1, NoBooksOK DEF RevInit, Post
  <1>8. OrderJournalsFit(refunds, DOMAIN db.books)
    BY <1>7 DEF OrderJournalsFit, OrderIds
  <1>9. OrderGivesBack
    <2>1. order.back = NoSplit /\ order.status = "paid" /\ order.tenders = tenders
      BY <1>2
    <2>2. \A t \in Tenders : ~ (tenders[t] > 0)
      OBVIOUS
    <2>3. \A c \in {"subtotal", "discount", "tax"} : 0 <= Components[c]
      BY OrderIsWorthSomething
    <2> HIDE DEF tenders
    <2>4. \A c \in {"subtotal", "discount", "tax"} : order.back[c] <= Components[c]
      BY <1>5, <2>1, <2>3
    <2>5. Net(order.back) = Total(order.tenders, Tenders) /\ Net(order.back) = 0
      BY <1>5, <1>6, <2>1
    <2>6. order.status = CASE Net(order.back) = 0 -> "paid"
                           [] Net(order.back) = Net(Components) -> "refunded"
                           [] OTHER -> "partially_refunded"
      BY <2>1, <2>5, OrderIsWorthSomething
    <2>7. \A t \in Tenders : ~ (order.tenders[t] > 0)
      BY <2>1, <2>2
    <2> QED BY <2>4, <2>5, <2>6, <2>7 DEF OrderGivesBack
  <1>10. IsFiniteSet(Made(refunds))
    BY <1>4, FS_EmptySet
  <1>11. CardShareStaysOwed
    <2>1. Sound(source, db)
      BY <1>1 DEF RevInv
    <2>2. CardsOf(refunds) = 0
      <3> HIDE DEF refunds
      <3> QED BY <1>4, <1>10, CardsAre, TotalEmpty
    <2>3. source = "order" => Owed(db) = 0
      <3>1. SUFFICES ASSUME source = "order" PROVE Owed(db) = 0
        OBVIOUS
      <3>2. Back(db.refunds, {"processed"}) = 0
        <4>1. {r \in Refunds : db.refunds[r] \in {"processed"}} = {}
          BY <1>1 DEF RevInit
        <4> QED BY <4>1, TotalEmpty DEF Back
      <3>3. Balance(db.books, "refunds_payable") = 0
        <4>1. db.books = Post(NoBooks, <<"capture", "payment">>, Journal("receivable", "sales", Captured))
          BY <1>1, <3>1 DEF RevInit, AccountOf
        <4>2. BooksOK(NoBooks) /\ <<"capture", "payment">> \notin DOMAIN NoBooks
              /\ Balance(NoBooks, "refunds_payable") = 0
          BY NoBooksOK
        <4>3. Captured \in Nat
          BY AmountsAreNat
        <4>4. Balance(Post(NoBooks, <<"capture", "payment">>, Journal("receivable", "sales", Captured)), "refunds_payable")
                = Balance(NoBooks, "refunds_payable") + (IF "refunds_payable" = "sales" THEN Captured ELSE 0)
                    - (IF "refunds_payable" = "receivable" THEN Captured ELSE 0)
          BY <4>2, <4>3, PostMoves
        <4> QED BY <4>1, <4>2, <4>4
      <3> QED BY <3>2, <3>3 DEF Owed
    <2>4. CardShareOwed(source, db, refunds)
      <3> HIDE DEF refunds
      <3> QED BY <1>4, <1>10, <2>1, <2>2, <2>3, CardShareIs
    <2> QED BY <1>2, <2>4, CardShareMeans
  <1> HIDE DEF refunds, tenders
  <1>12. OrderInv
    BY <1>2, <1>3, <1>4, <1>5, <1>8, <1>9, <1>10, <1>11 DEF OrderInv
  <1> QED BY <1>1, <1>12 DEF RefInv

LEMMA RefStep ==
    ASSUME RefInv, [OrderRefundNext]_refVars
    PROVE  RefInv'
  <1>1. RevInv /\ OrderInv
    BY DEF RefInv
  <1>2. CASE RevNext /\ UNCHANGED order
    <2>1. RevInv' /\ (db' = db \/ Beside(db, db'))
      BY <1>1, <1>2, RevStep
    <2>2. source' = source
      BY <1>2 DEF RevNext, CreateRefund, ResubmitRefund, RefundEnds, SubmitDisputeEvidence, DisputeMoves,
                  SyncRefund, OpenDispute, SyncDispute, Abandon, FetchRefund, FetchDispute, Spend, MarkSettled
    <2> QED BY <1>1, <1>2, <2>1, <2>2, OrderStays DEF RefInv
  <1>3. CASE \E x \in OrderRefunds, req \in Requests : RefundOrder(x, req)
    BY <1>1, <1>3, RefundOrderKeeps DEF RefInv
  <1>4. CASE UNCHANGED refVars
    <2>1. UNCHANGED revVars /\ order' = order /\ source' = source
      BY <1>4 DEF refVars, revVars
    <2> QED BY <1>1, <2>1, RevStutter, OrderStays DEF RefInv
  <1> QED BY <1>2, <1>3, <1>4 DEF OrderRefundNext

LEMMA RefInvAlways == OrderRefundSpec => []RefInv
  <1>1. OrderRefundInit => RefInv
    BY RefInitInv
  <1>2. RefInv /\ [OrderRefundNext]_refVars => RefInv'
    BY RefStep
  <1> QED BY <1>1, <1>2, PTL DEF OrderRefundSpec

\* The types of the payment's and the order's rows, of the provider's answers
\* and of the jobs (internal/payment/refund.go, dispute.go, internal/order/refund.go).
THEOREM RefundTypeAlways == OrderRefundSpec => []OrderRefundTypeOK
  <1>1. RefInv => OrderRefundTypeOK
    <2>1. SUFFICES ASSUME RefInv PROVE OrderRefundTypeOK
      OBVIOUS
    <2>2. RevTypeOK /\ OrderInv
      BY <2>1, RevInvType DEF RefInv
    <2>3. order.status \in {"paid", "partially_refunded", "refunded"}
      BY <2>2 DEF OrderInv, OrderGivesBack
    <2> QED BY <2>2, <2>3 DEF OrderRefundTypeOK, OrderInv, TendersFit
  <1> QED BY <1>1, RefInvAlways, PTL

\* refunded_amount is what the refunds that have not failed promise, and never
\* more than was captured, whatever order CreateRefund, the pollers and the
\* webhooks run in (CreateRefund, failRefund).
THEOREM RefundsAlwaysFitCapture == OrderRefundSpec => []RefundsFitCapture
  <1>1. RefInv => RefundsFitCapture
    BY RevInvMeans DEF RefInv
  <1> QED BY <1>1, RefInvAlways, PTL

\* The money of a refund that may yet leave is set aside: neither the customer
\* nor a chargeback takes it first (CreateRefund, openDispute).
THEOREM OwedBackAlwaysCovered == OrderRefundSpec => []OwedBackIsCovered
  <1>1. RefInv => OwedBackIsCovered
    BY RevInvMeans DEF RefInv
  <1> QED BY <1>1, RefInvAlways, PTL

\* The disputed account holds exactly the undecided chargebacks, and no wallet
\* is overdrawn for one (openDispute, resolveDispute).
THEOREM ContestedAlwaysHeld == OrderRefundSpec => []ContestedMoneyIsHeld
  <1>1. RefInv => ContestedMoneyIsHeld
    BY RevInvMeans DEF RefInv
  <1> QED BY <1>1, RefInvAlways, PTL

\* The payment's status says what the books say (completeRefund, resolveDispute).
THEOREM StatusIsAlwaysTheBooks == OrderRefundSpec => []StatusIsTheBooks
  <1>1. RefInv => StatusIsTheBooks
    BY RevInvMeans DEF RefInv
  <1> QED BY <1>1, RefInvAlways, PTL

\* A refund ends here as it ended at the provider, stale answers or not
\* (submitRefund, applyRefund, SyncRefund).
THEOREM RefundsAlwaysAgree == OrderRefundSpec => []RefundsAgree
  <1>1. RefInv => RefundsAgree
    BY RevInvMeans DEF RefInv
  <1> QED BY <1>1, RefInvAlways, PTL

\* Components and tenders give back the same, neither beyond what was booked,
\* and granted money last (Refund, splitRefund, refundTenders).
THEOREM OrderAlwaysGivesBack == OrderRefundSpec => []OrderGivesBack
  <1>1. RefInv => OrderGivesBack
    BY DEF RefInv, OrderInv
  <1> QED BY <1>1, RefInvAlways, PTL

\* The card share of an order's refunds stays in refunds_payable until the
\* provider has sent it (refundTenders, failRefund).
THEOREM CardShareAlwaysOwed == OrderRefundSpec => []CardShareStaysOwed
  <1>1. RefInv => CardShareStaysOwed
    BY DEF RefInv, OrderInv
  <1> QED BY <1>1, RefInvAlways, PTL
=============================================================================
