-------------------------- MODULE WithdrawalProofs ---------------------------
(***************************************************************************)
(* That a withdrawal's money is where its status says, and that what is    *)
(* over here ended that way at the provider, for any wallet, requests,     *)
(* withdrawals and workers.                                                *)
(*                                                                         *)
(* A transaction is a function of the database, so each one has a lemma of *)
(* its own (it keeps Sound), whatever action runs it, commits it or rolls  *)
(* it back.                                                                *)
(***************************************************************************)
EXTENDS Withdrawal, AmountTheorems

Statuses == {"absent", "paid"} \cup Waiting \cup Undone

\* What the withdrawals in the states S add up to, if f says their status.
Held(f, S) == Together({x \in Withdrawals : f[x] \in S})

Existing(f) == {x \in Withdrawals : f[x] # "absent"}

\* Each journal of a withdrawal says something of its status, so the journal
\* of a step that is still to come is not there yet.
JournalsFit(f, posted) ==
    \A x \in Withdrawals :
        /\ <<"debit", x>> \in posted => f[x] # "absent"
        /\ <<"paid", x>> \in posted => f[x] \in {"paid", "reversed"}
        /\ \A to \in Undone : <<to, x>> \in posted => f[x] = to

\* A record with the two tables, whatever is in them.
IsDatabase(d) == d \in [status : {d.status}, books : {d.books}]

Sound(d) ==
    /\ IsDatabase(d)
    /\ d.status \in [Withdrawals -> Statuses]
    /\ IsFiniteSet(Existing(d.status))
    /\ BooksOK(d.books)
    /\ JournalsFit(d.status, DOMAIN d.books)
    /\ Balance(d.books, "in_transit") = Held(d.status, Waiting)
    /\ Balance(d.books, "bank") = Held(d.status, {"paid"}) - Fund
    /\ Balance(d.books, "wallet") >= 0

-----------------------------------------------------------------------------
(* Sums                                                                    *)

LEMMA AmountIsNat == \A x \in Withdrawals : AmountOf(x) \in Nat
BY WithdrawalAssumption DEF AmountOf

LEMMA TogetherType ==
    ASSUME NEW S \in SUBSET Withdrawals, IsFiniteSet(S)
    PROVE  Together(S) \in Nat
  <1>1. \A x \in S : [y \in S |-> AmountOf(y)][x] \in Nat
    BY AmountIsNat
  <1> QED BY <1>1, TotalType DEF Together

LEMMA TogetherAdd ==
    ASSUME NEW S \in SUBSET Withdrawals, IsFiniteSet(S), NEW x \in Withdrawals, x \notin S
    PROVE  Together(S \cup {x}) = Together(S) + AmountOf(x)
  <1> DEFINE T == S \cup {x}
             amount == [y \in T |-> AmountOf(y)]
  <1>1. \A y \in T : amount[y] \in Nat
    BY AmountIsNat
  <1>2. Total(amount, S) = Together(S)
    BY TotalCongruence DEF Together
  <1>3. amount[x] = AmountOf(x) /\ Together(T) = Total(amount, T)
    BY DEF Together
  <1> HIDE DEF amount
  <1>4. Total(amount, T) = Total(amount, S) + amount[x]
    BY <1>1, TotalAdd
  <1> QED BY <1>2, <1>3, <1>4

LEMMA HeldType ==
    ASSUME NEW f, IsFiniteSet(Existing(f)), NEW S \in SUBSET (Statuses \ {"absent"})
    PROVE  Held(f, S) \in Nat
  <1>1. {x \in Withdrawals : f[x] \in S} \in SUBSET Existing(f)
    BY DEF Existing
  <1>2. IsFiniteSet({x \in Withdrawals : f[x] \in S})
    BY <1>1, FS_Subset
  <1> QED BY <1>2, TogetherType DEF Held

\* A withdrawal that changes its status takes its amount along.
LEMMA ExistingGrows ==
    ASSUME NEW f \in [Withdrawals -> Statuses], IsFiniteSet(Existing(f)),
           NEW x \in Withdrawals, NEW to
    PROVE  IsFiniteSet(Existing([f EXCEPT ![x] = to]))
  <1> DEFINE g == [f EXCEPT ![x] = to]
  <1>1. Existing(g) \in SUBSET (Existing(f) \cup {x})
    BY DEF Existing
  <1> HIDE DEF g
  <1>2. IsFiniteSet(Existing(f) \cup {x})
    BY FS_AddElement
  <1>3. IsFiniteSet(Existing(g))
    BY <1>1, <1>2, FS_Subset
  <1> QED BY <1>3 DEF g

LEMMA HeldMoves ==
    ASSUME NEW f \in [Withdrawals -> Statuses], IsFiniteSet(Existing(f)),
           NEW x \in Withdrawals, NEW to, NEW S \in SUBSET (Statuses \ {"absent"})
    PROVE  Held([f EXCEPT ![x] = to], S)
             = Held(f, S) + (IF to \in S THEN AmountOf(x) ELSE 0)
                          - (IF f[x] \in S THEN AmountOf(x) ELSE 0)
  <1> DEFINE g == [f EXCEPT ![x] = to]
             Rest == {y \in Withdrawals : f[y] \in S} \ {x}
  <1>1. Rest \in SUBSET Existing(f)
    BY DEF Existing
  <1>2. IsFiniteSet(Rest) /\ Rest \in SUBSET Withdrawals /\ x \notin Rest
    BY <1>1, FS_Subset
  <1>3. Together(Rest) \in Nat /\ Together(Rest \cup {x}) = Together(Rest) + AmountOf(x)
    BY <1>2, TogetherType, TogetherAdd
  <1>4. {y \in Withdrawals : f[y] \in S} = IF f[x] \in S THEN Rest \cup {x} ELSE Rest
    OBVIOUS
  <1>5. {y \in Withdrawals : g[y] \in S} = IF to \in S THEN Rest \cup {x} ELSE Rest
    OBVIOUS
  <1>6. AmountOf(x) \in Nat
    BY AmountIsNat
  <1> HIDE DEF g, Rest
  <1>7. Held(f, S) = Together(Rest) + (IF f[x] \in S THEN AmountOf(x) ELSE 0)
    <2>1. CASE f[x] \in S
      BY <1>3, <1>4, <2>1 DEF Held
    <2>2. CASE f[x] \notin S
      <3>1. Held(f, S) = Together(Rest)
        BY <1>4, <2>2 DEF Held
      <3> QED BY <1>3, <2>2, <3>1
    <2> QED BY <2>1, <2>2
  <1>8. Held(g, S) = Together(Rest) + (IF to \in S THEN AmountOf(x) ELSE 0)
    <2>1. CASE to \in S
      BY <1>3, <1>5, <2>1 DEF Held
    <2>2. CASE to \notin S
      <3>1. Held(g, S) = Together(Rest)
        BY <1>5, <2>2 DEF Held
      <3> QED BY <1>3, <2>2, <3>1
    <2> QED BY <2>1, <2>2
  <1>9. Held(g, S) = Held(f, S) + (IF to \in S THEN AmountOf(x) ELSE 0)
                               - (IF f[x] \in S THEN AmountOf(x) ELSE 0)
    BY <1>3, <1>6, <1>7, <1>8
  <1> QED BY <1>9 DEF g

-----------------------------------------------------------------------------
(* Updates of the database's record                                        *)

LEMMA Database ==
    ASSUME NEW f, NEW b, NEW d, d = [status |-> f, books |-> b]
    PROVE  IsDatabase(d) /\ d.status = f /\ d.books = b
BY DEF IsDatabase

LEMMA SetStatus ==
    ASSUME NEW d, IsDatabase(d), NEW x, NEW to
    PROVE  [d EXCEPT !.status[x] = to] = [status |-> [d.status EXCEPT ![x] = to], books |-> d.books]
BY DEF IsDatabase

LEMMA SetBooks ==
    ASSUME NEW d, IsDatabase(d), NEW b
    PROVE  [d EXCEPT !.books = b] = [status |-> d.status, books |-> b]
BY DEF IsDatabase

\* A withdrawal's journal is posted, and its status set.
Moved(d, id, debit, credit, x, to) ==
    [Posted(d, id, debit, credit, AmountOf(x)) EXCEPT !.status[x] = to]

LEMMA PostThenSet ==
    ASSUME NEW d, IsDatabase(d), NEW x, NEW to, NEW id, NEW debit, NEW credit
    PROVE  Moved(d, id, debit, credit, x, to)
             = [status |-> [d.status EXCEPT ![x] = to],
                books |-> Post(d.books, id, Journal(debit, credit, AmountOf(x)))]
  <1> DEFINE e == Posted(d, id, debit, credit, AmountOf(x))
             more == Post(d.books, id, Journal(debit, credit, AmountOf(x)))
  <1>1. e = [d EXCEPT !.books = more]
    BY DEF Posted
  <1> HIDE DEF e, more
  <1>2. e = [status |-> d.status, books |-> more]
    BY <1>1, SetBooks
  <1>3. IsDatabase(e) /\ e.status = d.status /\ e.books = more
    BY <1>2, Database
  <1>4. [e EXCEPT !.status[x] = to] = [status |-> [d.status EXCEPT ![x] = to], books |-> more]
    BY <1>3, SetStatus
  <1> QED BY <1>4 DEF Moved, e, more

LEMMA SetThenPost ==
    ASSUME NEW d, IsDatabase(d), NEW x, NEW to, NEW id, NEW debit, NEW credit, NEW n
    PROVE  Posted([d EXCEPT !.status[x] = to], id, debit, credit, n)
             = [status |-> [d.status EXCEPT ![x] = to],
                books |-> Post(d.books, id, Journal(debit, credit, n))]
  <1> DEFINE e == [d EXCEPT !.status[x] = to]
  <1>1. e = [status |-> [d.status EXCEPT ![x] = to], books |-> d.books]
    BY SetStatus
  <1> HIDE DEF e
  <1>2. IsDatabase(e) /\ e.status = [d.status EXCEPT ![x] = to] /\ e.books = d.books
    BY <1>1, Database
  <1>3. \A more : [e EXCEPT !.books = more] = [status |-> [d.status EXCEPT ![x] = to], books |-> more]
    BY <1>2, SetBooks
  <1>4. Posted(e, id, debit, credit, n)
          = [status |-> [d.status EXCEPT ![x] = to],
             books |-> Post(d.books, id, Journal(debit, credit, n))]
    BY <1>2, <1>3 DEF Posted
  <1> QED BY <1>4 DEF e

-----------------------------------------------------------------------------
(* Transactions                                                            *)

\* A withdrawal changes its status, and its amount moves the same way.
LEMMA MoveIsSound ==
    ASSUME NEW d, Sound(d), NEW x \in Withdrawals, NEW to \in Statuses \ {"absent"},
           NEW id, id \notin DOMAIN d.books, NEW debit, NEW credit,
           JournalsFit([d.status EXCEPT ![x] = to], DOMAIN d.books \cup {id}),
           credit = "in_transit" <=> to \in Waiting,
           debit = "in_transit" <=> d.status[x] \in Waiting,
           credit = "bank" <=> to = "paid",
           debit = "bank" <=> d.status[x] = "paid",
           debit = "wallet" => Balance(d.books, "wallet") >= AmountOf(x)
    PROVE  Sound([status |-> [d.status EXCEPT ![x] = to],
                  books |-> Post(d.books, id, Journal(debit, credit, AmountOf(x)))])
  <1> DEFINE n == AmountOf(x)
             b == d.books
             more == Post(b, id, Journal(debit, credit, n))
             f == d.status
             g == [f EXCEPT ![x] = to]
             e == [status |-> g, books |-> more]
  <1>1. n \in Nat
    BY AmountIsNat
  <1>2. BooksOK(b) /\ f \in [Withdrawals -> Statuses] /\ IsFiniteSet(Existing(f))
    BY DEF Sound
  <1>3. /\ Balance(b, "in_transit") = Held(f, Waiting)
        /\ Balance(b, "bank") = Held(f, {"paid"}) - Fund
        /\ Balance(b, "wallet") >= 0
    BY DEF Sound
  <1>4. /\ credit = "in_transit" <=> to \in Waiting
        /\ debit = "in_transit" <=> f[x] \in Waiting
        /\ credit = "bank" <=> to \in {"paid"}
        /\ debit = "bank" <=> f[x] \in {"paid"}
        /\ debit = "wallet" => Balance(b, "wallet") >= n
        /\ JournalsFit(g, DOMAIN b \cup {id}) /\ id \notin DOMAIN b
    OBVIOUS
  <1> HIDE DEF n, b, f
  <1>5. BooksOK(more) /\ DOMAIN more = DOMAIN b \cup {id}
    BY <1>1, <1>2, <1>4, PostNew, PostDomain
  <1>6. ASSUME NEW a
        PROVE  Balance(more, a) = Balance(b, a) + (IF a = credit THEN n ELSE 0)
                                                - (IF a = debit THEN n ELSE 0)
    BY <1>1, <1>2, <1>4, PostMoves
  <1>7. g \in [Withdrawals -> Statuses] /\ IsFiniteSet(Existing(g))
    BY <1>2, ExistingGrows
  <1>8. Waiting \in SUBSET (Statuses \ {"absent"}) /\ {"paid"} \in SUBSET (Statuses \ {"absent"})
    BY DEF Waiting, Statuses
  <1>9. Held(f, Waiting) \in Nat /\ Held(f, {"paid"}) \in Nat
    BY <1>2, <1>8, HeldType
  <1>10. ASSUME NEW S \in SUBSET (Statuses \ {"absent"})
         PROVE  Held(g, S) = Held(f, S) + (IF to \in S THEN n ELSE 0) - (IF f[x] \in S THEN n ELSE 0)
    BY <1>2, HeldMoves DEF n
  <1>11. Balance(b, "wallet") \in Int
    BY <1>2, BalanceType
  <1> HIDE DEF g, more
  <1>12. Balance(more, "in_transit") = Held(g, Waiting)
    <2>1. Balance(more, "in_transit") = Balance(b, "in_transit")
            + (IF to \in Waiting THEN n ELSE 0) - (IF f[x] \in Waiting THEN n ELSE 0)
      BY <1>4, <1>6
    <2>2. Held(g, Waiting) = Held(f, Waiting)
            + (IF to \in Waiting THEN n ELSE 0) - (IF f[x] \in Waiting THEN n ELSE 0)
      BY <1>8, <1>10
    <2> QED BY <1>3, <2>1, <2>2
  <1>13. Balance(more, "bank") = Held(g, {"paid"}) - Fund
    <2>1. Balance(more, "bank") = Balance(b, "bank")
            + (IF to \in {"paid"} THEN n ELSE 0) - (IF f[x] \in {"paid"} THEN n ELSE 0)
      BY <1>4, <1>6
    <2>2. Held(g, {"paid"}) = Held(f, {"paid"})
            + (IF to \in {"paid"} THEN n ELSE 0) - (IF f[x] \in {"paid"} THEN n ELSE 0)
      BY <1>8, <1>10
    <2>3. Fund \in Nat
      BY WithdrawalAssumption
    <2> QED BY <1>1, <1>3, <1>9, <2>1, <2>2, <2>3
  <1>14. Balance(more, "wallet") >= 0
    <2>1. Balance(more, "wallet") = Balance(b, "wallet")
            + (IF "wallet" = credit THEN n ELSE 0) - (IF "wallet" = debit THEN n ELSE 0)
      BY <1>6
    <2> QED BY <1>1, <1>3, <1>4, <1>11, <2>1
  <1>15. IsDatabase(e) /\ e.status = g /\ e.books = more
    BY Database
  <1>16. JournalsFit(g, DOMAIN more)
    BY <1>4, <1>5
  <1> HIDE DEF e
  <1>17. Sound(e)
    BY <1>5, <1>7, <1>12, <1>13, <1>14, <1>15, <1>16 DEF Sound
  <1> QED BY <1>17 DEF e, g, f, more, b, n

\* The statuses f, but for x's.
With(f, x, to) == [f EXCEPT ![x] = to]

\* A request's debit.
Debited(d, x, status) ==
    Posted([d EXCEPT !.status[x] = status], <<"debit", x>>, "wallet", "in_transit", AmountOf(x))

LEMMA DebitIsSound ==
    ASSUME NEW d, Sound(d), NEW x \in Withdrawals, d.status[x] = "absent",
           Balance(d.books, "wallet") >= AmountOf(x),
           NEW status \in {"pending_approval", "approved"}
    PROVE  /\ Sound(Debited(d, x, status))
           /\ Debited(d, x, status).status = With(d.status, x, status)
  <1> DEFINE e == Debited(d, x, status)
             id == <<"debit", x>>
  <1>1. /\ IsDatabase(d) /\ d.status \in [Withdrawals -> Statuses]
        /\ JournalsFit(d.status, DOMAIN d.books)
    BY DEF Sound
  <1>2. e = [status |-> [d.status EXCEPT ![x] = status],
             books |-> Post(d.books, id, Journal("wallet", "in_transit", AmountOf(x)))]
    BY <1>1, SetThenPost DEF Debited
  <1>3. id \notin DOMAIN d.books
    BY <1>1 DEF JournalsFit
  <1>4. status \in Statuses \ {"absent"} /\ status \in Waiting
    BY DEF Statuses, Waiting
  <1>5. JournalsFit([d.status EXCEPT ![x] = status], DOMAIN d.books \cup {id})
    BY <1>1, <1>4 DEF JournalsFit, Undone, Waiting
  <1>6. d.status[x] \notin Waiting /\ status # "paid"
    BY DEF Waiting
  <1> HIDE DEF e, id
  <1>7. e.status = [d.status EXCEPT ![x] = status]
    BY <1>2
  <1>8. Sound([status |-> [d.status EXCEPT ![x] = status],
               books |-> Post(d.books, id, Journal("wallet", "in_transit", AmountOf(x)))])
    BY <1>3, <1>4, <1>5, <1>6, MoveIsSound
  <1>9. Sound(e)
    BY <1>2, <1>8
  <1> QED BY <1>7, <1>9 DEF e, With

\* The money goes back to the wallet, from in transit or from the bank.
MayReturn(status, to, from) ==
    \/ from = "in_transit" /\ to \in {"failed", "rejected"} /\ status \in Waiting
    \/ from = "bank" /\ to = "reversed" /\ status = "paid"

LEMMA ReturnIsSound ==
    ASSUME NEW d, Sound(d), NEW x \in Withdrawals, NEW to, NEW from,
           MayReturn(d.status[x], to, from)
    PROVE  /\ Sound(ReturnFunds(d, x, to, from))
           /\ ReturnFunds(d, x, to, from).status = With(d.status, x, to)
  <1> DEFINE e == ReturnFunds(d, x, to, from)
             id == <<to, x>>
  <1>1. /\ IsDatabase(d) /\ d.status \in [Withdrawals -> Statuses]
        /\ JournalsFit(d.status, DOMAIN d.books)
    BY DEF Sound
  <1>2. e = [status |-> [d.status EXCEPT ![x] = to],
             books |-> Post(d.books, id, Journal(from, "wallet", AmountOf(x)))]
    <2>1. e = Moved(d, id, from, "wallet", x, to)
      BY DEF ReturnFunds, Moved
    <2> HIDE DEF e, id
    <2> QED BY <1>1, <2>1, PostThenSet
  <1>3. to \in Statuses \ {"absent"} /\ to \in Undone /\ to \notin Waiting /\ to # "paid"
    BY DEF MayReturn, Statuses, Undone, Waiting
  <1>4. id \notin DOMAIN d.books
    BY <1>1, <1>3 DEF MayReturn, JournalsFit, Undone, Waiting
  <1>5. JournalsFit([d.status EXCEPT ![x] = to], DOMAIN d.books \cup {id})
    BY <1>1, <1>3 DEF MayReturn, JournalsFit, Undone, Waiting
  <1>6. /\ from = "in_transit" <=> d.status[x] \in Waiting
        /\ from = "bank" <=> d.status[x] = "paid"
        /\ from # "wallet"
    BY DEF MayReturn, Waiting
  <1> HIDE DEF e, id
  <1>7. e.status = [d.status EXCEPT ![x] = to]
    BY <1>2
  <1>8. Sound([status |-> [d.status EXCEPT ![x] = to],
               books |-> Post(d.books, id, Journal(from, "wallet", AmountOf(x)))])
    BY <1>3, <1>4, <1>5, <1>6, MoveIsSound
  <1>9. Sound(e)
    BY <1>2, <1>8
  <1> QED BY <1>7, <1>9 DEF e, With

\* The payout is booked, once.
LEMMA PaidIsSound ==
    ASSUME NEW d, Sound(d), NEW x \in Withdrawals, d.status[x] \in {"approved", "processing", "paid"}
    PROVE  /\ Sound(Paid(d, x))
           /\ Paid(d, x).status = With(d.status, x, "paid")
  <1> DEFINE e == Paid(d, x)
             id == <<"paid", x>>
  <1>1. /\ IsDatabase(d) /\ d.status \in [Withdrawals -> Statuses]
        /\ JournalsFit(d.status, DOMAIN d.books)
    BY DEF Sound
  <1>2. CASE d.status[x] = "paid"
    BY <1>1, <1>2 DEF Paid, With
  <1>3. CASE d.status[x] # "paid"
    <2>1. e = [status |-> [d.status EXCEPT ![x] = "paid"],
               books |-> Post(d.books, id, Journal("in_transit", "bank", AmountOf(x)))]
      <3>1. e = Moved(d, id, "in_transit", "bank", x, "paid")
        BY <1>3 DEF Paid, Moved
      <3> HIDE DEF e, id
      <3> QED BY <1>1, <3>1, PostThenSet
    <2>2. id \notin DOMAIN d.books /\ d.status[x] \in Waiting
      BY <1>1, <1>3 DEF JournalsFit, Waiting
    <2>3. JournalsFit([d.status EXCEPT ![x] = "paid"], DOMAIN d.books \cup {id})
      BY <1>1, <1>3 DEF JournalsFit, Undone
    <2>4. "paid" \in Statuses \ {"absent"} /\ "paid" \notin Waiting
      BY DEF Statuses, Waiting
    <2> HIDE DEF e, id
    <2>5. e.status = [d.status EXCEPT ![x] = "paid"]
      BY <2>1
    <2>6. Sound([status |-> [d.status EXCEPT ![x] = "paid"],
                 books |-> Post(d.books, id, Journal("in_transit", "bank", AmountOf(x)))])
      BY <1>3, <2>2, <2>3, <2>4, MoveIsSound
    <2>7. Sound(e)
      BY <2>1, <2>6
    <2> QED BY <2>5, <2>7 DEF e, With
  <1> QED BY <1>2, <1>3

\* What a status becomes when the provider's view is applied to it.
Told(status, seen) ==
    IF seen = "processing"
    THEN IF status = "approved" THEN "processing" ELSE status
    ELSE seen

\* The provider's view is applied, whatever steps of the payout were missed.
LEMMA ApplyIsSound ==
    ASSUME NEW d, Sound(d), NEW x \in Withdrawals,
           d.status[x] \in {"approved", "processing", "paid"},
           NEW seen \in {"processing", "paid", "failed", "reversed"},
           seen = "failed" => d.status[x] # "paid"
    PROVE  /\ Sound(Apply(d, x, seen))
           /\ Apply(d, x, seen).status = With(d.status, x, Told(d.status[x], seen))
  <1>1. d.status \in [Withdrawals -> Statuses] /\ IsDatabase(d)
    BY DEF Sound
  <1>2. CASE seen = "processing" /\ d.status[x] = "approved"
    <2> DEFINE e == [d EXCEPT !.status[x] = "processing"]
               f == [d.status EXCEPT ![x] = "processing"]
    <2>1. Apply(d, x, seen) = e /\ Told(d.status[x], seen) = "processing"
      BY <1>2 DEF Apply, Told
    <2>2. e = [status |-> f, books |-> d.books]
      BY <1>1, SetStatus
    <2>3. {"processing", "approved"} \subseteq Waiting /\ "processing" \in Statuses
      BY DEF Waiting, Statuses
    <2>4. f \in [Withdrawals -> Statuses] /\ IsFiniteSet(Existing(f))
      BY <1>1, <2>3, ExistingGrows DEF Sound
    <2>5. JournalsFit(f, DOMAIN d.books)
      BY <1>1, <1>2 DEF Sound, JournalsFit, Undone
    <2>6. \A y \in Withdrawals : /\ f[y] \in Waiting <=> d.status[y] \in Waiting
                                 /\ f[y] = "paid" <=> d.status[y] = "paid"
      BY <1>1, <1>2, <2>3
    <2>7. Held(f, Waiting) = Held(d.status, Waiting) /\ Held(f, {"paid"}) = Held(d.status, {"paid"})
      <3>1. {y \in Withdrawals : f[y] \in Waiting} = {y \in Withdrawals : d.status[y] \in Waiting}
        BY <2>6
      <3>2. {y \in Withdrawals : f[y] \in {"paid"}} = {y \in Withdrawals : d.status[y] \in {"paid"}}
        BY <2>6
      <3> QED BY <3>1, <3>2 DEF Held
    <2> HIDE DEF e, f
    <2>8. IsDatabase(e) /\ e.status = f /\ e.books = d.books
      BY <2>2, Database
    <2>9. Sound(e)
      BY <2>4, <2>5, <2>7, <2>8 DEF Sound
    <2>10. Sound(Apply(d, x, seen)) /\ Apply(d, x, seen).status = f
      BY <2>1, <2>8, <2>9
    <2> QED BY <2>1, <2>10 DEF f, With
  <1>3. CASE seen = "processing" /\ d.status[x] # "approved"
    <2>1. Apply(d, x, seen) = d /\ Told(d.status[x], seen) = d.status[x]
      BY <1>3 DEF Apply, Told
    <2>2. d.status = [d.status EXCEPT ![x] = d.status[x]]
      BY <1>1
    <2> QED BY <2>1, <2>2 DEF With
  <1>4. CASE seen = "paid"
    BY <1>4, PaidIsSound DEF Apply, Told
  <1>5. CASE seen = "failed"
    <2>1. MayReturn(d.status[x], "failed", "in_transit")
      BY <1>5 DEF MayReturn, Waiting
    <2>2. Apply(d, x, seen) = ReturnFunds(d, x, "failed", "in_transit") /\ Told(d.status[x], seen) = "failed"
      BY <1>5 DEF Apply, Told
    <2> QED BY <2>1, <2>2, ReturnIsSound
  <1>6. CASE seen = "reversed"
    <2> DEFINE e == Paid(d, x)
    <2>1. Sound(e) /\ e.status = With(d.status, x, "paid")
      BY PaidIsSound
    <2>2. Apply(d, x, seen) = ReturnFunds(e, x, "reversed", "bank") /\ Told(d.status[x], seen) = "reversed"
      BY <1>6 DEF Apply, Told
    <2> HIDE DEF e
    <2>3. MayReturn(e.status[x], "reversed", "bank")
      BY <1>1, <2>1 DEF MayReturn, With
    <2>4. /\ Sound(ReturnFunds(e, x, "reversed", "bank"))
          /\ ReturnFunds(e, x, "reversed", "bank").status = With(e.status, x, "reversed")
      BY <2>1, <2>3, ReturnIsSound
    <2>5. With(e.status, x, "reversed") = With(d.status, x, "reversed")
      BY <1>1, <2>1 DEF With
    <2> QED BY <2>2, <2>4, <2>5
  <1> QED BY <1>2, <1>3, <1>4, <1>5, <1>6

\* The customer spends what is in the wallet.
LEMMA SpendIsSound ==
    ASSUME NEW d, Sound(d), NEW n \in Nat, <<"spend", n>> \notin DOMAIN d.books,
           Balance(d.books, "wallet") >= n
    PROVE  /\ Sound(Posted(d, <<"spend", n>>, "wallet", "sales", n))
           /\ Posted(d, <<"spend", n>>, "wallet", "sales", n).status = d.status
  <1> DEFINE e == Posted(d, <<"spend", n>>, "wallet", "sales", n)
             more == Post(d.books, <<"spend", n>>, Journal("wallet", "sales", n))
             id == <<"spend", n>>
  <1>1. /\ IsDatabase(d) /\ d.status \in [Withdrawals -> Statuses]
        /\ JournalsFit(d.status, DOMAIN d.books) /\ BooksOK(d.books)
    BY DEF Sound
  <1>2. e = [status |-> d.status, books |-> more]
    <2>1. \A b : [d EXCEPT !.books = b] = [status |-> d.status, books |-> b]
      BY <1>1, SetBooks
    <2>2. e = [d EXCEPT !.books = more]
      BY DEF Posted
    <2> HIDE DEF e, more
    <2> QED BY <2>1, <2>2
  <1>3. BooksOK(more) /\ DOMAIN more = DOMAIN d.books \cup {id}
    BY <1>1, PostNew, PostDomain
  <1>4. \A x \in Withdrawals : /\ id # <<"debit", x>> /\ id # <<"paid", x>>
                                /\ \A to \in Undone : id # <<to, x>>
    BY DEF Undone
  <1>5. ASSUME NEW a
        PROVE  Balance(more, a) = Balance(d.books, a) + (IF a = "sales" THEN n ELSE 0)
                                                      - (IF a = "wallet" THEN n ELSE 0)
    BY <1>1, PostMoves
  <1>6. Balance(d.books, "wallet") \in Int /\ Balance(d.books, "in_transit") \in Int
          /\ Balance(d.books, "bank") \in Int
    BY <1>1, BalanceType
  <1> HIDE DEF e, more, id
  <1>7. JournalsFit(d.status, DOMAIN more)
    BY <1>1, <1>3, <1>4 DEF JournalsFit
  <1>8. IsDatabase(e) /\ e.status = d.status /\ e.books = more
    BY <1>2, Database
  <1>9. /\ Balance(more, "in_transit") = Balance(d.books, "in_transit")
        /\ Balance(more, "bank") = Balance(d.books, "bank")
        /\ Balance(more, "wallet") = Balance(d.books, "wallet") - n
    BY <1>5, <1>6
  <1>10. Balance(more, "wallet") >= 0
    BY <1>6, <1>9
  <1>11. Sound(e)
    BY <1>3, <1>7, <1>8, <1>9, <1>10 DEF Sound
  <1> QED BY <1>8, <1>11 DEF e

-----------------------------------------------------------------------------
(* The invariant                                                           *)

\* A withdrawal said to be sent or over, and what the provider has of it.
Agrees(status, payout) ==
    /\ status = "processing" => payout # "none"
    /\ status = "paid" => payout \in {"paid", "reversed"}
    /\ status = "failed" => payout \in {"none", "failed"}
    /\ status = "reversed" => payout = "reversed"

\* News that was true when it was fetched, and of how the payout is now.
WasSeen(seen, payout) ==
    /\ payout # "none"
    /\ seen = "paid" => payout \in {"paid", "reversed"}
    /\ seen \in {"failed", "reversed"} => payout = seen

JobsFit ==
    \A w \in Workers : jobs[w] # Idle =>
        /\ db.status[jobs[w].of] # "absent"
        /\ WasSeen(jobs[w].seen, psp[jobs[w].of])

WdInv ==
    /\ WdTypeOK
    /\ Sound(db)
    /\ \A x \in Withdrawals : Agrees(db.status[x], psp[x])
    /\ JobsFit

LEMMA InitIsSound == WdInit => WdInv
  <1> SUFFICES ASSUME WdInit PROVE WdInv
    OBVIOUS
  <1> DEFINE f == [x \in Withdrawals |-> "absent"]
             id == <<"fund", "wallet">>
             more == Post(NoBooks, id, Journal("bank", "wallet", Fund))
  <1>1. db = [status |-> f, books |-> more]
    BY DEF WdInit
  <1>2. \A x \in Withdrawals : f[x] = "absent"
    OBVIOUS
  <1>3. f \in [Withdrawals -> Statuses]
    BY DEF Statuses
  <1>4. Existing(f) = {}
    BY DEF Existing
  <1>5. IsFiniteSet(Existing(f))
    BY <1>4, FS_EmptySet
  <1>6. Fund \in Nat
    BY WithdrawalAssumption
  <1>7. BooksOK(more) /\ DOMAIN more = {id}
    <2>1. id \notin DOMAIN NoBooks /\ BooksOK(NoBooks) /\ DOMAIN NoBooks \cup {id} = {id}
      BY NoBooksOK
    <2>2. BooksOK(more)
      BY <1>6, <2>1, PostNew
    <2>3. DOMAIN more = DOMAIN NoBooks \cup {id}
      BY PostDomain
    <2> QED BY <2>1, <2>2, <2>3
  <1>8. ASSUME NEW a
        PROVE  Balance(more, a) = (IF a = "wallet" THEN Fund ELSE 0) - (IF a = "bank" THEN Fund ELSE 0)
    <2>1. id \notin DOMAIN NoBooks /\ BooksOK(NoBooks) /\ Balance(NoBooks, a) = 0
      BY NoBooksOK
    <2>2. Balance(more, a) = Balance(NoBooks, a) + (IF a = "wallet" THEN Fund ELSE 0)
                                                 - (IF a = "bank" THEN Fund ELSE 0)
      BY <1>6, <2>1, PostMoves
    <2> QED BY <1>6, <2>1, <2>2
  <1>9. JournalsFit(f, {id})
    BY DEF JournalsFit, Undone
  <1>10. ASSUME NEW S \in SUBSET (Statuses \ {"absent"}) PROVE Held(f, S) = 0
    <2>1. {x \in Withdrawals : f[x] \in S} = {}
      BY <1>2
    <2>2. Held(f, S) = Total([x \in {} |-> AmountOf(x)], {})
      BY <2>1 DEF Held, Together
    <2> QED BY <2>2, TotalEmpty
  <1>11. Held(f, Waiting) = 0 /\ Held(f, {"paid"}) = 0
    BY <1>10 DEF Waiting, Statuses
  <1> HIDE DEF f, more, id
  <1>12. IsDatabase(db) /\ db.status = f /\ db.books = more
    BY <1>1, Database
  <1>13. Sound(db)
    BY <1>3, <1>5, <1>6, <1>7, <1>8, <1>9, <1>11, <1>12 DEF Sound
  <1>14. WdTypeOK
    BY <1>3, <1>12 DEF WdInit, WdTypeOK, Statuses
  <1>15. JobsFit /\ \A x \in Withdrawals : Agrees(db.status[x], psp[x])
    BY <1>2, <1>12 DEF WdInit, JobsFit, Agrees, f
  <1> QED BY <1>13, <1>14, <1>15 DEF WdInv

\* What every step that moves one withdrawal has to show.
LEMMA StatusStep ==
    ASSUME WdInv, NEW x \in Withdrawals, NEW status \in Statuses,
           Sound(db'), db'.status = With(db.status, x, status),
           status = "absent" => db.status[x] = "absent",
           psp' = psp \/ (psp[x] = "none" /\ psp' = [psp EXCEPT ![x] = "processing"]),
           Agrees(status, psp'[x]),
           jobs' = jobs \/ \E w \in Workers : jobs' = [jobs EXCEPT ![w] = Idle]
    PROVE  WdInv'
  <1>1. /\ db.status \in [Withdrawals -> Statuses]
        /\ psp \in [Withdrawals -> {"none", "processing", "paid", "failed", "reversed"}]
        /\ jobs \in [Workers -> {Idle} \cup
               [of : Withdrawals, seen : {"processing", "paid", "failed", "reversed"}]]
    BY DEF WdInv, WdTypeOK, Sound
  <1>2. /\ db'.status \in [Withdrawals -> Statuses]
        /\ db'.status[x] = status
        /\ \A y \in Withdrawals \ {x} : db'.status[y] = db.status[y]
    BY <1>1 DEF With
  <1>3. /\ psp' \in [Withdrawals -> {"none", "processing", "paid", "failed", "reversed"}]
        /\ \A y \in Withdrawals : psp'[y] = psp[y] \/ psp[y] = "none"
        /\ \A y \in Withdrawals \ {x} : psp'[y] = psp[y]
    BY <1>1
  <1>4. /\ jobs' \in [Workers -> {Idle} \cup
               [of : Withdrawals, seen : {"processing", "paid", "failed", "reversed"}]]
        /\ \A w \in Workers : jobs'[w] = Idle \/ jobs'[w] = jobs[w]
    BY <1>1
  <1>5. WdTypeOK'
    BY <1>2, <1>3, <1>4 DEF WdTypeOK, Statuses
  <1>6. \A y \in Withdrawals : Agrees(db.status[y], psp[y])'
    BY <1>2, <1>3 DEF WdInv
  <1>7. ASSUME NEW w \in Workers, jobs'[w] # Idle
        PROVE  /\ db'.status[jobs'[w].of] # "absent"
               /\ WasSeen(jobs'[w].seen, psp'[jobs'[w].of])
    <2>1. jobs'[w] = jobs[w] /\ jobs[w] # Idle /\ jobs[w].of \in Withdrawals
      BY <1>1, <1>4, <1>7
    <2>2. db.status[jobs[w].of] # "absent" /\ WasSeen(jobs[w].seen, psp[jobs[w].of])
      BY <2>1 DEF WdInv, JobsFit
    <2>3. psp'[jobs[w].of] = psp[jobs[w].of]
      BY <1>3, <2>1, <2>2 DEF WasSeen
    <2> QED BY <1>2, <2>1, <2>2, <2>3
  <1>8. JobsFit'
    BY <1>7 DEF JobsFit
  <1> QED BY <1>5, <1>6, <1>8 DEF WdInv

\* The provider is asked for a payout: whatever it answers, and whether or
\* not the transaction then commits.
LEMMA SubmitStep ==
    ASSUME WdInv, NEW x \in Withdrawals, NEW d, Sound(d),
           d.status = With(db.status, x, "approved"),
           db.status[x] \in {"absent", "pending_approval", "approved"},
           Submit(d, x), jobs' = jobs
    PROVE  WdInv'
  <1> DEFINE asked == [psp EXCEPT ![x] = IF @ = "none" THEN "processing" ELSE @]
             seen == asked[x]
  <1>1. /\ db.status \in [Withdrawals -> Statuses] /\ Sound(db)
        /\ psp \in [Withdrawals -> {"none", "processing", "paid", "failed", "reversed"}]
    BY DEF WdInv, WdTypeOK, Sound
  <1>2. d.status[x] = "approved"
    BY <1>1 DEF With
  <1>3. With(db.status, x, db.status[x]) = db.status
    BY <1>1 DEF With
  <1>4. ASSUME NEW to PROVE With(d.status, x, to) = With(db.status, x, to)
    BY <1>1 DEF With
  <1>5. \/ psp' = asked /\ db' \in {Apply(d, x, seen), d, db}
        \/ psp[x] = "none" /\ psp' = psp /\ db' \in {ReturnFunds(d, x, "failed", "in_transit"), d}
    BY DEF Submit
  <1>6. /\ seen \in {"processing", "paid", "failed", "reversed"}
        /\ asked = psp \/ (psp[x] = "none" /\ asked = [psp EXCEPT ![x] = "processing"])
    BY <1>1
  <1> HIDE DEF asked
  <1>7. /\ {"approved", "absent", "pending_approval", "processing", "paid", "failed", "reversed"} \subseteq Statuses
    BY DEF Statuses, Waiting, Undone
  <1>8. CASE psp' = asked /\ db' = Apply(d, x, seen)
    <2>1. Sound(db') /\ db'.status = With(db.status, x, Told("approved", seen))
      BY <1>2, <1>4, <1>6, <1>8, ApplyIsSound
    <2>2. /\ Told("approved", seen) \in Statuses /\ Told("approved", seen) # "absent"
          /\ Agrees(Told("approved", seen), seen)
      BY <1>6, <1>7 DEF Told, Agrees
    <2> QED BY <1>6, <1>8, <2>1, <2>2, StatusStep
  <1>9. CASE psp' \in {psp, asked} /\ db' = d
    <2>1. Agrees("approved", psp'[x])
      BY DEF Agrees
    <2> QED BY <1>6, <1>7, <1>9, <2>1, StatusStep
  <1>10. CASE psp' = asked /\ db' = db
    <2>1. Agrees(db.status[x], psp'[x])
      BY DEF Agrees
    <2> QED BY <1>1, <1>3, <1>6, <1>7, <1>10, <2>1, StatusStep
  <1>11. CASE psp[x] = "none" /\ psp' = psp /\ db' = ReturnFunds(d, x, "failed", "in_transit")
    <2>1. MayReturn(d.status[x], "failed", "in_transit")
      BY <1>2 DEF MayReturn, Waiting
    <2>2. Sound(db') /\ db'.status = With(db.status, x, "failed")
      BY <1>4, <1>11, <2>1, ReturnIsSound
    <2>3. Agrees("failed", psp'[x])
      BY <1>11 DEF Agrees
    <2> QED BY <1>7, <1>11, <2>2, <2>3, StatusStep
  <1> QED BY <1>5, <1>8, <1>9, <1>10, <1>11

LEMMA NextIsSound == WdInv /\ [WdNext]_wdVars => WdInv'
  <1> SUFFICES ASSUME WdInv, [WdNext]_wdVars PROVE WdInv'
    OBVIOUS
  <1>1. /\ Sound(db) /\ IsDatabase(db) /\ db.status \in [Withdrawals -> Statuses]
        /\ psp \in [Withdrawals -> {"none", "processing", "paid", "failed", "reversed"}]
        /\ jobs \in [Workers -> {Idle} \cup
               [of : Withdrawals, seen : {"processing", "paid", "failed", "reversed"}]]
    BY DEF WdInv, WdTypeOK, Sound
  <1>2. {"absent", "rejected", "pending_approval", "approved"} \subseteq Statuses
    BY DEF Statuses, Waiting, Undone
  <1>3. ASSUME NEW x \in Withdrawals PROVE With(db.status, x, db.status[x]) = db.status
    BY <1>1 DEF With
  <1>4. ASSUME NEW x \in Withdrawals, Request(x) PROVE WdInv'
    <2> DEFINE status == IF RequestOf[x] \in NeedsApproval THEN "pending_approval" ELSE "approved"
               d == Debited(db, x, status)
    <2>1. /\ db.status[x] = "absent" /\ Balance(db.books, "wallet") >= AmountOf(x) /\ jobs' = jobs
          /\ IF RequestOf[x] \in NeedsApproval THEN db' = d /\ UNCHANGED psp ELSE Submit(d, x)
      BY <1>4 DEF Request, Debited
    <2>2. status \in {"pending_approval", "approved"}
      OBVIOUS
    <2>3. Sound(d) /\ d.status = With(db.status, x, status)
      BY <1>1, <2>1, <2>2, DebitIsSound DEF With
    <2> HIDE DEF d
    <2>4. CASE RequestOf[x] \in NeedsApproval
      <3>1. status = "pending_approval" /\ db' = d /\ psp' = psp
        BY <2>1, <2>4
      <3>2. Agrees("pending_approval", psp'[x])
        BY DEF Agrees
      <3> QED BY <1>2, <2>1, <2>3, <3>1, <3>2, StatusStep
    <2>5. CASE RequestOf[x] \notin NeedsApproval
      <3>1. status = "approved" /\ Submit(d, x)
        BY <2>1, <2>5
      <3> QED BY <2>1, <2>3, <3>1, SubmitStep
    <2> QED BY <2>4, <2>5
  <1>5. ASSUME NEW x \in Withdrawals, Approve(x) PROVE WdInv'
    <2> DEFINE d == [db EXCEPT !.status[x] = "approved"]
               f == [db.status EXCEPT ![x] = "approved"]
    <2>1. db.status[x] = "pending_approval" /\ Submit(d, x) /\ jobs' = jobs
      BY <1>5 DEF Approve
    <2>2. d = [status |-> f, books |-> db.books]
      BY <1>1, SetStatus
    <2>3. /\ f \in [Withdrawals -> Statuses] /\ IsFiniteSet(Existing(f))
          /\ JournalsFit(f, DOMAIN db.books)
      <3>1. f \in [Withdrawals -> Statuses] /\ IsFiniteSet(Existing(f))
        BY <1>1, <1>2, ExistingGrows DEF Sound
      <3>2. JournalsFit(f, DOMAIN db.books)
        BY <1>1, <2>1 DEF Sound, JournalsFit, Undone
      <3> QED BY <3>1, <3>2
    <2>4. Held(f, Waiting) = Held(db.status, Waiting) /\ Held(f, {"paid"}) = Held(db.status, {"paid"})
      <3>1. \A y \in Withdrawals : /\ f[y] \in Waiting <=> db.status[y] \in Waiting
                                   /\ f[y] = "paid" <=> db.status[y] = "paid"
        BY <1>1, <2>1 DEF Waiting
      <3>2. {y \in Withdrawals : f[y] \in Waiting} = {y \in Withdrawals : db.status[y] \in Waiting}
        BY <3>1
      <3>3. {y \in Withdrawals : f[y] \in {"paid"}} = {y \in Withdrawals : db.status[y] \in {"paid"}}
        BY <3>1
      <3> QED BY <3>2, <3>3 DEF Held
    <2>5. f = With(db.status, x, "approved")
      BY DEF With
    <2> HIDE DEF d, f
    <2>6. IsDatabase(d) /\ d.status = f /\ d.books = db.books
      BY <2>2, Database
    <2>7. Sound(d)
      BY <1>1, <2>3, <2>4, <2>6 DEF Sound
    <2> QED BY <2>1, <2>5, <2>6, <2>7, SubmitStep
  <1>6. ASSUME NEW x \in Withdrawals, Reject(x) PROVE WdInv'
    <2>1. /\ db.status[x] = "pending_approval" /\ psp' = psp /\ jobs' = jobs
          /\ db' = ReturnFunds(db, x, "rejected", "in_transit")
      BY <1>6 DEF Reject
    <2>2. MayReturn(db.status[x], "rejected", "in_transit")
      BY <2>1 DEF MayReturn, Waiting
    <2>3. Sound(db') /\ db'.status = With(db.status, x, "rejected")
      BY <1>1, <2>1, <2>2, ReturnIsSound
    <2>4. Agrees("rejected", psp'[x])
      BY DEF Agrees
    <2> QED BY <1>2, <2>1, <2>3, <2>4, StatusStep
  <1>7. ASSUME NEW x \in Withdrawals, Resubmit(x) PROVE WdInv'
    <2>1. db.status[x] = "approved" /\ Submit(db, x) /\ jobs' = jobs
      BY <1>7 DEF Resubmit
    <2> QED BY <1>1, <1>3, <2>1, SubmitStep
  <1>8. ASSUME NEW x \in Withdrawals, NEW to \in {"paid", "failed", "reversed"}, PayoutMoves(x, to)
        PROVE  WdInv'
    <2>1. /\ \/ psp[x] = "processing" /\ to \in {"paid", "failed"}
             \/ psp[x] = "paid" /\ to = "reversed"
          /\ psp' = [psp EXCEPT ![x] = to] /\ db' = db /\ jobs' = jobs
      BY <1>8 DEF PayoutMoves
    <2>2. WdTypeOK'
      BY <1>1, <2>1 DEF WdInv, WdTypeOK
    <2>3. \A y \in Withdrawals : Agrees(db.status[y], psp[y])'
      BY <1>1, <2>1 DEF WdInv, Agrees
    <2>4. ASSUME NEW w \in Workers, jobs[w] # Idle
          PROVE  db.status[jobs[w].of] # "absent" /\ WasSeen(jobs[w].seen, psp'[jobs[w].of])
      <3>1. db.status[jobs[w].of] # "absent" /\ WasSeen(jobs[w].seen, psp[jobs[w].of])
        BY <2>4 DEF WdInv, JobsFit
      <3>2. jobs[w].of \in Withdrawals
        BY <1>1, <2>4
      <3> QED BY <1>1, <2>1, <3>1, <3>2 DEF WasSeen
    <2> QED BY <2>1, <2>2, <2>3, <2>4 DEF WdInv, JobsFit
  <1>9. ASSUME NEW w \in Workers, Sync(w) PROVE WdInv'
    <2> DEFINE x == jobs[w].of
               seen == jobs[w].seen
    <2>1. /\ jobs[w] # Idle /\ psp' = psp /\ jobs' = [jobs EXCEPT ![w] = Idle]
          /\ db' = IF db.status[x] \in Undone \cup {"pending_approval"} THEN db ELSE Apply(db, x, seen)
      BY <1>9 DEF Sync
    <2>2. x \in Withdrawals /\ seen \in {"processing", "paid", "failed", "reversed"}
      BY <1>1, <2>1
    <2>3. db.status[x] # "absent" /\ WasSeen(seen, psp[x]) /\ Agrees(db.status[x], psp[x])
      BY <2>1, <2>2 DEF WdInv, JobsFit
    <2>4. db.status[x] \in Statuses
      BY <1>1, <2>2
    <2> HIDE DEF x, seen
    <2>5. CASE db.status[x] \in Undone \cup {"pending_approval"}
      <3>1. db' = db
        BY <2>1, <2>5
      <3>2. Agrees(db.status[x], psp'[x])
        BY <2>1, <2>3
      <3> QED BY <1>1, <1>3, <2>1, <2>2, <2>3, <2>4, <3>1, <3>2, StatusStep
    <2>6. CASE db.status[x] \notin Undone \cup {"pending_approval"}
      <3>1. db' = Apply(db, x, seen)
        BY <2>1, <2>6
      <3>2. db.status[x] \in {"approved", "processing", "paid"}
        BY <2>3, <2>4, <2>6 DEF Statuses, Waiting
      <3>3. seen = "failed" => db.status[x] # "paid"
        BY <2>3 DEF Agrees, WasSeen
      <3>4. Sound(db') /\ db'.status = With(db.status, x, Told(db.status[x], seen))
        BY <1>1, <2>2, <3>1, <3>2, <3>3, ApplyIsSound
      <3>5. Told(db.status[x], seen) \in Statuses /\ Told(db.status[x], seen) # "absent"
        BY <2>2, <2>4, <3>2 DEF Told, Statuses, Waiting, Undone
      <3>6. Agrees(Told(db.status[x], seen), psp'[x])
        BY <2>1, <2>2, <2>3, <3>2 DEF Agrees, WasSeen, Told
      <3> QED BY <2>1, <2>2, <3>4, <3>5, <3>6, StatusStep
    <2> QED BY <2>5, <2>6
  <1>10. ASSUME NEW w \in Workers, Abandon(w) PROVE WdInv'
    <2>1. db' = db /\ psp' = psp /\ jobs' = [jobs EXCEPT ![w] = Idle]
      BY <1>10 DEF Abandon
    <2> QED BY <1>1, <2>1 DEF WdInv, WdTypeOK, JobsFit
  <1>11. ASSUME NEW w \in Workers, NEW x \in Withdrawals, PollFetch(w, x) \/ WebhookFetch(w, x)
         PROVE  WdInv'
    <2>1. /\ db.status[x] # "absent" /\ psp[x] # "none"
          /\ jobs' = [jobs EXCEPT ![w] = [of |-> x, seen |-> psp[x]]] /\ db' = db /\ psp' = psp
      BY <1>11 DEF PollFetch, WebhookFetch, Fetch
    <2>2. psp[x] \in {"processing", "paid", "failed", "reversed"}
      BY <1>1, <2>1
    <2>3. WdTypeOK'
      BY <1>1, <2>1, <2>2 DEF WdInv, WdTypeOK
    <2>4. ASSUME NEW v \in Workers, jobs'[v] # Idle
          PROVE  db.status[jobs'[v].of] # "absent" /\ WasSeen(jobs'[v].seen, psp[jobs'[v].of])
      <3>1. CASE v = w
        <4>1. jobs'[v].of = x /\ jobs'[v].seen = psp[x]
          BY <1>1, <2>1, <3>1
        <4> QED BY <2>1, <4>1 DEF WasSeen
      <3>2. CASE v # w
        BY <1>1, <2>1, <2>4, <3>2 DEF WdInv, JobsFit
      <3> QED BY <3>1, <3>2
    <2>5. JobsFit'
      BY <2>1, <2>4 DEF JobsFit
    <2> QED BY <2>1, <2>3, <2>5 DEF WdInv
  <1>12. ASSUME NEW n \in 1 .. Fund, Spend(n) PROVE WdInv'
    <2>1. /\ <<"spend", n>> \notin DOMAIN db.books /\ Balance(db.books, "wallet") >= n
          /\ db' = Posted(db, <<"spend", n>>, "wallet", "sales", n) /\ psp' = psp /\ jobs' = jobs
      BY <1>12 DEF Spend
    <2>2. Sound(db') /\ db'.status = db.status
      BY <1>1, <2>1, SpendIsSound
    <2> QED BY <2>1, <2>2 DEF WdInv, WdTypeOK, JobsFit
  <1>13. CASE UNCHANGED wdVars
    BY <1>13 DEF wdVars, WdInv, WdTypeOK, JobsFit
  <1> QED BY <1>4, <1>5, <1>6, <1>7, <1>8, <1>9, <1>10, <1>11, <1>12, <1>13 DEF WdNext

-----------------------------------------------------------------------------
(* Theorems                                                                *)

THEOREM WdTypeAlways == WdSpec => []WdTypeOK
  <1>1. WdInv => WdTypeOK
    BY DEF WdInv
  <1> QED BY <1>1, InitIsSound, NextIsSound, PTL DEF WdSpec

\* Whatever news of its payout a withdrawal gets, and in whatever order, its
\* money is in transit, at the bank or back in the wallet, as its status says
\* (internal/withdrawal/engine.go, apply and returnFunds).
THEOREM MoneyAlwaysWhereItSays == WdSpec => []MoneyIsWhereItSays
  <1>1. WdInv => MoneyIsWhereItSays
    BY DEF WdInv, Sound, MoneyIsWhereItSays, Held, In
  <1> QED BY <1>1, InitIsSound, NextIsSound, PTL DEF WdSpec

\* What is paid, failed or reversed here is so at the provider, which no
\* worker's late news can undo (SyncFromProvider).
THEOREM OutcomesAlwaysAgree == WdSpec => []OutcomesAgree
  <1>1. WdInv => OutcomesAgree
    BY DEF WdInv, Agrees, OutcomesAgree
  <1> QED BY <1>1, InitIsSound, NextIsSound, PTL DEF WdSpec
=============================================================================
