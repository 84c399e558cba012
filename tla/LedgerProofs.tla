---------------------------- MODULE LedgerProofs ----------------------------
(***************************************************************************)
(* Proofs that the ledger keeps its promises for every chart of accounts,  *)
(* every set of journals and holds, and every amount.                      *)
(*                                                                         *)
(* The inductive invariant IInv is the conjunction of TypeOK, the fact     *)
(* that every posting belongs to a posted journal, and the invariants      *)
(* themselves: none of them needs another one to be preserved, except that *)
(* all of them need the rows of a new journal to be new.                   *)
(***************************************************************************)
EXTENDS Ledger, AmountTheorems

PostingRows == JournalIds \X Leg

PostingsAreOwned ==
    /\ IsFiniteSet(postings)
    /\ \A p \in postings : p[1] \in journals

IInv ==
    /\ TypeOK
    /\ PostingsAreOwned
    /\ BalanceIsPostings
    /\ HeldIsActiveHolds
    /\ NoOverdraft
    /\ BooksBalance
    /\ CapturesAreJournalled

-----------------------------------------------------------------------------
(* Sums of signed postings                                                 *)

LEMMA SubsetFinite ==
  ASSUME NEW S, IsFiniteSet(S), NEW T \in SUBSET S
  PROVE  IsFiniteSet(T)
BY FS_Subset

\* The sum of the amounts of finitely many posting rows is a natural number.
LEMMA MovedType ==
  ASSUME NEW R \in SUBSET PostingRows, IsFiniteSet(R)
  PROVE  Moved(R) \in Nat
<1>1. \A p \in R : [q \in R |-> q[2].amount][p] \in Nat
  BY LedgerAssumption DEF PostingRows, Leg
<1> QED BY <1>1, TotalType DEF Moved

\* The sum of the signed amounts of finitely many posting rows is an integer.
LEMMA SignedType ==
  ASSUME NEW R \in SUBSET PostingRows, IsFiniteSet(R)
  PROVE  /\ Signed(R) \in Int
         /\ Moved(Debits(R)) \in Nat
         /\ Moved(Credits(R)) \in Nat
<1>1. /\ Debits(R) \in SUBSET R
      /\ Credits(R) \in SUBSET R
  BY DEF Debits, Credits
<1>2. IsFiniteSet(Debits(R)) /\ IsFiniteSet(Credits(R))
  BY <1>1, FS_Subset
<1>3. Moved(Debits(R)) \in Nat /\ Moved(Credits(R)) \in Nat
  BY <1>1, <1>2, MovedType
<1> QED BY <1>3 DEF Signed

\* The amounts of two disjoint sets of rows add up.
LEMMA MovedUnion ==
  ASSUME NEW R \in SUBSET PostingRows, IsFiniteSet(R),
         NEW T \in SUBSET PostingRows, IsFiniteSet(T), R \cap T = {}
  PROVE  Moved(R \cup T) = Moved(R) + Moved(T)
<1> DEFINE U == R \cup T
           all == [p \in U |-> p[2].amount]
<1>1. \A p \in U : all[p] \in Nat
  BY LedgerAssumption DEF PostingRows, Leg
<1>2. Total(all, R \cup T) = Total(all, R) + Total(all, T)
  BY <1>1, TotalUnion
<1>3. Total(all, R) = Moved(R)
  <2>1. \A p \in R : all[p] = [q \in R |-> q[2].amount][p]
    OBVIOUS
  <2> QED BY <2>1, TotalCongruence DEF Moved
<1>4. Total(all, T) = Moved(T)
  <2>1. \A p \in T : all[p] = [q \in T |-> q[2].amount][p]
    OBVIOUS
  <2> QED BY <2>1, TotalCongruence DEF Moved
<1>5. Total(all, R \cup T) = Moved(R \cup T)
  BY DEF Moved
<1> QED BY <1>2, <1>3, <1>4, <1>5

\* Fewer rows move less.
LEMMA MovedFewer ==
  ASSUME NEW R \in SUBSET PostingRows, IsFiniteSet(R), NEW T \in SUBSET R
  PROVE  /\ IsFiniteSet(T) /\ Moved(T) \in Nat /\ Moved(R) \in Nat /\ Moved(T) <= Moved(R)
         /\ Cardinality(T) \in Nat /\ Cardinality(R) \in Nat /\ Cardinality(T) <= Cardinality(R)
<1> DEFINE rest == R \ T
<1>1. IsFiniteSet(T) /\ IsFiniteSet(rest) /\ T \cap rest = {} /\ T \cup rest = R
  BY FS_Subset
<1>2. T \in SUBSET PostingRows /\ rest \in SUBSET PostingRows
  OBVIOUS
<1> HIDE DEF rest
<1>3. Moved(R) = Moved(T) + Moved(rest) /\ Moved(T) \in Nat /\ Moved(rest) \in Nat
  BY <1>1, <1>2, MovedUnion, MovedType
<1>4. Cardinality(T) \in Nat /\ Cardinality(R) \in Nat /\ Cardinality(T) <= Cardinality(R)
  BY <1>1, FS_Subset, FS_CardinalityType
<1> QED BY <1>1, <1>3, <1>4

\* The contributions of two disjoint sets of rows add up.
LEMMA SignedUnion ==
  ASSUME NEW R \in SUBSET PostingRows, IsFiniteSet(R),
         NEW T \in SUBSET PostingRows, IsFiniteSet(T), R \cap T = {}
  PROVE  Signed(R \cup T) = Signed(R) + Signed(T)
<1>1. /\ Debits(R) \in SUBSET R /\ Debits(T) \in SUBSET T
      /\ Credits(R) \in SUBSET R /\ Credits(T) \in SUBSET T
  BY DEF Debits, Credits
<1>2. /\ IsFiniteSet(Debits(R)) /\ IsFiniteSet(Debits(T))
      /\ IsFiniteSet(Credits(R)) /\ IsFiniteSet(Credits(T))
  BY <1>1, FS_Subset
<1>3. /\ Debits(R) \cap Debits(T) = {}
      /\ Credits(R) \cap Credits(T) = {}
  BY <1>1
<1>4. /\ Debits(R \cup T) = Debits(R) \cup Debits(T)
      /\ Credits(R \cup T) = Credits(R) \cup Credits(T)
  BY DEF Debits, Credits
<1>5. /\ Debits(R) \in SUBSET PostingRows /\ Debits(T) \in SUBSET PostingRows
      /\ Credits(R) \in SUBSET PostingRows /\ Credits(T) \in SUBSET PostingRows
  BY <1>1
<1>6. Moved(Debits(R \cup T)) = Moved(Debits(R)) + Moved(Debits(T))
  BY <1>2, <1>3, <1>4, <1>5, MovedUnion
<1>7. Moved(Credits(R \cup T)) = Moved(Credits(R)) + Moved(Credits(T))
  BY <1>2, <1>3, <1>4, <1>5, MovedUnion
<1>8. /\ Moved(Debits(R)) \in Nat /\ Moved(Debits(T)) \in Nat
      /\ Moved(Credits(R)) \in Nat /\ Moved(Credits(T)) \in Nat
  BY SignedType
<1> QED BY <1>6, <1>7, <1>8 DEF Signed

\* No rows contribute nothing.
LEMMA SignedEmpty == Signed({}) = 0
<1>1. Debits({}) = {} /\ Credits({}) = {}
  BY DEF Debits, Credits
<1>2. Moved({}) = 0
  BY TotalEmpty DEF Moved
<1> QED BY <1>1, <1>2 DEF Signed

\* The rows of a journal some caller submits are finitely many rows.
LEMMA SubmittedRows ==
  ASSUME NEW j \in JournalIds, NEW legs \in Entries
  PROVE  /\ {j} \X legs \in SUBSET PostingRows
         /\ IsFiniteSet({j} \X legs)
         /\ \A p \in {j} \X legs : p[1] = j /\ p[2] \in legs
<1>1. legs \in SUBSET Leg /\ IsFiniteSet(legs)
  BY LedgerAssumption
<1>2. IsFiniteSet({j})
  BY FS_Singleton
<1>3. IsFiniteSet({j} \X legs)
  BY <1>1, <1>2, FS_Product
<1> QED BY <1>1, <1>3 DEF PostingRows

-----------------------------------------------------------------------------
(* Sums of holds                                                           *)

\* What a set of holds reserves on an account is a natural number.
LEMMA ReservedType ==
  ASSUME NEW hs, NEW H \in SUBSET HoldIds, \A h \in H : hs[h] \in Hold, NEW a
  PROVE  ReservedIn(hs, H, a) \in Nat
<1> DEFINE mine == {h \in H : hs[h].account = a}
<1>1. IsFiniteSet(mine)
  BY LedgerAssumption, FS_Subset
<1>2. \A h \in mine : [g \in mine |-> hs[g].amount][h] \in Nat
  BY LedgerAssumption DEF Hold
<1>3. Total([g \in mine |-> hs[g].amount], mine) \in Nat
  BY <1>1, <1>2, TotalType
<1> QED BY <1>3 DEF ReservedIn

\* Two disjoint sets of holds reserve the sum of what each reserves.
LEMMA ReservedUnion ==
  ASSUME NEW hs, NEW H \in SUBSET HoldIds, NEW G \in SUBSET HoldIds, H \cap G = {},
         \A h \in H \cup G : hs[h] \in Hold, NEW a
  PROVE  ReservedIn(hs, H \cup G, a) = ReservedIn(hs, H, a) + ReservedIn(hs, G, a)
<1> DEFINE mH == {h \in H : hs[h].account = a}
           mG == {h \in G : hs[h].account = a}
           mU == {h \in H \cup G : hs[h].account = a}
           all == [h \in mU |-> hs[h].amount]
<1>1. IsFiniteSet(mH) /\ IsFiniteSet(mG)
  BY LedgerAssumption, FS_Subset
<1>2. mU = mH \cup mG /\ mH \cap mG = {}
  OBVIOUS
<1>3. \A h \in mH \cup mG : all[h] \in Nat
  BY LedgerAssumption DEF Hold
<1>4. Total(all, mH \cup mG) = Total(all, mH) + Total(all, mG)
  <2> HIDE DEF all, mH, mG, mU
  <2> QED BY <1>1, <1>2, <1>3, TotalUnion
<1>5. Total(all, mH) = ReservedIn(hs, H, a)
  <2>1. \A h \in mH : all[h] = [g \in mH |-> hs[g].amount][h]
    OBVIOUS
  <2>2. Total(all, mH) = Total([g \in mH |-> hs[g].amount], mH)
    BY <2>1, TotalCongruence
  <2> QED BY <2>2 DEF ReservedIn
<1>6. Total(all, mG) = ReservedIn(hs, G, a)
  <2>1. \A h \in mG : all[h] = [g \in mG |-> hs[g].amount][h]
    OBVIOUS
  <2>2. Total(all, mG) = Total([g \in mG |-> hs[g].amount], mG)
    BY <2>1, TotalCongruence
  <2> QED BY <2>2 DEF ReservedIn
<1>7. Total(all, mU) = ReservedIn(hs, H \cup G, a)
  BY DEF ReservedIn
<1> HIDE DEF all, mH, mG, mU
<1> QED BY <1>2, <1>4, <1>5, <1>6, <1>7

\* What holds reserve depends only on their accounts and amounts.
LEMMA ReservedCongruence ==
  ASSUME NEW hs, NEW gs, NEW H,
         \A h \in H : hs[h].account = gs[h].account /\ hs[h].amount = gs[h].amount, NEW a
  PROVE  ReservedIn(hs, H, a) = ReservedIn(gs, H, a)
<1> DEFINE mine == {h \in H : hs[h].account = a}
<1>1. mine = {h \in H : gs[h].account = a}
  OBVIOUS
<1>2. [h \in mine |-> hs[h].amount] = [h \in mine |-> gs[h].amount]
  OBVIOUS
<1> QED BY <1>1, <1>2 DEF ReservedIn

\* One hold reserves its amount, on its own account.
LEMMA ReservedSingleton ==
  ASSUME NEW hs, NEW h, hs[h] \in Hold, NEW a
  PROVE  ReservedIn(hs, {h}, a) = IF hs[h].account = a THEN hs[h].amount ELSE 0
<1> DEFINE mine == {g \in {h} : hs[g].account = a}
           amt == [g \in mine |-> hs[g].amount]
<1>1. CASE hs[h].account = a
  <2>1. mine = {h}
    BY <1>1
  <2>2. amt[h] = hs[h].amount /\ amt[h] \in Nat
    BY <1>1, LedgerAssumption DEF Hold
  <2> HIDE DEF mine, amt
  <2>3. Total(amt, mine) = hs[h].amount
    BY <2>1, <2>2, TotalSingleton
  <2> QED BY <1>1, <2>3 DEF ReservedIn, mine, amt
<1>2. CASE hs[h].account # a
  <2>1. mine = {}
    BY <1>2
  <2> HIDE DEF mine, amt
  <2>2. Total(amt, mine) = 0
    BY <2>1, TotalEmpty
  <2> QED BY <1>2, <2>2 DEF ReservedIn, mine, amt
<1> QED BY <1>1, <1>2

-----------------------------------------------------------------------------
(* Writing a journal                                                       *)

\* The conditions under which the lemmas below look at a call of Write: the
\* rows of a submitted journal, and what it frees of each account's holds.
Writing(j, R, released) ==
    /\ TypeOK /\ PostingsAreOwned
    /\ released \in [Accounts -> Nat]
    /\ Write(j, R, released)

\* The rows of a journal that is written are new.
LEMMA WriteIsNew ==
  ASSUME NEW j \in JournalIds, NEW legs \in Entries, NEW released,
         Writing(j, {j} \X legs, released)
  PROVE  /\ postings \cap ({j} \X legs) = {}
         /\ IsFiniteSet(postings')
         /\ postings' \in SUBSET PostingRows
         /\ \A p \in postings' : p[1] \in journals'
<1> DEFINE R == {j} \X legs
<1>1. R \in SUBSET PostingRows /\ IsFiniteSet(R) /\ \A p \in R : p[1] = j
  BY SubmittedRows
<1>2. /\ j \notin journals
      /\ postings' = postings \cup R
      /\ journals' = journals \cup {j}
  BY DEF Writing, Write
<1>3. /\ postings \in SUBSET PostingRows /\ IsFiniteSet(postings)
      /\ \A p \in postings : p[1] \in journals
  BY DEF Writing, TypeOK, PostingsAreOwned, PostingRows
<1> HIDE DEF R
<1>4. postings \cap R = {}
  BY <1>1, <1>2, <1>3
<1>5. IsFiniteSet(postings')
  BY <1>1, <1>2, <1>3, FS_Union
<1> QED BY <1>1, <1>2, <1>3, <1>4, <1>5 DEF R

\* Writing a journal keeps the types of the rows and of the balances.
LEMMA WriteType ==
  ASSUME NEW j \in JournalIds, NEW legs \in Entries, NEW released,
         Writing(j, {j} \X legs, released)
  PROVE  /\ journals' \in SUBSET JournalIds
         /\ raw' \in [Accounts -> Int]
         /\ held' \in [Accounts -> Int]
<1> DEFINE R == {j} \X legs
<1>1. R \in SUBSET PostingRows /\ IsFiniteSet(R)
  BY SubmittedRows
<1>2. \A a \in Accounts : Signed(On(R, a)) \in Int
  <2> SUFFICES ASSUME NEW a \in Accounts PROVE Signed(On(R, a)) \in Int
    OBVIOUS
  <2>1. On(R, a) \in SUBSET R
    BY DEF On
  <2>2. IsFiniteSet(On(R, a))
    BY <1>1, <2>1, FS_Subset
  <2> QED BY <1>1, <2>1, <2>2, SignedType
<1>3. /\ raw \in [Accounts -> Int] /\ held \in [Accounts -> Int]
      /\ journals \in SUBSET JournalIds
      /\ released \in [Accounts -> Nat]
  BY DEF Writing, TypeOK
<1>4. /\ journals' = journals \cup {j}
      /\ raw' = [a \in Accounts |-> raw[a] + Signed(On(R, a))]
      /\ held' = [a \in Accounts |-> held[a] - released[a]]
  BY DEF Writing, Write
<1> HIDE DEF R
<1>5. raw' \in [Accounts -> Int]
  BY <1>2, <1>3, <1>4
<1>6. held' \in [Accounts -> Int]
  BY <1>3, <1>4
<1> QED BY <1>3, <1>4, <1>5, <1>6

\* Writing a journal keeps each balance equal to the sum of its postings.
LEMMA WriteBalance ==
  ASSUME NEW j \in JournalIds, NEW legs \in Entries, NEW released,
         Writing(j, {j} \X legs, released), BalanceIsPostings
  PROVE  BalanceIsPostings'
<1> DEFINE R == {j} \X legs
<1>1. R \in SUBSET PostingRows /\ IsFiniteSet(R)
  BY SubmittedRows
<1>2. postings \in SUBSET PostingRows /\ IsFiniteSet(postings) /\ postings \cap R = {}
  BY WriteIsNew DEF Writing, TypeOK, PostingsAreOwned, PostingRows
<1>3. /\ postings' = postings \cup R
      /\ raw' = [a \in Accounts |-> raw[a] + Signed(On(R, a))]
  BY DEF Writing, Write
<1> HIDE DEF R
<1> SUFFICES ASSUME NEW a \in Accounts
             PROVE  raw'[a] = Signed(On(postings', a))
  BY DEF BalanceIsPostings, Signed, On, Moved, Debits, Credits
<1>4. /\ On(postings, a) \in SUBSET postings /\ On(R, a) \in SUBSET R
      /\ On(postings \cup R, a) = On(postings, a) \cup On(R, a)
  BY DEF On
<1>5. IsFiniteSet(On(postings, a)) /\ IsFiniteSet(On(R, a))
  BY <1>1, <1>2, <1>4, FS_Subset
<1>6. On(postings, a) \cap On(R, a) = {}
  BY <1>2, <1>4
<1>7. Signed(On(postings, a) \cup On(R, a)) = Signed(On(postings, a)) + Signed(On(R, a))
  BY <1>1, <1>2, <1>4, <1>5, <1>6, SignedUnion
<1>8. raw[a] = Signed(On(postings, a))
  BY DEF BalanceIsPostings
<1> QED BY <1>3, <1>4, <1>7, <1>8

\* Writing a journal, balanced in every currency and with each leg in its
\* account's currency, keeps the books balanced.
LEMMA WriteBooks ==
  ASSUME NEW j \in JournalIds, NEW legs \in Entries, NEW released,
         Writing(j, {j} \X legs, released), BooksBalance
  PROVE  BooksBalance'
<1> DEFINE R == {j} \X legs
           In(S, c) == {p \in S : Denomination[p[2].account] = c}
<1>1. R \in SUBSET PostingRows /\ IsFiniteSet(R)
  BY SubmittedRows
<1>2. postings \in SUBSET PostingRows /\ IsFiniteSet(postings) /\ postings \cap R = {}
  BY WriteIsNew DEF Writing, TypeOK, PostingsAreOwned, PostingRows
<1>3. postings' = postings \cup R
  BY DEF Writing, Write
<1>4. \A p \in R : p[2].currency = Denomination[p[2].account]
  BY DEF Writing, Write, CanWrite
<1>5. \A c \in Currencies : Signed(InCurrency(R, c)) = 0
  BY DEF Writing, Write, ValidJournal
<1> HIDE DEF R
<1> SUFFICES ASSUME NEW c \in Currencies PROVE Signed(In(postings', c)) = 0
  BY DEF BooksBalance, Signed, Moved, Debits, Credits
<1>6. In(R, c) = InCurrency(R, c)
  BY <1>4 DEF InCurrency
<1>7. /\ In(postings, c) \in SUBSET postings /\ In(R, c) \in SUBSET R
      /\ In(postings', c) = In(postings, c) \cup In(R, c)
  BY <1>3
<1>8. Signed(In(postings, c)) = 0
  BY DEF BooksBalance
<1> HIDE DEF In
<1>9. IsFiniteSet(In(postings, c)) /\ IsFiniteSet(In(R, c))
  BY <1>1, <1>2, <1>7, FS_Subset
<1>10. In(postings, c) \cap In(R, c) = {}
  BY <1>2, <1>7
<1>11. Signed(In(postings, c) \cup In(R, c)) = Signed(In(postings, c)) + Signed(In(R, c))
  BY <1>1, <1>2, <1>7, <1>9, <1>10, SignedUnion
<1>12. Signed(InCurrency(R, c)) = 0
  BY <1>5
<1> QED BY <1>6, <1>7, <1>8, <1>11, <1>12

\* PostingRows that only raise an account's natural balance contribute no less than
\* nothing to it.
LEMMA RaisingRows ==
  ASSUME NEW R \in SUBSET PostingRows, IsFiniteSet(R), NEW sign \in {1, -1},
         \A p \in R : p[2].direction # (IF sign = 1 THEN "credit" ELSE "debit")
  PROVE  sign * Signed(R) >= 0
<1>1. /\ Signed(R) \in Int
      /\ Moved(Debits(R)) \in Nat /\ Moved(Credits(R)) \in Nat
  BY SignedType
<1>2. Moved({}) = 0
  BY TotalEmpty DEF Moved
<1>3. CASE sign = 1
  <2>1. Credits(R) = {}
    BY <1>3 DEF Credits
  <2> QED BY <1>1, <1>2, <1>3, <2>1 DEF Signed
<1>4. CASE sign = -1
  <2>1. Debits(R) = {}
    BY <1>4 DEF Debits
  <2> QED BY <1>1, <1>2, <1>4, <2>1 DEF Signed
<1> QED BY <1>3, <1>4

\* Writing a journal leaves every account without overdraft with at least
\* what its remaining holds reserve.  The last leg that reduces the account
\* was checked, and the legs after it only raise the balance.
LEMMA WriteOverdraft ==
  ASSUME NEW j \in JournalIds, NEW legs \in Entries, NEW released,
         Writing(j, {j} \X legs, released), NoOverdraft
  PROVE  NoOverdraft'
<1> DEFINE R == {j} \X legs
<1>1. R \in SUBSET PostingRows /\ IsFiniteSet(R)
  BY SubmittedRows
<1> SUFFICES ASSUME NEW a \in Accounts, ~ AllowNegative[a]
             PROVE  NormalSign[a] * raw'[a] - held'[a] >= 0
  BY DEF NoOverdraft, Available, AvailableOf
<1> DEFINE sign == NormalSign[a]
           RA == On(R, a)
           lowers(p) == p[2].direction = (IF sign = 1 THEN "credit" ELSE "debit")
           lowering == {p \in RA : lowers(p)}
           kept == held[a] - released[a]
<1>2. /\ sign \in {1, -1} /\ raw[a] \in Int /\ held[a] \in Int
      /\ released[a] \in Nat /\ kept \in Int
  BY LedgerAssumption DEF Writing, TypeOK
<1>3. raw'[a] = raw[a] + Signed(RA) /\ held'[a] = kept
  BY DEF Writing, Write
<1>4. sign * raw[a] - held[a] >= 0
  BY DEF NoOverdraft, Available, AvailableOf
<1>5. RA \in SUBSET R
  BY DEF On
<1>6. RA \in SUBSET PostingRows /\ IsFiniteSet(RA)
  BY <1>1, <1>5, FS_Subset
<1>7. Signed(RA) \in Int
  BY <1>6, SignedType
<1>8. CASE lowering = {}
  <2>1. \A p \in RA : p[2].direction # (IF sign = 1 THEN "credit" ELSE "debit")
    BY <1>8
  <2>2. sign * Signed(RA) >= 0
    <3> HIDE DEF RA, sign
    <3> QED BY <1>2, <1>6, <2>1, RaisingRows
  <2> HIDE DEF RA, sign, kept, lowering
  <2>3. sign * raw'[a] - held[a] >= 0
    BY <1>2, <1>3, <1>4, <1>7, <2>2
  <2>4. held'[a] <= held[a]
    BY <1>2, <1>3 DEF kept
  <2>5. raw'[a] \in Int /\ held'[a] \in Int
    BY <1>2, <1>3, <1>7
  <2>6. sign * raw'[a] - held'[a] >= 0
    BY <1>2, <2>3, <2>4, <2>5
  <2> QED BY <2>6 DEF sign
<1>9. CASE lowering # {}
  <2> DEFINE seqs == {p[2].seq : p \in lowering}
  <2>1. seqs \in SUBSET (1 .. MaxLegs) /\ seqs # {}
    <3>1. \A q \in RA : q[2].seq \in 1 .. MaxLegs
      <4> HIDE DEF RA
      <4> QED BY <1>6 DEF PostingRows, Leg
    <3>2. \A q \in lowering : q \in RA
      OBVIOUS
    <3> HIDE DEF RA, lowering
    <3>3. \A k \in seqs : k \in 1 .. MaxLegs
      BY <3>1, <3>2
    <3>4. seqs # {}
      BY <1>9
    <3> HIDE DEF seqs
    <3> QED BY <3>3, <3>4
  <2>2. PICK m \in seqs : \A k \in seqs : k <= m
    <3> HIDE DEF seqs
    <3> QED BY <2>1, LedgerAssumption, GreatestNumber
  <2>3. PICK p \in lowering : p[2].seq = m
    OBVIOUS
  <2> DEFINE early == UpTo(RA, m)
             late == {q \in RA : ~ (q[2].seq <= m)}
  <2>4. /\ early \in SUBSET RA /\ late \in SUBSET RA
        /\ RA = early \cup late /\ early \cap late = {}
    BY DEF UpTo
  <2>5. sign * (raw[a] + Signed(early)) - kept >= 0
    <3>1. p \in R /\ p[2].account = a /\ lowers(p)
      BY <1>5 DEF On
    <3>2. CanWrite(raw, R, [b \in Accounts |-> held[b] - released[b]])
      BY DEF Writing, Write
    <3> HIDE DEF R
    <3>3. NormalSign[a] * (raw[a] + Signed(UpTo(On(R, a), p[2].seq)))
            - [b \in Accounts |-> held[b] - released[b]][a] >= 0
      BY <3>1, <3>2 DEF CanWrite, AvailableOf
    <3>4. [b \in Accounts |-> held[b] - released[b]][a] = kept
      OBVIOUS
    <3> QED BY <2>3, <3>3, <3>4
  <2>6. early \in SUBSET PostingRows /\ late \in SUBSET PostingRows
    BY <1>6, <2>4
  <2>7. IsFiniteSet(early) /\ IsFiniteSet(late)
    BY <1>6, <2>4, FS_Subset
  <2>8. \A q \in late : q \notin lowering
    <3> SUFFICES ASSUME NEW q \in late, q \in lowering PROVE FALSE
      OBVIOUS
    <3>1. q[2].seq \in seqs /\ ~ (q[2].seq <= m)
      OBVIOUS
    <3> QED BY <2>2, <3>1
  <2>9. \A q \in late : ~ lowers(q)
    BY <2>4, <2>8
  <2>10. sign * Signed(late) >= 0
    <3>1. \A q \in late : q[2].direction # (IF sign = 1 THEN "credit" ELSE "debit")
      BY <2>9
    <3> HIDE DEF late, sign
    <3> QED BY <1>2, <2>6, <2>7, <3>1, RaisingRows
  <2> HIDE DEF early, late
  <2>11. Signed(RA) = Signed(early) + Signed(late)
    <3>1. Signed(early \cup late) = Signed(early) + Signed(late)
      BY <2>4, <2>6, <2>7, SignedUnion
    <3> QED BY <2>4, <3>1
  <2>12. Signed(early) \in Int /\ Signed(late) \in Int
    BY <2>6, <2>7, SignedType
  <2> HIDE DEF sign, kept, RA, lowering, seqs
  <2>13. raw'[a] = raw[a] + Signed(early) + Signed(late)
    BY <1>2, <1>3, <2>11, <2>12
  <2>14. sign * raw'[a] - kept >= 0
    <3> DEFINE e == Signed(early)  l == Signed(late)
    <3>1. e \in Int /\ l \in Int
      BY <2>12
    <3>2. sign * (raw[a] + e) - kept >= 0 /\ sign * l >= 0 /\ raw'[a] = raw[a] + e + l
      BY <2>5, <2>10, <2>13
    <3> HIDE DEF e, l
    <3>3. CASE sign = 1
      BY <1>2, <3>1, <3>2, <3>3
    <3>4. CASE sign = -1
      BY <1>2, <3>1, <3>2, <3>4
    <3> QED BY <1>2, <3>3, <3>4
  <2> QED BY <1>3, <2>14 DEF sign
<1> QED BY <1>8, <1>9

\* Writing a journal adds no posting to a journal posted before it.
LEMMA WriteKeepsJournals ==
  ASSUME NEW j \in JournalIds, NEW legs \in Entries, NEW released,
         Writing(j, {j} \X legs, released)
  PROVE  /\ \A k \in journals : k \in journals' /\ {p \in postings' : p[1] = k} = {p \in postings : p[1] = k}
         /\ j \in journals' /\ {p \in postings' : p[1] = j} = {j} \X legs
<1> DEFINE R == {j} \X legs
<1>1. \A p \in R : p[1] = j
  BY SubmittedRows
<1>2. /\ j \notin journals
      /\ postings' = postings \cup R
      /\ journals' = journals \cup {j}
  BY DEF Writing, Write
<1>3. \A p \in postings : p[1] \in journals
  BY DEF Writing, PostingsAreOwned
<1> HIDE DEF R
<1>4. \A k \in journals : {p \in postings' : p[1] = k} = {p \in postings : p[1] = k}
  BY <1>1, <1>2
<1>5. {p \in postings' : p[1] = j} = R
  BY <1>1, <1>2, <1>3
<1> QED BY <1>2, <1>4, <1>5 DEF R

-----------------------------------------------------------------------------
(* Every step preserves the invariant                                      *)

\* A captured hold's journal stays what it was when a journal is written.
LEMMA WriteCaptures ==
  ASSUME NEW j \in JournalIds, NEW legs \in Entries, NEW released,
         Writing(j, {j} \X legs, released), CapturesAreJournalled,
         NEW h \in HoldIds, holds'[h] = holds[h]
  PROVE  /\ holds'[h].status = "captured" =>
                /\ holds'[h].journal \in journals'
                /\ holds'[h].taken \in 1 .. holds'[h].amount
                /\ holds'[h].taken =
                     TakenFrom({p \in postings' : p[1] = holds'[h].journal}, holds'[h].account)
         /\ holds'[h].status \in {"active", "released", "expired"} =>
                holds'[h].journal = NoJournal
<1>1. \A k \in journals : k \in journals' /\ {p \in postings' : p[1] = k} = {p \in postings : p[1] = k}
  BY WriteKeepsJournals
<1>2. CASE holds[h].status = "captured"
  <2>1. holds[h].journal \in journals
    BY <1>2 DEF CapturesAreJournalled
  <2>2. {p \in postings' : p[1] = holds[h].journal} = {p \in postings : p[1] = holds[h].journal}
    BY <1>1, <2>1
  <2> QED BY <1>1, <1>2, <2>1, <2>2 DEF CapturesAreJournalled
<1>3. CASE holds[h].status # "captured"
  BY <1>3 DEF CapturesAreJournalled
<1> QED BY <1>2, <1>3

\* Posting a journal preserves the invariant.
LEMMA PostStep ==
  ASSUME IInv, NEW j \in JournalIds, NEW legs \in Entries, PostJournal(j, legs)
  PROVE  IInv'
<1> DEFINE released == [a \in Accounts |-> 0]
<1>1. Writing(j, {j} \X legs, released)
  BY DEF IInv, PostJournal, Writing
<1>2. holds' = holds
  BY DEF PostJournal
<1>3. held' = held
  <2>1. held' = [a \in Accounts |-> held[a] - 0] /\ held \in [Accounts -> Int]
    BY DEF PostJournal, Write, IInv, TypeOK
  <2> QED BY <2>1
<1> HIDE DEF released
<1>4. TypeOK'
  <2>1. postings' \in SUBSET (JournalIds \X Leg)
    BY <1>1, WriteIsNew DEF PostingRows
  <2> QED BY <1>1, <1>2, <2>1, WriteType DEF TypeOK, IInv
<1>5. PostingsAreOwned'
  BY <1>1, WriteIsNew DEF PostingsAreOwned
<1>6. BalanceIsPostings'
  BY <1>1, WriteBalance DEF IInv
<1>7. HeldIsActiveHolds'
  BY <1>2, <1>3 DEF IInv, HeldIsActiveHolds, Reserved, ActiveIn
<1>8. NoOverdraft'
  BY <1>1, WriteOverdraft DEF IInv
<1>9. BooksBalance'
  BY <1>1, WriteBooks DEF IInv
<1>10. CapturesAreJournalled'
  <2>1. \A h \in HoldIds : holds'[h] = holds[h]
    BY <1>2
  <2> SUFFICES ASSUME NEW h \in HoldIds
      PROVE  /\ holds'[h].status = "captured" =>
                /\ holds'[h].journal \in journals'
                /\ holds'[h].taken \in 1 .. holds'[h].amount
                /\ holds'[h].taken =
                     TakenFrom({p \in postings' : p[1] = holds'[h].journal}, holds'[h].account)
             /\ holds'[h].status \in {"active", "released", "expired"} =>
                holds'[h].journal = NoJournal
    BY DEF CapturesAreJournalled, TakenFrom, Signed, On, Moved, Debits, Credits
  <2> QED BY <1>1, <2>1, WriteCaptures DEF IInv
<1> QED BY <1>4, <1>5, <1>6, <1>7, <1>8, <1>9, <1>10 DEF IInv

\* Capturing holds preserves the invariant.
LEMMA CaptureStep ==
  ASSUME IInv, NEW H \in SUBSET HoldIds, NEW j \in JournalIds, NEW legs \in Entries,
         CaptureHolds(H, j, legs)
  PROVE  IInv'
<1> DEFINE released == [a \in Accounts |-> Reserved(H, a)]
           R == {j} \X legs
           captured(h) == [holds[h] EXCEPT !.status = "captured", !.journal = j,
                                           !.taken = TakenFrom(R, holds[h].account)]
<1>1. \A h \in HoldIds : holds[h] \in Hold \cup {NoHold}
  BY DEF IInv, TypeOK
<1>2. \A h \in H : /\ holds[h].status = "active"
                   /\ holds[h] \in Hold
                   /\ TakenFrom(R, holds[h].account) \in 1 .. holds[h].amount
  <2> HIDE DEF R
  <2>1. \A h \in H : holds[h].status = "active" /\ TakenFrom(R, holds[h].account) \in 1 .. holds[h].amount
    BY DEF CaptureHolds, R
  <2>2. NoHold.status # "active"
    BY DEF NoHold
  <2> QED BY <1>1, <2>1, <2>2
<1>3. \A a \in Accounts : Reserved(H, a) \in Nat
  BY <1>2, ReservedType DEF Reserved
<1>4. released \in [Accounts -> Nat]
  BY <1>3
<1>5. Writing(j, R, released)
  BY <1>4 DEF IInv, CaptureHolds, Writing
<1>6. held' = [a \in Accounts |-> held[a] - Reserved(H, a)]
  BY DEF CaptureHolds, Write
<1>7. holds' = [h \in HoldIds |-> IF h \in H THEN captured(h) ELSE holds[h]]
  BY DEF CaptureHolds
<1>8. \A h \in H : /\ holds'[h] \in Hold
                   /\ holds'[h].status = "captured"
                   /\ holds'[h].account = holds[h].account
                   /\ holds'[h].amount = holds[h].amount
                   /\ holds'[h].journal = j
                   /\ holds'[h].taken = TakenFrom(R, holds[h].account)
  <2> SUFFICES ASSUME NEW h \in H
               PROVE  /\ holds'[h] \in Hold
                      /\ holds'[h].status = "captured"
                      /\ holds'[h].account = holds[h].account
                      /\ holds'[h].amount = holds[h].amount
                      /\ holds'[h].journal = j
                      /\ holds'[h].taken = TakenFrom(R, holds[h].account)
    OBVIOUS
  <2> DEFINE t == TakenFrom(R, holds[h].account)
  <2>1. t \in 0 .. MaxAmount
    <3>1. t \in 1 .. holds[h].amount /\ holds[h].amount \in 1 .. MaxAmount
      BY <1>2 DEF Hold
    <3> HIDE DEF t
    <3> QED BY <3>1, LedgerAssumption
  <2>2. holds'[h] = [holds[h] EXCEPT !.status = "captured", !.journal = j, !.taken = t]
    BY <1>7
  <2> HIDE DEF t, R
  <2>3. holds[h] \in Hold
    BY <1>2
  <2>4. /\ holds'[h] \in Hold
        /\ holds'[h].status = "captured"
        /\ holds'[h].account = holds[h].account
        /\ holds'[h].amount = holds[h].amount
        /\ holds'[h].journal = j
        /\ holds'[h].taken = t
    BY <2>1, <2>2, <2>3 DEF Hold
  <2> QED BY <2>4 DEF t, R
<1>9. \A h \in HoldIds \ H : holds'[h] = holds[h]
  BY <1>7
<1> HIDE DEF released, R
<1>10. TypeOK'
  <2>1. postings' \in SUBSET (JournalIds \X Leg)
    BY <1>5, WriteIsNew DEF PostingRows, R
  <2>2. \A h \in HoldIds : holds'[h] \in Hold \cup {NoHold}
    BY <1>1, <1>8, <1>9
  <2>3. holds' \in [HoldIds -> Hold \cup {NoHold}]
    BY <1>7, <2>2
  <2>4. /\ journals' \in SUBSET JournalIds
        /\ raw' \in [Accounts -> Int]
        /\ held' \in [Accounts -> Int]
    BY <1>5, WriteType DEF R
  <2> QED BY <2>1, <2>3, <2>4 DEF TypeOK
<1>11. PostingsAreOwned'
  BY <1>5, WriteIsNew DEF PostingsAreOwned, R
<1>12. BalanceIsPostings'
  BY <1>5, WriteBalance DEF IInv, R
<1>13. HeldIsActiveHolds'
  <2> DEFINE rest == ActiveIn(holds) \ H
  <2>1. ActiveIn(holds') = rest
    BY <1>8, <1>9 DEF ActiveIn
  <2>2. ActiveIn(holds) = rest \cup H
    BY <1>2 DEF ActiveIn
  <2>3. rest \cap H = {} /\ rest \in SUBSET HoldIds
    BY DEF ActiveIn
  <2>4. \A h \in rest \cup H : holds[h] \in Hold
    BY <1>1, <2>2 DEF ActiveIn, NoHold
  <2>5. \A h \in rest : holds'[h].account = holds[h].account /\ holds'[h].amount = holds[h].amount
    BY <1>9, <2>3
  <2> HIDE DEF rest
  <2> SUFFICES ASSUME NEW a \in Accounts
               PROVE  held'[a] = ReservedIn(holds', ActiveIn(holds'), a)
    BY DEF HeldIsActiveHolds, Reserved, ReservedIn, ActiveIn
  <2>6. held[a] = ReservedIn(holds, rest \cup H, a)
    BY <2>2 DEF IInv, HeldIsActiveHolds, Reserved
  <2>7. ReservedIn(holds, rest \cup H, a) = ReservedIn(holds, rest, a) + ReservedIn(holds, H, a)
    BY <2>3, <2>4, ReservedUnion
  <2>8. ReservedIn(holds, rest, a) \in Nat /\ ReservedIn(holds, H, a) \in Nat
    BY <2>3, <2>4, ReservedType
  <2>9. ReservedIn(holds', rest, a) = ReservedIn(holds, rest, a)
    BY <2>5, ReservedCongruence
  <2>10. held'[a] = held[a] - ReservedIn(holds, H, a)
    BY <1>6 DEF Reserved
  <2> QED BY <2>1, <2>6, <2>7, <2>8, <2>9, <2>10
<1>14. NoOverdraft'
  BY <1>5, WriteOverdraft DEF IInv, R
<1>15. BooksBalance'
  BY <1>5, WriteBooks DEF IInv, R
<1>16. CapturesAreJournalled'
  <2> SUFFICES ASSUME NEW h \in HoldIds
      PROVE  /\ holds'[h].status = "captured" =>
                /\ holds'[h].journal \in journals'
                /\ holds'[h].taken \in 1 .. holds'[h].amount
                /\ holds'[h].taken =
                     TakenFrom({p \in postings' : p[1] = holds'[h].journal}, holds'[h].account)
             /\ holds'[h].status \in {"active", "released", "expired"} =>
                holds'[h].journal = NoJournal
    BY DEF CapturesAreJournalled, TakenFrom, Signed, On, Moved, Debits, Credits
  <2>1. CASE h \notin H
    <3>1. holds'[h] = holds[h]
      BY <1>9, <2>1
    <3> QED BY <1>5, <3>1, WriteCaptures DEF IInv, R
  <2>2. CASE h \in H
    <3>1. j \in journals' /\ {p \in postings' : p[1] = j} = R
      BY <1>5, WriteKeepsJournals DEF R
    <3>2. TakenFrom(R, holds[h].account) = - NormalSign[holds[h].account] * Signed(On(R, holds[h].account))
      BY DEF TakenFrom
    <3> QED BY <1>2, <1>8, <2>2, <3>1, <3>2
  <2> QED BY <2>1, <2>2
<1> QED BY <1>10, <1>11, <1>12, <1>13, <1>14, <1>15, <1>16 DEF IInv

\* A step that writes no journal keeps what concerns only journals.
LEMMA NoJournalStep ==
  ASSUME IInv, UNCHANGED <<journals, postings, raw>>
  PROVE  PostingsAreOwned' /\ BalanceIsPostings' /\ BooksBalance'
<1>1. journals' = journals /\ postings' = postings /\ raw' = raw
  OBVIOUS
<1> QED BY <1>1 DEF IInv, PostingsAreOwned, BalanceIsPostings, BooksBalance, Signed, On,
                    Moved, Debits, Credits

\* A step that writes no journal and captures no hold keeps captures as they
\* are: the other holds it leaves alone, the one it changes names no journal.
LEMMA NoCaptureStep ==
  ASSUME IInv, UNCHANGED <<journals, postings, raw>>,
         \A g \in HoldIds : \/ holds'[g] = holds[g]
                            \/ /\ holds'[g].status \in {"active", "released", "expired"}
                               /\ holds'[g].journal = NoJournal
  PROVE  CapturesAreJournalled'
<1>1. journals' = journals /\ postings' = postings
  OBVIOUS
<1> SUFFICES ASSUME NEW h \in HoldIds
    PROVE  /\ holds'[h].status = "captured" =>
              /\ holds'[h].journal \in journals'
              /\ holds'[h].taken \in 1 .. holds'[h].amount
              /\ holds'[h].taken =
                   TakenFrom({p \in postings' : p[1] = holds'[h].journal}, holds'[h].account)
           /\ holds'[h].status \in {"active", "released", "expired"} =>
              holds'[h].journal = NoJournal
  BY DEF CapturesAreJournalled, TakenFrom, Signed, On, Moved, Debits, Credits
<1>2. CASE holds'[h] = holds[h]
  BY <1>1, <1>2 DEF IInv, CapturesAreJournalled
<1>3. CASE /\ holds'[h].status \in {"active", "released", "expired"}
           /\ holds'[h].journal = NoJournal
  BY <1>3
<1> QED BY <1>2, <1>3

\* Placing a hold preserves the invariant.
LEMMA PlaceStep ==
  ASSUME IInv, NEW h \in HoldIds, NEW a \in Accounts, NEW n \in 1 .. MaxAmount,
         PlaceHold(h, a, n)
  PROVE  IInv'
<1> DEFINE placed == [status |-> "active", account |-> a, amount |-> n,
                      due |-> FALSE, journal |-> NoJournal, taken |-> 0]
<1>1. /\ holds[h] = NoHold
      /\ ~ AllowNegative[a] => Available(a) >= n
      /\ holds' = [holds EXCEPT ![h] = placed]
      /\ held' = [held EXCEPT ![a] = held[a] + n]
      /\ UNCHANGED <<journals, postings, raw>>
  BY DEF PlaceHold
<1>2. /\ holds \in [HoldIds -> Hold \cup {NoHold}]
      /\ held \in [Accounts -> Int] /\ raw \in [Accounts -> Int]
      /\ n \in Nat
  BY LedgerAssumption DEF IInv, TypeOK
<1>3. placed \in Hold
  BY LedgerAssumption DEF Hold
<1>4. placed.status = "active" /\ placed.journal = NoJournal
      /\ placed.account = a /\ placed.amount = n
  OBVIOUS
<1> HIDE DEF placed
<1>5. holds'[h] = placed /\ \A g \in HoldIds \ {h} : holds'[g] = holds[g]
  BY <1>1, <1>2
<1>6. TypeOK'
  BY <1>1, <1>2, <1>3 DEF IInv, TypeOK
<1>7. PostingsAreOwned' /\ BalanceIsPostings' /\ BooksBalance'
  BY <1>1, NoJournalStep
<1>8. HeldIsActiveHolds'
  <2> DEFINE before == ActiveIn(holds)
  <2>1. ActiveIn(holds') = before \cup {h} /\ before \cap {h} = {}
    BY <1>1, <1>4, <1>5 DEF ActiveIn, NoHold
  <2>2. before \in SUBSET HoldIds /\ before \in SUBSET (HoldIds \ {h})
    BY <2>1 DEF ActiveIn
  <2>3. \A g \in before : holds[g] \in Hold
    BY <1>2 DEF ActiveIn, NoHold
  <2> HIDE DEF before
  <2>4. \A g \in before \cup {h} : holds'[g] \in Hold
    BY <1>3, <1>5, <2>2, <2>3
  <2> SUFFICES ASSUME NEW b \in Accounts
               PROVE  held'[b] = ReservedIn(holds', ActiveIn(holds'), b)
    BY DEF HeldIsActiveHolds, Reserved, ReservedIn, ActiveIn
  <2>5. held[b] = ReservedIn(holds, before, b)
    BY DEF IInv, HeldIsActiveHolds, Reserved, before
  <2>6. ReservedIn(holds', before \cup {h}, b) = ReservedIn(holds', before, b) + ReservedIn(holds', {h}, b)
    BY <2>1, <2>2, <2>4, ReservedUnion
  <2>7. \A g \in before : holds'[g] = holds[g]
    BY <1>5, <2>2
  <2>8. ReservedIn(holds', before, b) = ReservedIn(holds, before, b)
    BY <2>7, ReservedCongruence
  <2>9. ReservedIn(holds', {h}, b) = IF a = b THEN n ELSE 0
    BY <1>3, <1>4, <1>5, ReservedSingleton
  <2>10. held'[b] = IF a = b THEN held[b] + n ELSE held[b]
    BY <1>1, <1>2
  <2>11. ReservedIn(holds, before, b) \in Nat
    BY <2>2, <2>3, ReservedType
  <2> QED BY <1>2, <2>1, <2>5, <2>6, <2>8, <2>9, <2>10, <2>11
<1>9. NoOverdraft'
  <2> SUFFICES ASSUME NEW b \in Accounts, ~ AllowNegative[b]
               PROVE  NormalSign[b] * raw'[b] - held'[b] >= 0
    BY DEF NoOverdraft, Available, AvailableOf
  <2>1. NormalSign[b] * raw[b] - held[b] >= 0
    BY DEF IInv, NoOverdraft, Available, AvailableOf
  <2>2. CASE a = b
    <3>1. NormalSign[b] * raw[b] - held[b] >= n
      BY <1>1, <2>2 DEF Available, AvailableOf
    <3>2. held'[b] = held[b] + n /\ raw'[b] = raw[b]
      BY <1>1, <1>2, <2>2
    <3>3. NormalSign[b] \in {1, -1} /\ raw[b] \in Int /\ held[b] \in Int
      BY <1>2, LedgerAssumption
    <3> QED BY <1>2, <3>1, <3>2, <3>3
  <2>3. CASE a # b
    <3>1. held'[b] = held[b] /\ raw'[b] = raw[b]
      BY <1>1, <1>2, <2>3
    <3> QED BY <2>1, <3>1
  <2> QED BY <2>2, <2>3
<1>10. CapturesAreJournalled'
  BY <1>1, <1>4, <1>5, NoCaptureStep
<1> QED BY <1>6, <1>7, <1>8, <1>9, <1>10 DEF IInv

\* Releasing or expiring a hold preserves the invariant.
LEMMA ResolveStep ==
  ASSUME IInv, NEW h \in HoldIds, NEW to \in {"released", "expired"}, ResolveHold(h, to)
  PROVE  IInv'
<1> DEFINE a == holds[h].account
           n == holds[h].amount
<1>1. /\ holds[h].status = "active"
      /\ held' = [held EXCEPT ![a] = held[a] - n]
      /\ holds' = [holds EXCEPT ![h].status = to]
      /\ UNCHANGED <<journals, postings, raw>>
  BY DEF ResolveHold
<1>2. /\ holds \in [HoldIds -> Hold \cup {NoHold}]
      /\ held \in [Accounts -> Int] /\ raw \in [Accounts -> Int]
  BY DEF IInv, TypeOK
<1>3. holds[h] \in Hold
  BY <1>1, <1>2 DEF NoHold
<1>4. a \in Accounts /\ n \in Nat
  BY <1>3, LedgerAssumption DEF Hold
<1>5. /\ holds'[h] \in Hold /\ holds'[h].status = to
      /\ holds'[h].journal = holds[h].journal
      /\ \A g \in HoldIds \ {h} : holds'[g] = holds[g]
  BY <1>1, <1>2, <1>3 DEF Hold
<1>6. holds[h].journal = NoJournal
  BY <1>1 DEF IInv, CapturesAreJournalled
<1> HIDE DEF a, n
<1>7. TypeOK'
  <2>1. holds' \in [HoldIds -> Hold \cup {NoHold}]
    BY <1>1, <1>2, <1>5
  <2> QED BY <1>1, <1>2, <1>4, <2>1 DEF IInv, TypeOK
<1>8. PostingsAreOwned' /\ BalanceIsPostings' /\ BooksBalance'
  BY <1>1, NoJournalStep
<1>9. HeldIsActiveHolds'
  <2> DEFINE rest == ActiveIn(holds) \ {h}
  <2>1. ActiveIn(holds') = rest /\ ActiveIn(holds) = rest \cup {h}
    BY <1>1, <1>5 DEF ActiveIn
  <2>2. rest \in SUBSET HoldIds /\ rest \cap {h} = {}
    BY DEF ActiveIn
  <2>3. \A g \in rest \cup {h} : holds[g] \in Hold
    BY <1>2, <1>3 DEF ActiveIn, NoHold
  <2>4. \A g \in rest : holds'[g] = holds[g]
    BY <1>5, <2>2
  <2> HIDE DEF rest
  <2> SUFFICES ASSUME NEW b \in Accounts
               PROVE  held'[b] = ReservedIn(holds', ActiveIn(holds'), b)
    BY DEF HeldIsActiveHolds, Reserved, ReservedIn, ActiveIn
  <2>5. held[b] = ReservedIn(holds, rest \cup {h}, b)
    BY <2>1 DEF IInv, HeldIsActiveHolds, Reserved
  <2>6. ReservedIn(holds, rest \cup {h}, b) = ReservedIn(holds, rest, b) + ReservedIn(holds, {h}, b)
    BY <2>2, <2>3, ReservedUnion
  <2>7. ReservedIn(holds', rest, b) = ReservedIn(holds, rest, b)
    BY <2>4, ReservedCongruence
  <2>8. ReservedIn(holds, {h}, b) = IF a = b THEN n ELSE 0
    BY <1>3, ReservedSingleton DEF a, n
  <2>9. held'[b] = IF a = b THEN held[b] - n ELSE held[b]
    BY <1>1, <1>2
  <2>10. ReservedIn(holds, rest, b) \in Nat
    BY <2>2, <2>3, ReservedType
  <2> QED BY <1>4, <2>1, <2>5, <2>6, <2>7, <2>8, <2>9, <2>10
<1>10. NoOverdraft'
  <2> SUFFICES ASSUME NEW b \in Accounts, ~ AllowNegative[b]
               PROVE  NormalSign[b] * raw'[b] - held'[b] >= 0
    BY DEF NoOverdraft, Available, AvailableOf
  <2>1. NormalSign[b] * raw[b] - held[b] >= 0
    BY DEF IInv, NoOverdraft, Available, AvailableOf
  <2>2. held'[b] \in Int /\ held'[b] <= held[b] /\ raw'[b] = raw[b]
    BY <1>1, <1>2, <1>4
  <2>3. NormalSign[b] \in {1, -1} /\ raw[b] \in Int /\ held[b] \in Int
    BY <1>2, LedgerAssumption
  <2> QED BY <2>1, <2>2, <2>3
<1>11. CapturesAreJournalled'
  BY <1>1, <1>5, <1>6, NoCaptureStep
<1> QED BY <1>7, <1>8, <1>9, <1>10, <1>11 DEF IInv

\* The passing of a hold's expiry preserves the invariant.
LEMMA FallDueStep ==
  ASSUME IInv, NEW h \in HoldIds, FallDue(h)
  PROVE  IInv'
<1>1. /\ holds[h].status = "active"
      /\ holds' = [holds EXCEPT ![h].due = TRUE]
      /\ UNCHANGED <<journals, postings, raw, held>>
  BY DEF FallDue
<1>2. holds \in [HoldIds -> Hold \cup {NoHold}]
  BY DEF IInv, TypeOK
<1>3. holds[h] \in Hold
  BY <1>1, <1>2 DEF NoHold
<1>4. /\ holds'[h] \in Hold /\ holds'[h].status = "active"
      /\ holds'[h].journal = holds[h].journal
      /\ holds'[h].account = holds[h].account
      /\ holds'[h].amount = holds[h].amount
      /\ \A g \in HoldIds \ {h} : holds'[g] = holds[g]
  BY <1>1, <1>2, <1>3 DEF Hold
<1>5. holds[h].journal = NoJournal
  BY <1>1 DEF IInv, CapturesAreJournalled
<1>6. TypeOK'
  <2>1. holds' \in [HoldIds -> Hold \cup {NoHold}]
    BY <1>1, <1>2, <1>4
  <2> QED BY <1>1, <2>1 DEF IInv, TypeOK
<1>7. PostingsAreOwned' /\ BalanceIsPostings' /\ BooksBalance'
  BY <1>1, NoJournalStep
<1>8. HeldIsActiveHolds'
  <2>1. ActiveIn(holds') = ActiveIn(holds)
    BY <1>1, <1>4 DEF ActiveIn
  <2>2. \A g \in ActiveIn(holds) : /\ holds'[g].account = holds[g].account
                                  /\ holds'[g].amount = holds[g].amount
    BY <1>4 DEF ActiveIn
  <2> SUFFICES ASSUME NEW b \in Accounts
               PROVE  held'[b] = ReservedIn(holds', ActiveIn(holds'), b)
    BY DEF HeldIsActiveHolds, Reserved, ReservedIn, ActiveIn
  <2>3. held[b] = ReservedIn(holds, ActiveIn(holds), b)
    BY DEF IInv, HeldIsActiveHolds, Reserved
  <2>4. ReservedIn(holds', ActiveIn(holds), b) = ReservedIn(holds, ActiveIn(holds), b)
    BY <2>2, ReservedCongruence
  <2> QED BY <1>1, <2>1, <2>3, <2>4
<1>9. NoOverdraft'
  BY <1>1 DEF IInv, NoOverdraft, Available, AvailableOf
<1>10. CapturesAreJournalled'
  BY <1>1, <1>4, <1>5, NoCaptureStep
<1> QED BY <1>6, <1>7, <1>8, <1>9, <1>10 DEF IInv

\* The empty ledger satisfies the invariant.
LEMMA InitInv == Init => IInv
<1> SUFFICES ASSUME Init PROVE IInv
  OBVIOUS
<1>1. /\ journals = {} /\ postings = {}
      /\ raw = [a \in Accounts |-> 0] /\ held = [a \in Accounts |-> 0]
      /\ holds = [h \in HoldIds |-> NoHold]
  BY DEF Init
<1>2. TypeOK
  BY <1>1 DEF TypeOK
<1>3. PostingsAreOwned
  BY <1>1, FS_EmptySet DEF PostingsAreOwned
<1>4. BalanceIsPostings
  <2>1. \A a : On(postings, a) = {}
    BY <1>1 DEF On
  <2> QED BY <1>1, <2>1, SignedEmpty DEF BalanceIsPostings
<1>5. HeldIsActiveHolds
  <2>1. ActiveIn(holds) = {}
    BY <1>1 DEF ActiveIn, NoHold
  <2>2. \A a : ReservedIn(holds, {}, a) = 0
    BY TotalEmpty DEF ReservedIn
  <2> QED BY <1>1, <2>1, <2>2 DEF HeldIsActiveHolds, Reserved
<1>6. NoOverdraft
  <2> SUFFICES ASSUME NEW a \in Accounts PROVE NormalSign[a] * raw[a] - held[a] >= 0
    BY DEF NoOverdraft, Available, AvailableOf
  <2>1. raw[a] = 0 /\ held[a] = 0 /\ NormalSign[a] \in {1, -1}
    BY <1>1, LedgerAssumption
  <2> QED BY <2>1
<1>7. BooksBalance
  <2> SUFFICES ASSUME NEW c \in Currencies
               PROVE  Signed({p \in postings : Denomination[p[2].account] = c}) = 0
    BY DEF BooksBalance
  <2>1. {p \in postings : Denomination[p[2].account] = c} = {}
    BY <1>1
  <2> QED BY <2>1, SignedEmpty
<1>8. CapturesAreJournalled
  BY <1>1 DEF CapturesAreJournalled, NoHold
<1> QED BY <1>2, <1>3, <1>4, <1>5, <1>6, <1>7, <1>8 DEF IInv

\* Every step of the ledger preserves the invariant.
LEMMA NextInv == IInv /\ [Next]_vars => IInv'
<1> SUFFICES ASSUME IInv, [Next]_vars PROVE IInv'
  OBVIOUS
<1>1. CASE \E j \in JournalIds, legs \in Entries : PostJournal(j, legs)
  BY <1>1, PostStep
<1>2. CASE \E h \in HoldIds, a \in Accounts, n \in 1 .. MaxAmount : PlaceHold(h, a, n)
  BY <1>2, PlaceStep
<1>3. CASE \E H \in SUBSET HoldIds, j \in JournalIds, legs \in Entries : CaptureHolds(H, j, legs)
  BY <1>3, CaptureStep
<1>4. CASE \E h \in HoldIds : ReleaseHold(h)
  BY <1>4, ResolveStep DEF ReleaseHold
<1>5. CASE \E h \in HoldIds : ExpireHold(h)
  BY <1>5, ResolveStep DEF ExpireHold
<1>6. CASE \E h \in HoldIds : FallDue(h)
  BY <1>6, FallDueStep
<1>7. CASE UNCHANGED vars
  <2>1. /\ journals' = journals /\ postings' = postings
        /\ raw' = raw /\ held' = held /\ holds' = holds
    BY <1>7 DEF vars
  <2>2. TypeOK' /\ PostingsAreOwned'
    BY <2>1 DEF IInv, TypeOK, PostingsAreOwned
  <2>3. BalanceIsPostings' /\ BooksBalance'
    BY <2>1, NoJournalStep
  <2>4. HeldIsActiveHolds'
    BY <2>1 DEF IInv, HeldIsActiveHolds, Reserved, ReservedIn, ActiveIn
  <2>5. NoOverdraft'
    BY <2>1 DEF IInv, NoOverdraft, Available, AvailableOf
  <2>6. CapturesAreJournalled'
    BY <2>1, NoCaptureStep
  <2> QED BY <2>2, <2>3, <2>4, <2>5, <2>6 DEF IInv
<1> QED BY <1>1, <1>2, <1>3, <1>4, <1>5, <1>6, <1>7 DEF Next

\* The inductive invariant holds in every reachable state of the ledger.
THEOREM LedgerInvariant == Spec => []IInv
<1> QED BY InitInv, NextInv, PTL DEF Spec

-----------------------------------------------------------------------------
(* What the ledger promises                                                *)

\* postJournal, PlaceHold, CaptureHolds and resolveHold keep every row well
\* formed.
THEOREM TypeCorrect == Spec => []TypeOK
<1>1. IInv => TypeOK
  BY DEF IInv
<1> QED BY <1>1, LedgerInvariant, PTL

\* The materialised balance of ledger_balances never drifts from the sum of
\* the account's postings, however postJournal's transactions are ordered.
THEOREM BalancesNeverDrift == Spec => []BalanceIsPostings
<1>1. IInv => BalanceIsPostings
  BY DEF IInv
<1> QED BY <1>1, LedgerInvariant, PTL

\* ledger_balances.held is always the sum of the active holds, through every
\* placement, capture, release and expiry.
THEOREM HeldNeverDrifts == Spec => []HeldIsActiveHolds
<1>1. IInv => HeldIsActiveHolds
  BY DEF IInv
<1> QED BY <1>1, LedgerInvariant, PTL

\* No customer wallet is ever overdrawn, nor reserves more than it has: the
\* overdraft checks of writePostings and PlaceHold suffice, even when one
\* journal has several legs on the same wallet.
THEOREM WalletsAreCovered == Spec => []NoOverdraft
<1>1. IInv => NoOverdraft
  BY DEF IInv
<1> QED BY <1>1, LedgerInvariant, PTL

\* Debits equal credits in every currency, over everything ever posted.
THEOREM BooksAlwaysBalance == Spec => []BooksBalance
<1>1. IInv => BooksBalance
  BY DEF IInv
<1> QED BY <1>1, LedgerInvariant, PTL

\* Every captured hold is accounted for by exactly the journal it names.
THEOREM CapturesAlwaysJournalled == Spec => []CapturesAreJournalled
<1>1. IInv => CapturesAreJournalled
  BY DEF IInv
<1> QED BY <1>1, LedgerInvariant, PTL

\* The ledger is append-only and every hold is resolved at most once.
THEOREM LedgerIsAppendOnly == Spec => AppendOnly
<1>1. IInv /\ [Next]_vars => [AppendOnlyStep]_vars
  <2> SUFFICES ASSUME IInv, [Next]_vars PROVE [AppendOnlyStep]_vars
    OBVIOUS
  <2>0. \A j \in JournalIds, legs \in Entries : \A p \in {j} \X legs : p[1] = j
    BY SubmittedRows
  <2>1. CASE \E j \in JournalIds, legs \in Entries : PostJournal(j, legs)
    <3>1. PICK j \in JournalIds, legs \in Entries : PostJournal(j, legs)
      BY <2>1
    <3>2. /\ j \notin journals /\ journals' = journals \cup {j}
          /\ postings' = postings \cup ({j} \X legs)
          /\ holds' = holds
      BY <3>1 DEF PostJournal, Write
    <3> QED BY <2>0, <3>2 DEF AppendOnlyStep
  <2>2. CASE \E h \in HoldIds, a \in Accounts, n \in 1 .. MaxAmount : PlaceHold(h, a, n)
    <3>1. PICK h \in HoldIds, a \in Accounts, n \in 1 .. MaxAmount : PlaceHold(h, a, n)
      BY <2>2
    <3>2. /\ UNCHANGED <<journals, postings>>
          /\ holds[h] = NoHold
          /\ \A g \in HoldIds : g # h => holds'[g] = holds[g]
      BY <3>1 DEF PlaceHold, IInv, TypeOK
    <3> QED BY <3>2 DEF AppendOnlyStep, NoHold
  <2>3. CASE \E H \in SUBSET HoldIds, j \in JournalIds, legs \in Entries : CaptureHolds(H, j, legs)
    <3>1. PICK H \in SUBSET HoldIds, j \in JournalIds, legs \in Entries : CaptureHolds(H, j, legs)
      BY <2>3
    <3>2. /\ j \notin journals /\ journals' = journals \cup {j}
          /\ postings' = postings \cup ({j} \X legs)
          /\ \A h \in H : holds[h].status = "active"
          /\ \A h \in HoldIds \ H : holds'[h] = holds[h]
      BY <3>1 DEF CaptureHolds, Write
    <3> QED BY <2>0, <3>2 DEF AppendOnlyStep
  <2>4. CASE \E h \in HoldIds, to \in {"released", "expired"} : ResolveHold(h, to)
    <3>1. PICK h \in HoldIds, to \in {"released", "expired"} : ResolveHold(h, to)
      BY <2>4
    <3>2. /\ UNCHANGED <<journals, postings>>
          /\ holds[h].status = "active"
          /\ \A g \in HoldIds : g # h => holds'[g] = holds[g]
      BY <3>1 DEF ResolveHold, IInv, TypeOK
    <3> QED BY <3>2 DEF AppendOnlyStep
  <2>5. CASE \E h \in HoldIds : FallDue(h)
    <3>1. PICK h \in HoldIds : FallDue(h)
      BY <2>5
    <3>2. /\ UNCHANGED <<journals, postings>>
          /\ holds[h].status = "active"
          /\ \A g \in HoldIds : g # h => holds'[g] = holds[g]
      BY <3>1 DEF FallDue, IInv, TypeOK
    <3> QED BY <3>2 DEF AppendOnlyStep
  <2> QED BY <2>1, <2>2, <2>3, <2>4, <2>5 DEF Next, ReleaseHold, ExpireHold
<1> QED BY <1>1, LedgerInvariant, PTL DEF Spec, AppendOnly

\* Every active hold's amount is still in its account's held figure, so the
\* "account holds %d but a hold of %d is being released" errors of
\* postJournal and resolveHold are never returned.
ReservationsCovered ==
    \A h \in HoldIds : holds[h].status = "active" => held[holds[h].account] >= holds[h].amount

THEOREM ReleaseNeverRefused == Spec => []ReservationsCovered
<1>1. IInv => ReservationsCovered
  <2> SUFFICES ASSUME IInv, NEW h \in HoldIds, holds[h].status = "active"
               PROVE  held[holds[h].account] >= holds[h].amount
    BY DEF ReservationsCovered
  <2> DEFINE a == holds[h].account
             rest == ActiveIn(holds) \ {h}
  <2>1. \A g \in ActiveIn(holds) : holds[g] \in Hold
    BY DEF IInv, TypeOK, ActiveIn, NoHold
  <2>2. h \in ActiveIn(holds) /\ ActiveIn(holds) \in SUBSET HoldIds
    BY DEF ActiveIn
  <2>3. /\ ActiveIn(holds) = rest \cup {h} /\ rest \cap {h} = {}
        /\ rest \in SUBSET HoldIds /\ {h} \in SUBSET HoldIds
    BY <2>2
  <2>4. a \in Accounts /\ holds[h].amount \in Nat
    BY <2>1, <2>2, LedgerAssumption DEF Hold
  <2>5. held[a] = ReservedIn(holds, ActiveIn(holds), a)
    BY <2>4 DEF IInv, HeldIsActiveHolds, Reserved
  <2>6. \A g \in rest \cup {h} : holds[g] \in Hold
    BY <2>1, <2>3
  <2> HIDE DEF rest
  <2>7. ReservedIn(holds, rest \cup {h}, a) = ReservedIn(holds, rest, a) + ReservedIn(holds, {h}, a)
    BY <2>3, <2>6, ReservedUnion
  <2>8. ReservedIn(holds, {h}, a) = holds[h].amount
    BY <2>6, ReservedSingleton
  <2>9. ReservedIn(holds, rest, a) \in Nat
    BY <2>3, <2>6, ReservedType
  <2> QED BY <2>3, <2>4, <2>5, <2>7, <2>8, <2>9
<1> QED BY <1>1, LedgerInvariant, PTL
=============================================================================
