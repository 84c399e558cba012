--------------------------- MODULE AmountTheorems ---------------------------
(***************************************************************************)
(* Facts about Total, the sum of the amounts of a finite set of rows, the  *)
(* principle of the greatest number that the ledger proofs use, and what   *)
(* posting a journal does to the balances of the books.                    *)
(***************************************************************************)
EXTENDS Books, FiniteSetTheorems, TLAPS

\* Total adds up finitely many units: the sum of natural numbers over a
\* finite set of rows is a natural number.
LEMMA TotalType ==
  ASSUME NEW S, IsFiniteSet(S), NEW amount, \A x \in S : amount[x] \in Nat
  PROVE  IsFiniteSet(UnitsOf(amount, S)) /\ Total(amount, S) \in Nat
<1> DEFINE Boxes == {{x} \X (1 .. amount[x]) : x \in S}
<1>1. \A B \in Boxes : IsFiniteSet(B)
  <2> SUFFICES ASSUME NEW x \in S PROVE IsFiniteSet({x} \X (1 .. amount[x]))
    OBVIOUS
  <2>1. IsFiniteSet({x})
    BY FS_Singleton
  <2>2. IsFiniteSet(1 .. amount[x])
    BY FS_Interval
  <2> QED BY <2>1, <2>2, FS_Product
<1>2. IsFiniteSet(Boxes)
  <2> DEFINE box == [x \in S |-> {x} \X (1 .. amount[x])]
  <2>1. box \in Surjection(S, Boxes)
    BY DEF Surjection
  <2> QED BY <2>1, FS_Surjection
<1>3. IsFiniteSet(UNION Boxes)
  BY <1>1, <1>2, FS_UNION
<1> QED BY <1>3, FS_CardinalityType DEF UnitsOf, Total

\* The sum over no rows is zero.
LEMMA TotalEmpty ==
  ASSUME NEW amount PROVE Total(amount, {}) = 0
<1>1. UnitsOf(amount, {}) = {}
  BY DEF UnitsOf
<1> QED BY <1>1, FS_EmptySet DEF Total

\* The sum over one row is its amount.
LEMMA TotalSingleton ==
  ASSUME NEW x, NEW amount, amount[x] \in Nat
  PROVE  Total(amount, {x}) = amount[x]
<1>1. UnitsOf(amount, {x}) = {x} \X (1 .. amount[x])
  BY DEF UnitsOf
<1>2. IsFiniteSet({x}) /\ Cardinality({x}) = 1
  BY FS_Singleton
<1>3. /\ IsFiniteSet(1 .. amount[x])
      /\ Cardinality(1 .. amount[x]) = amount[x]
  BY FS_Interval
<1>4. Cardinality({x} \X (1 .. amount[x]))
        = Cardinality({x}) * Cardinality(1 .. amount[x])
  BY <1>2, <1>3, FS_Product
<1>5. Cardinality({x} \X (1 .. amount[x])) = amount[x]
  <2> DEFINE n == amount[x]
  <2>1. n \in Nat /\ 1 * n = n
    OBVIOUS
  <2> QED BY <2>1, <1>2, <1>3, <1>4
<1> QED BY <1>1, <1>5 DEF Total

\* The sum over two disjoint sets of rows is the sum of the sums.
LEMMA TotalUnion ==
  ASSUME NEW S, IsFiniteSet(S), NEW T, IsFiniteSet(T), S \cap T = {},
         NEW amount, \A x \in S \cup T : amount[x] \in Nat
  PROVE  Total(amount, S \cup T) = Total(amount, S) + Total(amount, T)
<1>1. UnitsOf(amount, S \cup T) = UnitsOf(amount, S) \cup UnitsOf(amount, T)
  BY DEF UnitsOf
<1>2. UnitsOf(amount, S) \cap UnitsOf(amount, T) = {}
  BY DEF UnitsOf
<1>3. IsFiniteSet(UnitsOf(amount, S)) /\ IsFiniteSet(UnitsOf(amount, T))
  BY TotalType
<1>4. Total(amount, S) \in Nat /\ Total(amount, T) \in Nat
  BY TotalType
<1>5. Cardinality({}) = 0
  BY FS_EmptySet
<1>6. Cardinality(UnitsOf(amount, S) \cup UnitsOf(amount, T))
        = Cardinality(UnitsOf(amount, S)) + Cardinality(UnitsOf(amount, T))
            - Cardinality(UnitsOf(amount, S) \cap UnitsOf(amount, T))
  BY <1>3, FS_Union
<1>7. Total(amount, S \cup T)
        = Total(amount, S) + Total(amount, T) - Cardinality({})
  BY <1>1, <1>2, <1>6, Zenon DEF Total
<1> HIDE DEF Total
<1> QED BY <1>4, <1>5, <1>7

\* Two amount functions that agree on the rows have the same sum.
LEMMA TotalCongruence ==
  ASSUME NEW S, NEW f, NEW g, \A x \in S : f[x] = g[x]
  PROVE  Total(f, S) = Total(g, S)
<1>1. UnitsOf(f, S) = UnitsOf(g, S)
  BY DEF UnitsOf
<1> QED BY <1>1 DEF Total

\* Fewer rows have a smaller sum.
LEMMA TotalMonotone ==
  ASSUME NEW T, IsFiniteSet(T), NEW S \in SUBSET T,
         NEW amount, \A x \in T : amount[x] \in Nat
  PROVE  Total(amount, S) <= Total(amount, T)
<1>1. UnitsOf(amount, S) \subseteq UnitsOf(amount, T)
  BY DEF UnitsOf
<1>2. IsFiniteSet(UnitsOf(amount, T))
  BY TotalType
<1> QED BY <1>1, <1>2, FS_Subset DEF Total

\* Smaller amounts have a smaller sum.
LEMMA TotalSmaller ==
  ASSUME NEW S, IsFiniteSet(S), NEW f, NEW g, \A x \in S : f[x] \in Nat /\ g[x] \in Nat /\ f[x] <= g[x]
  PROVE  Total(f, S) <= Total(g, S)
<1>1. UnitsOf(f, S) \subseteq UnitsOf(g, S)
  BY DEF UnitsOf
<1>2. IsFiniteSet(UnitsOf(g, S))
  BY TotalType
<1> QED BY <1>1, <1>2, FS_Subset DEF Total

\* A nonempty set of numbers no greater than n has a greatest element.
LEMMA GreatestNumber ==
  ASSUME NEW n \in Nat, NEW S \in SUBSET (1 .. n), S # {}
  PROVE  \E m \in S : \A k \in S : k <= m
<1> DEFINE Mirror == {d \in 0 .. n : n - d \in S}
<1>1. PICK k0 \in S : TRUE
  OBVIOUS
<1>2. k0 \in 1 .. n /\ n - (n - k0) = k0
  OBVIOUS
<1>3. n - k0 \in Mirror
  BY <1>2
<1>4. Mirror \subseteq Nat /\ Mirror # {}
  <2>1. \A d \in Mirror : d \in Nat
    OBVIOUS
  <2>2. Mirror \subseteq Nat
    BY <2>1, Zenon
  <2> QED BY <2>2, <1>3, Zenon
<1>5. PICK d \in Mirror : \A e \in Mirror : ~ (<<e, d>> \in OpToRel(<, Nat))
  BY <1>4, WFMin, NatLessThanWellFounded
<1>6. \A e \in Mirror : ~ (e < d)
  BY <1>4, <1>5 DEF OpToRel
<1>7. \A k \in S : k \in 1 .. n /\ n - k \in 0 .. n /\ n - (n - k) = k
  OBVIOUS
<1>8. \A k \in S : n - k \in Mirror
  BY <1>7
<1>9. \A k \in S : ~ (n - k < d)
  BY <1>6, <1>8
<1>10. n - d \in S /\ d \in 0 .. n
  OBVIOUS
<1>11. \A k \in S : k <= n - d
  BY <1>7, <1>9, <1>10
<1> QED BY <1>10, <1>11

\* One more row adds its amount, one row less takes it away.
LEMMA TotalAdd ==
  ASSUME NEW S, IsFiniteSet(S), NEW x, x \notin S,
         NEW amount, \A y \in S \cup {x} : amount[y] \in Nat
  PROVE  Total(amount, S \cup {x}) = Total(amount, S) + amount[x]
<1>1. IsFiniteSet({x}) /\ S \cap {x} = {} /\ amount[x] \in Nat
  BY FS_Singleton
<1>2. Total(amount, S \cup {x}) = Total(amount, S) + Total(amount, {x})
  BY <1>1, TotalUnion
<1> QED BY <1>1, <1>2, TotalSingleton

LEMMA TotalRemove ==
  ASSUME NEW S, IsFiniteSet(S), NEW x \in S, NEW amount, \A y \in S : amount[y] \in Nat
  PROVE  Total(amount, S) = Total(amount, S \ {x}) + amount[x]
<1>1. IsFiniteSet(S \ {x}) /\ (S \ {x}) \cup {x} = S
  BY FS_Subset
<1> QED BY <1>1, TotalAdd

\* Rows of no amount add nothing.
LEMMA TotalZero ==
  ASSUME NEW S, NEW amount, \A x \in S : amount[x] = 0
  PROVE  Total(amount, S) = 0
<1>1. UnitsOf(amount, S) = {}
  BY DEF UnitsOf
<1> QED BY <1>1, FS_EmptySet DEF Total

\* Rows may go by other names.
LEMMA TotalRenamed ==
  ASSUME NEW S, IsFiniteSet(S), NEW T, NEW name \in [S -> T],
         \A t \in T : \E x \in S : name[x] = t,
         \A x, y \in S : name[x] = name[y] => x = y,
         NEW f, NEW g, \A x \in S : f[x] \in Nat /\ g[name[x]] = f[x]
  PROVE  Total(g, T) = Total(f, S)
<1> DEFINE U == UnitsOf(f, S)
           V == UnitsOf(g, T)
           b == [u \in U |-> <<name[u[1]], u[2]>>]
<1>1. \A u : u \in U <=> \E x \in S : \E i \in 1 .. f[x] : u = <<x, i>>
  BY DEF UnitsOf
<1>2. \A v : v \in V <=> \E t \in T : \E i \in 1 .. g[t] : v = <<t, i>>
  BY DEF UnitsOf
<1> HIDE DEF U, V
<1>3. b \in [U -> V]
  BY <1>1, <1>2
<1>4. \A u, w \in U : b[u] = b[w] => u = w
  BY <1>1
<1>5. \A v \in V : \E u \in U : b[u] = v
  <2> SUFFICES ASSUME NEW v \in V PROVE \E u \in U : b[u] = v
    OBVIOUS
  <2>1. PICK x \in S : \E i \in 1 .. f[x] : v = <<name[x], i>>
    BY <1>2
  <2> PICK i \in 1 .. f[x] : v = <<name[x], i>>
    BY <2>1
  <2>2. <<x, i>> \in U
    BY <1>1, <2>1
  <2>3. b[<<x, i>>] = v
    BY <2>2
  <2> QED BY <2>2, <2>3
<1> HIDE DEF b
<1>6. b \in Bijection(U, V)
  BY <1>3, <1>4, <1>5 DEF Bijection, Injection, Surjection, IsInjective
<1>7. IsFiniteSet(U)
  BY TotalType DEF U
<1> QED BY <1>6, <1>7, FS_Bijection DEF ExistsBijection, Total, U, V

\* The same of amounts that may be negative.
LEMMA GainIs == ASSUME NEW n \in Int PROVE Gain(n) \in Nat /\ Gain(-n) \in Nat /\ Gain(n) - Gain(-n) = n
BY DEF Gain

\* The halves of a signed sum, over any larger domain.
LEMMA SignedTotalIs ==
  ASSUME NEW S, NEW T, S \subseteq T, NEW amount
  PROVE  SignedTotal(amount, S)
           = Total([x \in T |-> Gain(amount[x])], S) - Total([x \in T |-> Gain(-amount[x])], S)
<1>1. Total([x \in S |-> Gain(amount[x])], S) = Total([x \in T |-> Gain(amount[x])], S)
  <2> DEFINE f == [x \in S |-> Gain(amount[x])]
             g == [x \in T |-> Gain(amount[x])]
  <2>1. \A x \in S : f[x] = g[x]
    OBVIOUS
  <2> HIDE DEF f, g
  <2> QED BY <2>1, TotalCongruence
<1>2. Total([x \in S |-> Gain(-amount[x])], S) = Total([x \in T |-> Gain(-amount[x])], S)
  <2> DEFINE f == [x \in S |-> Gain(-amount[x])]
             g == [x \in T |-> Gain(-amount[x])]
  <2>1. \A x \in S : f[x] = g[x]
    OBVIOUS
  <2> HIDE DEF f, g
  <2> QED BY <2>1, TotalCongruence
<1> QED BY <1>1, <1>2 DEF SignedTotal

LEMMA SignedTotalType ==
  ASSUME NEW S, IsFiniteSet(S), NEW amount, \A x \in S : amount[x] \in Int
  PROVE  SignedTotal(amount, S) \in Int
<1> DEFINE f == [x \in S |-> Gain(amount[x])]
           g == [x \in S |-> Gain(-amount[x])]
<1>1. (\A x \in S : f[x] \in Nat) /\ (\A x \in S : g[x] \in Nat)
  BY GainIs
<1>2. SignedTotal(amount, S) = Total(f, S) - Total(g, S)
  BY DEF SignedTotal
<1> HIDE DEF f, g
<1>3. Total(f, S) \in Nat /\ Total(g, S) \in Nat
  BY <1>1, TotalType
<1> QED BY <1>2, <1>3

LEMMA SignedTotalEmpty == ASSUME NEW amount PROVE SignedTotal(amount, {}) = 0
BY TotalEmpty DEF SignedTotal

LEMMA SignedTotalUnion ==
  ASSUME NEW S, IsFiniteSet(S), NEW T, IsFiniteSet(T), S \cap T = {},
         NEW amount, \A x \in S \cup T : amount[x] \in Int
  PROVE  SignedTotal(amount, S \cup T) = SignedTotal(amount, S) + SignedTotal(amount, T)
<1> DEFINE f == [x \in S \cup T |-> Gain(amount[x])]
           g == [x \in S \cup T |-> Gain(-amount[x])]
<1>1. (\A x \in S \cup T : f[x] \in Nat) /\ (\A x \in S \cup T : g[x] \in Nat)
  BY GainIs
<1>2. /\ SignedTotal(amount, S) = Total(f, S) - Total(g, S)
      /\ SignedTotal(amount, T) = Total(f, T) - Total(g, T)
      /\ SignedTotal(amount, S \cup T) = Total(f, S \cup T) - Total(g, S \cup T)
  BY SignedTotalIs
<1> HIDE DEF f, g
<1>3. /\ Total(f, S \cup T) = Total(f, S) + Total(f, T)
      /\ Total(g, S \cup T) = Total(g, S) + Total(g, T)
  BY <1>1, TotalUnion
<1>4. /\ Total(f, S) \in Nat /\ Total(g, S) \in Nat
      /\ Total(f, T) \in Nat /\ Total(g, T) \in Nat
  BY <1>1, TotalType
<1> QED BY <1>2, <1>3, <1>4

LEMMA SignedTotalCongruence ==
  ASSUME NEW S, NEW f, NEW g, \A x \in S : f[x] = g[x]
  PROVE  SignedTotal(f, S) = SignedTotal(g, S)
<1>1. [x \in S |-> Gain(f[x])] = [x \in S |-> Gain(g[x])]
  OBVIOUS
<1>2. [x \in S |-> Gain(-f[x])] = [x \in S |-> Gain(-g[x])]
  OBVIOUS
<1> QED BY <1>1, <1>2 DEF SignedTotal

LEMMA SignedTotalAdd ==
  ASSUME NEW S, IsFiniteSet(S), NEW x, x \notin S,
         NEW amount, \A y \in S \cup {x} : amount[y] \in Int
  PROVE  SignedTotal(amount, S \cup {x}) = SignedTotal(amount, S) + amount[x]
<1> DEFINE f == [y \in {x} |-> Gain(amount[y])]
           g == [y \in {x} |-> Gain(-amount[y])]
<1>1. f[x] = Gain(amount[x]) /\ g[x] = Gain(-amount[x])
  OBVIOUS
<1>2. SignedTotal(amount, {x}) = Total(f, {x}) - Total(g, {x})
  BY DEF SignedTotal
<1> HIDE DEF f, g
<1>3. SignedTotal(amount, {x}) = amount[x]
  BY <1>1, <1>2, GainIs, TotalSingleton
<1>4. IsFiniteSet({x}) /\ S \cap {x} = {}
  BY FS_Singleton
<1> QED BY <1>3, <1>4, SignedTotalUnion

LEMMA SignedTotalRemove ==
  ASSUME NEW S, IsFiniteSet(S), NEW x \in S, NEW amount, \A y \in S : amount[y] \in Int
  PROVE  SignedTotal(amount, S) = SignedTotal(amount, S \ {x}) + amount[x]
<1>1. IsFiniteSet(S \ {x}) /\ (S \ {x}) \cup {x} = S /\ x \notin S \ {x}
  BY FS_Subset
<1>2. \A y \in (S \ {x}) \cup {x} : amount[y] \in Int
  OBVIOUS
<1>3. SignedTotal(amount, (S \ {x}) \cup {x}) = SignedTotal(amount, S \ {x}) + amount[x]
  BY <1>1, <1>2, SignedTotalAdd
<1> QED BY <1>1, <1>3

LEMMA SignedTotalZero ==
  ASSUME NEW S, NEW amount, \A x \in S : amount[x] = 0
  PROVE  SignedTotal(amount, S) = 0
<1> DEFINE f == [x \in S |-> Gain(amount[x])]
           g == [x \in S |-> Gain(-amount[x])]
<1>1. (\A x \in S : f[x] = 0) /\ (\A x \in S : g[x] = 0)
  BY DEF Gain
<1>2. SignedTotal(amount, S) = Total(f, S) - Total(g, S)
  BY DEF SignedTotal
<1> HIDE DEF f, g
<1> QED BY <1>1, <1>2, TotalZero

\* Smaller amounts have a smaller sum, debts included.
LEMMA SignedTotalSmaller ==
  ASSUME NEW S, IsFiniteSet(S), NEW f, NEW g, \A x \in S : f[x] \in Int /\ g[x] \in Int /\ f[x] <= g[x]
  PROVE  SignedTotal(f, S) <= SignedTotal(g, S)
<1> DEFINE fin  == [x \in S |-> Gain(f[x])]
           fout == [x \in S |-> Gain(-f[x])]
           gin  == [x \in S |-> Gain(g[x])]
           gout == [x \in S |-> Gain(-g[x])]
<1>1. /\ \A x \in S : fin[x] \in Nat /\ gin[x] \in Nat /\ fin[x] <= gin[x]
      /\ \A x \in S : gout[x] \in Nat /\ fout[x] \in Nat /\ gout[x] <= fout[x]
  BY DEF Gain
<1>2. SignedTotal(f, S) = Total(fin, S) - Total(fout, S) /\ SignedTotal(g, S) = Total(gin, S) - Total(gout, S)
  BY DEF SignedTotal
<1> HIDE DEF fin, fout, gin, gout
<1>3. Total(fin, S) <= Total(gin, S) /\ Total(gout, S) <= Total(fout, S)
  BY <1>1, TotalSmaller
<1>4. /\ Total(fin, S) \in Nat /\ Total(fout, S) \in Nat
      /\ Total(gin, S) \in Nat /\ Total(gout, S) \in Nat
  BY <1>1, TotalType
<1> QED BY <1>2, <1>3, <1>4

LEMMA SignedTotalRenamed ==
  ASSUME NEW S, IsFiniteSet(S), NEW T, NEW name \in [S -> T],
         \A t \in T : \E x \in S : name[x] = t,
         \A x, y \in S : name[x] = name[y] => x = y,
         NEW f, NEW g, \A x \in S : f[x] \in Int /\ g[name[x]] = f[x]
  PROVE  SignedTotal(g, T) = SignedTotal(f, S)
<1> DEFINE in  == [x \in S |-> Gain(f[x])]
           out == [x \in S |-> Gain(-f[x])]
           inT  == [t \in T |-> Gain(g[t])]
           outT == [t \in T |-> Gain(-g[t])]
<1>1. /\ \A x \in S : in[x] \in Nat /\ inT[name[x]] = in[x]
      /\ \A x \in S : out[x] \in Nat /\ outT[name[x]] = out[x]
  BY GainIs
<1>2. /\ SignedTotal(f, S) = Total(in, S) - Total(out, S)
      /\ SignedTotal(g, T) = Total(inT, T) - Total(outT, T)
  BY DEF SignedTotal
<1> HIDE DEF in, out, inT, outT
<1>3. Total(inT, T) = Total(in, S)
  BY <1>1, TotalRenamed
<1>4. Total(outT, T) = Total(out, S)
  BY <1>1, TotalRenamed
<1> QED BY <1>2, <1>3, <1>4

-----------------------------------------------------------------------------
(* Books: finitely many journals, each of a number of minor units          *)

BooksOK(books) ==
  /\ IsFiniteSet(DOMAIN books)
  /\ books = [id \in DOMAIN books |-> books[id]]
  /\ \A id \in DOMAIN books : books[id].amount \in Nat

LEMMA NoBooksOK == BooksOK(NoBooks) /\ DOMAIN NoBooks = {} /\ \A a : Balance(NoBooks, a) = 0
<1>1. DOMAIN NoBooks = {}
  BY DEF NoBooks
<1>2. BooksOK(NoBooks)
  <2>1. IsFiniteSet(DOMAIN NoBooks)
    BY <1>1, FS_EmptySet
  <2>2. NoBooks = [id \in DOMAIN NoBooks |-> NoBooks[id]]
    BY DEF NoBooks
  <2> QED BY <1>1, <2>1, <2>2 DEF BooksOK
<1>3. ASSUME NEW a PROVE Balance(NoBooks, a) = 0
  <2> DEFINE C == {x \in DOMAIN NoBooks : NoBooks[x].credit = a}
             D == {x \in DOMAIN NoBooks : NoBooks[x].debit = a}
  <2>1. C = {} /\ D = {}
    BY <1>1
  <2>2. SumOf(NoBooks, {}) = 0
    BY TotalEmpty DEF SumOf
  <2>3. Balance(NoBooks, a) = SumOf(NoBooks, C) - SumOf(NoBooks, D)
    BY DEF Balance
  <2> HIDE DEF C, D
  <2> QED BY <2>1, <2>2, <2>3
<1> QED BY <1>1, <1>2, <1>3

\* The sum of the journals of a column, with one journal more.
LEMMA SumOfType ==
  ASSUME NEW books, BooksOK(books), NEW J \in SUBSET DOMAIN books
  PROVE  IsFiniteSet(J) /\ SumOf(books, J) \in Nat
<1>1. IsFiniteSet(J)
  BY FS_Subset DEF BooksOK
<1>2. \A x \in J : [y \in J |-> books[y].amount][x] \in Nat
  BY DEF BooksOK
<1> QED BY <1>1, <1>2, TotalType DEF SumOf

LEMMA BalanceType ==
  ASSUME NEW books, BooksOK(books), NEW a
  PROVE  Balance(books, a) \in Int
<1>1. ASSUME NEW J \in SUBSET DOMAIN books PROVE SumOf(books, J) \in Nat
  BY SumOfType
<1>2. /\ SumOf(books, {x \in DOMAIN books : books[x].credit = a}) \in Nat
      /\ SumOf(books, {x \in DOMAIN books : books[x].debit = a}) \in Nat
  BY <1>1
<1> QED BY <1>2 DEF Balance

LEMMA SumOfGrows ==
  ASSUME NEW books, BooksOK(books), NEW more, BooksOK(more),
         NEW id, id \notin DOMAIN books, DOMAIN more = DOMAIN books \cup {id},
         \A x \in DOMAIN books : more[x] = books[x],
         NEW J \in SUBSET DOMAIN books
  PROVE  /\ SumOf(more, J) = SumOf(books, J)
         /\ SumOf(more, J \cup {id}) = SumOf(books, J) + more[id].amount
<1>1. IsFiniteSet(J) /\ SumOf(books, J) \in Nat
  BY SumOfType
<1>2. SumOf(more, J) = SumOf(books, J)
  BY TotalCongruence DEF SumOf
<1>3. ASSUME NEW K \in SUBSET DOMAIN more
      PROVE  \A x \in K : [y \in K |-> more[y].amount][x] \in Nat
  BY DEF BooksOK
<1> DEFINE K == J \cup {id}
           amount == [y \in K |-> more[y].amount]
<1>4. \A y \in K : amount[y] \in Nat
  BY <1>3
<1>5. Total(amount, K) = Total(amount, J) + amount[id]
  <2>1. id \notin J
    OBVIOUS
  <2> HIDE DEF amount
  <2> QED BY <1>1, <1>4, <2>1, TotalAdd
<1>6. Total(amount, J) = SumOf(more, J)
  BY TotalCongruence DEF SumOf
<1> QED BY <1>2, <1>5, <1>6 DEF SumOf

\* A journal under a new id moves its amount between its two accounts.
LEMMA PostNew ==
  ASSUME NEW books, BooksOK(books), NEW id, id \notin DOMAIN books,
         NEW debit, NEW credit, NEW n \in Nat
  PROVE  BooksOK(Post(books, id, Journal(debit, credit, n)))
<1> DEFINE more == Post(books, id, Journal(debit, credit, n))
<1>1. /\ DOMAIN more = DOMAIN books \cup {id}
      /\ more = [x \in DOMAIN more |-> more[x]]
      /\ \A x \in DOMAIN books : more[x] = books[x]
      /\ more[id].amount = n
  BY DEF Post, Journal
<1> HIDE DEF more
<1>2. IsFiniteSet(DOMAIN more)
  BY <1>1, FS_AddElement DEF BooksOK
<1>3. BooksOK(more)
  BY <1>1, <1>2 DEF BooksOK
<1> QED BY <1>3 DEF more

LEMMA PostDomain ==
  ASSUME NEW books, NEW id, NEW journal
  PROVE  DOMAIN Post(books, id, journal) = DOMAIN books \cup {id}
BY DEF Post

LEMMA PostMoves ==
  ASSUME NEW books, BooksOK(books), NEW id, id \notin DOMAIN books,
         NEW debit, NEW credit, NEW n \in Nat, NEW a
  PROVE  Balance(Post(books, id, Journal(debit, credit, n)), a)
           = Balance(books, a) + (IF a = credit THEN n ELSE 0) - (IF a = debit THEN n ELSE 0)
<1> DEFINE more == Post(books, id, Journal(debit, credit, n))
           C == {x \in DOMAIN books : books[x].credit = a}
           D == {x \in DOMAIN books : books[x].debit = a}
<1>1. /\ DOMAIN more = DOMAIN books \cup {id}
      /\ \A x \in DOMAIN books : more[x] = books[x]
      /\ more[id].credit = credit /\ more[id].debit = debit /\ more[id].amount = n
  BY DEF Post, Journal
<1> HIDE DEF more
<1>2. BooksOK(more)
  BY PostNew DEF more
<1>3. {x \in DOMAIN more : more[x].credit = a} = IF a = credit THEN C \cup {id} ELSE C
  BY <1>1
<1>4. {x \in DOMAIN more : more[x].debit = a} = IF a = debit THEN D \cup {id} ELSE D
  BY <1>1
<1>5. C \in SUBSET DOMAIN books /\ D \in SUBSET DOMAIN books
  OBVIOUS
<1> HIDE DEF C, D
<1>6. SumOf(books, C) \in Nat /\ SumOf(books, D) \in Nat
  BY <1>5, SumOfType
<1>7. SumOf(more, C) = SumOf(books, C) /\ SumOf(more, C \cup {id}) = SumOf(books, C) + n
  BY <1>1, <1>2, <1>5, SumOfGrows
<1>8. SumOf(more, D) = SumOf(books, D) /\ SumOf(more, D \cup {id}) = SumOf(books, D) + n
  BY <1>1, <1>2, <1>5, SumOfGrows
<1>9. Balance(books, a) = SumOf(books, C) - SumOf(books, D)
  BY DEF Balance, C, D
<1>10. SumOf(more, {x \in DOMAIN more : more[x].credit = a})
         = SumOf(books, C) + (IF a = credit THEN n ELSE 0)
  <2>1. CASE a = credit
    BY <1>3, <1>7, <2>1, Zenon
  <2>2. CASE a # credit
    <3>1. SumOf(more, {x \in DOMAIN more : more[x].credit = a}) = SumOf(books, C)
      BY <1>3, <1>7, <2>2, Zenon
    <3> QED BY <1>6, <2>2, <3>1
  <2> QED BY <2>1, <2>2
<1>11. SumOf(more, {x \in DOMAIN more : more[x].debit = a})
         = SumOf(books, D) + (IF a = debit THEN n ELSE 0)
  <2>1. CASE a = debit
    BY <1>4, <1>8, <2>1, Zenon
  <2>2. CASE a # debit
    <3>1. SumOf(more, {x \in DOMAIN more : more[x].debit = a}) = SumOf(books, D)
      BY <1>4, <1>8, <2>2, Zenon
    <3> QED BY <1>6, <2>2, <3>1
  <2> QED BY <2>1, <2>2
<1>12. Balance(more, a) = SumOf(more, {x \in DOMAIN more : more[x].credit = a})
                            - SumOf(more, {x \in DOMAIN more : more[x].debit = a})
  BY DEF Balance
<1>13. Balance(more, a)
         = Balance(books, a) + (IF a = credit THEN n ELSE 0) - (IF a = debit THEN n ELSE 0)
  BY <1>6, <1>9, <1>10, <1>11, <1>12
<1> QED BY <1>13 DEF more

\* A journal whose id is taken changes nothing.
LEMMA PostAgain ==
  ASSUME NEW books, BooksOK(books), NEW id \in DOMAIN books, NEW journal
  PROVE  Post(books, id, journal) = books
<1>1. DOMAIN books \cup {id} = DOMAIN books
  OBVIOUS
<1> QED BY <1>1 DEF Post, BooksOK
=============================================================================
