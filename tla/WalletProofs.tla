---------------------------- MODULE WalletProofs ----------------------------
(***************************************************************************)
(* That transactions of one call, interleaved statement by statement under *)
(* the row locks of LedgerTx, amount to steps of Ledger; that they never   *)
(* wait for each other in a circle; that an expiry takes only a wallet     *)
(* nobody used; and that limits on wallets and customers hold: for any     *)
(* transactions, calls, accounts, holds, days and retries.                 *)
(*                                                                         *)
(* The invariant (TxInv) says of each transaction which Stage it is in: it *)
(* has no rows; or it has some of the rows its call needs, the first ones  *)
(* in the one order of locks (Before), and its copy says what the tables   *)
(* say (Fresh); or it has them all and its copy says what Ledger's action  *)
(* would make of the tables now (Done).  What others commit meanwhile      *)
(* touches none of its rows (Spared), so the stage stays (StageStays), and *)
(* a commit of what is Done is the step (CommitShows).                     *)
(*                                                                         *)
(* The limits (LimitsInv) hold because a check sees what its transaction   *)
(* would commit (Fits, FitsExecutes), and keeps the row of the customer    *)
(* to its commit, so that nobody else adds to what it saw (FitsStays).     *)
(***************************************************************************)
EXTENDS Wallet, LedgerProofs

-----------------------------------------------------------------------------
(* Sets in order                                                           *)

\* The elements of a finite set can be put in ascending order of their ranks,
\* whichever they are: each one's place is the number of those up to it.
LEMMA AscendingIs ==
  ASSUME NEW S, IsFiniteSet(S), NEW rank, \A a \in S : rank[a] \in Nat,
         \A a, b \in S : rank[a] = rank[b] => a = b
  PROVE  LET n == Cardinality(S)
             s == Ascending(S, rank)
         IN  /\ n \in Nat /\ s \in [1 .. n -> S]
             /\ \A i, k \in 1 .. n : i < k => rank[s[i]] < rank[s[k]]
             /\ \A a \in S : \E i \in 1 .. n : s[i] = a
<1> DEFINE n == Cardinality(S)
           Upto(a) == {b \in S : rank[b] <= rank[a]}
           place == [a \in S |-> Cardinality(Upto(a))]
<1>1. n \in Nat
  BY FS_CardinalityType
<1>2. \A a \in S : place[a] \in 1 .. n
  <2> SUFFICES ASSUME NEW a \in S PROVE place[a] \in 1 .. n
    OBVIOUS
  <2>1. Upto(a) \in SUBSET S /\ a \in Upto(a)
    OBVIOUS
  <2>2. IsFiniteSet(Upto(a)) /\ Cardinality(Upto(a)) <= n /\ Cardinality(Upto(a)) \in Nat
    BY <2>1, FS_Subset, FS_CardinalityType
  <2>3. Cardinality(Upto(a)) # 0
    BY <2>1, <2>2, FS_EmptySet
  <2> QED BY <1>1, <2>2, <2>3
<1>3. \A a, b \in S : rank[a] < rank[b] => place[a] < place[b]
  <2> SUFFICES ASSUME NEW a \in S, NEW b \in S, rank[a] < rank[b] PROVE place[a] < place[b]
    OBVIOUS
  <2>1. Upto(b) \in SUBSET S /\ Upto(a) \in SUBSET Upto(b) /\ b \in Upto(b) /\ b \notin Upto(a)
    OBVIOUS
  <2>2. IsFiniteSet(Upto(b)) /\ Cardinality(Upto(b)) \in Nat
    BY <2>1, FS_Subset, FS_CardinalityType
  <2>3. Cardinality(Upto(a)) <= Cardinality(Upto(b)) /\ Cardinality(Upto(a)) # Cardinality(Upto(b))
        /\ IsFiniteSet(Upto(a))
    BY <2>1, <2>2, FS_Subset
  <2>4. Cardinality(Upto(a)) \in Nat
    BY <2>3, FS_CardinalityType
  <2> QED BY <2>2, <2>3, <2>4
<1>4. \A a, b \in S : place[a] = place[b] => a = b
  <2> SUFFICES ASSUME NEW a \in S, NEW b \in S, a # b PROVE place[a] # place[b]
    OBVIOUS
  <2>1. rank[a] < rank[b] \/ rank[b] < rank[a]
    OBVIOUS
  <2>2. place[a] \in Nat /\ place[b] \in Nat
    BY <1>2
  <2> QED BY <1>3, <2>1, <2>2
<1> HIDE DEF place
<1>5. place \in Injection(S, 1 .. n)
  BY <1>2, <1>4 DEF place, Injection, IsInjective
<1>6. IsFiniteSet(1 .. n) /\ Cardinality(1 .. n) = n
  BY <1>1, FS_Interval
<1>7. place \in Surjection(S, 1 .. n)
  BY <1>5, <1>6, FS_Injection
<1>8. \A i \in 1 .. n : \E a \in S : place[a] = i
  BY <1>7 DEF Surjection
<1> DEFINE s == [i \in 1 .. n |-> CHOOSE a \in S : place[a] = i]
<1>9. \A i \in 1 .. n : s[i] \in S /\ place[s[i]] = i
  BY <1>8
<1> HIDE DEF s
<1>10. \A i, k \in 1 .. n : i < k => rank[s[i]] < rank[s[k]]
  <2> SUFFICES ASSUME NEW i \in 1 .. n, NEW k \in 1 .. n, i < k PROVE rank[s[i]] < rank[s[k]]
    OBVIOUS
  <2>1. s[i] \in S /\ s[k] \in S /\ place[s[i]] = i /\ place[s[k]] = k
    BY <1>9
  <2>2. ~ rank[s[k]] < rank[s[i]]
    BY <1>1, <1>3, <2>1
  <2>3. rank[s[k]] # rank[s[i]]
    BY <1>1, <2>1
  <2> QED BY <2>1, <2>2, <2>3
<1>11. s \in [1 .. n -> S]
  BY <1>9 DEF s
<1> DEFINE t == Ascending(S, rank)
<1>12. t \in [1 .. n -> S] /\ \A i, k \in 1 .. n : i < k => rank[t[i]] < rank[t[k]]
  BY <1>10, <1>11 DEF Ascending
<1> HIDE DEF t
<1>13. \A i, k \in 1 .. n : t[i] = t[k] => i = k
  <2> SUFFICES ASSUME NEW i \in 1 .. n, NEW k \in 1 .. n, i # k PROVE t[i] # t[k]
    OBVIOUS
  <2>1. i < k \/ k < i
    BY <1>1
  <2>2. t[i] \in S /\ t[k] \in S
    BY <1>12
  <2> QED BY <1>12, <2>1, <2>2
<1>14. t \in Injection(1 .. n, S)
  BY <1>12, <1>13 DEF Injection, IsInjective
<1>15. t \in Surjection(1 .. n, S)
  BY <1>6, <1>14, FS_Injection
<1>16. \A a \in S : \E i \in 1 .. n : t[i] = a
  BY <1>15 DEF Surjection
<1> QED BY <1>1, <1>12, <1>16 DEF t

-----------------------------------------------------------------------------
(* Calls, by the copy of the rows they work on                             *)

Copies == [journals : SUBSET JournalIds, postings : SUBSET PostingRows,
           raw : [Accounts -> Int], held : [Accounts -> Int],
           holds : [HoldIds -> Hold \cup {NoHold}]]

\* The rows a call reads and writes, if m says which account a hold is on.
Balances(m, c) ==
    CASE c.op = "place" -> {c.account}
      [] c.op = "resolve" -> {m.holds[c.hold].account}
      [] OTHER -> {l.account : l \in c.legs} \cup {m.holds[h].account : h \in HoldsOf(c)}

Inserts(c) == IF c.op \in {"post", "capture"} THEN {c.journal} ELSE {}

\* What Ledger's action for the call asks of the tables.
Allowed(m, posted, c) ==
    LET hold(h) == m.holds[h]
        reserved == [a \in Accounts |-> m.held[a] - Frees(m, c)[a]]
        writes == /\ c.journal \notin posted
                  /\ ValidJournal(RowsOf(c))
                  /\ CanWrite(m.raw, RowsOf(c), reserved)
    IN  CASE c.op = "post" -> writes
          [] c.op = "place" -> /\ hold(c.hold) = NoHold
                               /\ ~ AllowNegative[c.account] =>
                                     AvailableOf(c.account, m.raw[c.account], m.held[c.account]) >= c.amount
          [] c.op = "capture" -> /\ writes
                                 /\ \A h \in c.holds :
                                       /\ hold(h).status = "active"
                                       /\ TakenFrom(RowsOf(c), hold(h).account) \in 1 .. hold(h).amount
                                 /\ \A a \in Balances(m, c) : m.held[a] >= Frees(m, c)[a]
          [] c.op = "resolve" -> /\ hold(c.hold).status = "active"
                                 /\ c.to = "expired" => hold(c.hold).due
                                 /\ m.held[hold(c.hold).account] >= hold(c.hold).amount

\* A hold, and the same hold later: it may have fallen due.
Alike(g, h) ==
    /\ h.account = g.account /\ h.amount = g.amount /\ h.status = g.status
    /\ g.due => h.due
    /\ g = NoHold => h = NoHold

Same(m, n, c) ==
    /\ \A h \in HoldsOf(c) : Alike(m.holds[h], n.holds[h])
    /\ \A a \in Balances(m, c) : m.raw[a] = n.raw[a] /\ m.held[a] = n.held[a]

LEMMA CallIs ==
  ASSUME NEW c \in Call
  PROVE  /\ c.op \in {"post", "place", "capture", "resolve"}
         /\ HoldsOf(c) \subseteq HoldIds /\ IsFiniteSet(HoldsOf(c))
         /\ c.op \in {"post", "capture"} => c.journal \in JournalIds /\ c.legs \in Entries
         /\ c.op = "post" => HoldsOf(c) = {} /\ c.party \in Parties \cup {NoParty}
         /\ c.op = "place" => /\ c.hold \in HoldIds /\ HoldsOf(c) = {c.hold}
                              /\ c.account \in Accounts /\ c.amount \in 1 .. MaxAmount
         /\ c.op = "capture" => HoldsOf(c) = c.holds /\ c.holds # {}
         /\ c.op = "resolve" => c.hold \in HoldIds /\ HoldsOf(c) = {c.hold} /\ c.to \in {"released", "expired"}
<1>1. /\ c.op \in {"post", "place", "capture", "resolve"}
      /\ c.op \in {"post", "capture"} => c.journal \in JournalIds /\ c.legs \in Entries
      /\ c.op = "post" => c.party \in Parties \cup {NoParty}
      /\ c.op = "place" => c.hold \in HoldIds /\ c.account \in Accounts /\ c.amount \in 1 .. MaxAmount
      /\ c.op = "capture" => c.holds \in SUBSET HoldIds /\ c.holds # {}
      /\ c.op = "resolve" => c.hold \in HoldIds /\ c.to \in {"released", "expired"}
  <2>1. CASE c \in [op : {"post"}, journal : JournalIds, legs : Entries, party : Parties \cup {NoParty}]
    BY <2>1
  <2>2. CASE c \in [op : {"place"}, hold : HoldIds, account : Accounts, amount : 1 .. MaxAmount]
    BY <2>2
  <2>3. CASE c \in [op : {"capture"}, holds : (SUBSET HoldIds) \ {{}}, journal : JournalIds, legs : Entries]
    <3> DEFINE Sets == (SUBSET HoldIds) \ {{}}
    <3>1. \A S \in Sets : S \in SUBSET HoldIds /\ S # {}
      BY Zenon
    <3> HIDE DEF Sets
    <3>2. c \in [op : {"capture"}, holds : Sets, journal : JournalIds, legs : Entries]
      BY <2>3 DEF Sets
    <3> QED BY <3>1, <3>2
  <2>4. CASE c \in [op : {"resolve"}, hold : HoldIds, to : {"released", "expired"}]
    BY <2>4
  <2> QED BY <2>1, <2>2, <2>3, <2>4, Zenon DEF Call
<1>2. HoldsOf(c) \in SUBSET HoldIds
  BY <1>1 DEF HoldsOf
<1>3. IsFiniteSet(HoldsOf(c))
  BY <1>2, LedgerAssumption, FS_Subset
<1> QED BY <1>1, <1>2, <1>3 DEF HoldsOf

LEMMA LegsAre ==
  ASSUME NEW legs \in Entries
  PROVE  legs \subseteq Leg /\ IsFiniteSet(legs) /\ \A l \in legs : l.account \in Accounts
BY LedgerAssumption DEF Leg

LEMMA SameBalances ==
  ASSUME NEW c \in Call, NEW m, NEW n, Same(m, n, c)
  PROVE  Balances(n, c) = Balances(m, c)
<1>1. \A h \in HoldsOf(c) : m.holds[h].account = n.holds[h].account
  BY DEF Same, Alike
<1>2. CASE c.op = "place"
  BY <1>2 DEF Balances
<1>3. CASE c.op = "resolve"
  <2>1. m.holds[c.hold].account = n.holds[c.hold].account
    BY <1>1, <1>3, CallIs
  <2> QED BY <1>3, <2>1 DEF Balances
<1>4. CASE c.op \notin {"place", "resolve"}
  <2>1. {m.holds[h].account : h \in HoldsOf(c)} = {n.holds[h].account : h \in HoldsOf(c)}
    BY <1>1
  <2> QED BY <1>4, <2>1 DEF Balances
<1> QED BY <1>2, <1>3, <1>4

LEMMA SameFrees ==
  ASSUME NEW c \in Call, NEW m, NEW n, Same(m, n, c)
  PROVE  Frees(n, c) = Frees(m, c)
<1>1. \A a \in Accounts : ReservedIn(n.holds, HoldsOf(c), a) = ReservedIn(m.holds, HoldsOf(c), a)
  <2>1. \A h \in HoldsOf(c) : /\ n.holds[h].account = m.holds[h].account
                              /\ n.holds[h].amount = m.holds[h].amount
    BY DEF Same, Alike
  <2> QED BY <2>1, ReservedCongruence
<1> QED BY <1>1 DEF Frees

\* What a call may do depends on the rows it touches only.
LEMMA SameAllowed ==
  ASSUME NEW c \in Call, NEW m, NEW n, Same(m, n, c),
         NEW posted, NEW later, Inserts(c) \cap later \subseteq posted, Allowed(m, posted, c)
  PROVE  Allowed(n, later, c)
<1>1. Balances(n, c) = Balances(m, c) /\ Frees(n, c) = Frees(m, c)
  BY SameBalances, SameFrees
<1>2. CASE c.op \in {"post", "capture"}
  <2> DEFINE R == RowsOf(c)
             bal(k) == [a \in Accounts |-> k.held[a] - Frees(k, c)[a]]
  <2>1. \A p \in R : p[2] \in c.legs /\ p[2].account \in Balances(m, c) /\ p[2].account \in Accounts
    BY <1>2, CallIs, LegsAre DEF RowsOf, Balances
  <2>2. \A p \in R : bal(m)[p[2].account] = bal(n)[p[2].account] /\ m.raw[p[2].account] = n.raw[p[2].account]
    BY <1>1, <2>1 DEF Same
  <2>3. CanWrite(m.raw, R, bal(m))
    BY <1>2 DEF Allowed
  <2>4. CanWrite(n.raw, R, bal(n))
    <3> HIDE DEF R, bal
    <3> QED BY <2>2, <2>3 DEF CanWrite
  <2>5. c.journal \notin later
    BY <1>2 DEF Inserts, Allowed
  <2> HIDE DEF R
  <2>6. CASE c.op = "post"
    BY <2>4, <2>5, <2>6 DEF Allowed, R
  <2>7. CASE c.op = "capture"
    <3>1. \A h \in c.holds : /\ n.holds[h].status = m.holds[h].status
                             /\ n.holds[h].account = m.holds[h].account
                             /\ n.holds[h].amount = m.holds[h].amount
      BY <2>7, CallIs DEF Same, Alike
    <3>2. \A a \in Balances(m, c) : n.held[a] = m.held[a]
      BY DEF Same
    <3> QED BY <2>4, <2>5, <2>7, <3>1, <3>2, <1>1 DEF Allowed, R
  <2> QED BY <1>2, <2>6, <2>7
<1>3. CASE c.op = "place"
  BY <1>3, CallIs DEF Allowed, Same, Alike, Balances
<1>4. CASE c.op = "resolve"
  BY <1>4, CallIs DEF Allowed, Same, Alike, Balances
<1> QED BY <1>2, <1>3, <1>4, CallIs

\* What a call leaves in the copy, field by field.
NewRows(c) == IF c.op \in {"post", "capture"} THEN RowsOf(c) ELSE {}

HeldAfter(m, c, a) ==
    CASE c.op = "place" -> IF a = c.account THEN m.held[a] + c.amount ELSE m.held[a]
      [] c.op = "resolve" -> IF a = m.holds[c.hold].account
                             THEN m.held[a] - m.holds[c.hold].amount ELSE m.held[a]
      [] OTHER -> m.held[a] - Frees(m, c)[a]

HoldAfter(m, c, h) ==
    IF h \notin HoldsOf(c) THEN m.holds[h]
    ELSE CASE c.op = "place" -> [status |-> "active", account |-> c.account, amount |-> c.amount,
                                 due |-> FALSE, journal |-> NoJournal, taken |-> 0]
           [] c.op = "capture" -> [m.holds[h] EXCEPT
                !.status = "captured", !.journal = c.journal,
                !.taken = TakenFrom(RowsOf(c), m.holds[h].account)]
           [] OTHER -> [m.holds[h] EXCEPT !.status = c.to]

LEMMA WrittenIs ==
  ASSUME NEW c \in Call, NEW m \in Copies
  PROVE  Written(m, c) = [journals |-> m.journals \cup Inserts(c), postings |-> m.postings \cup NewRows(c),
                          raw |-> [a \in Accounts |-> m.raw[a] + Signed(On(NewRows(c), a))],
                          held |-> [a \in Accounts |-> HeldAfter(m, c, a)],
                          holds |-> [h \in HoldIds |-> HoldAfter(m, c, h)]]
<1> DEFINE none == [a \in Accounts |-> m.raw[a] + Signed(On({}, a))]
<1>1. m = [journals |-> m.journals, postings |-> m.postings, raw |-> m.raw, held |-> m.held, holds |-> m.holds]
      /\ m.raw \in [Accounts -> Int] /\ m.held \in [Accounts -> Int]
      /\ m.holds = [h \in HoldIds |-> m.holds[h]]
  BY DEF Copies
<1>2. none = m.raw
  <2>1. \A a : Signed(On({}, a)) = 0
    <3>1. \A a : On({}, a) = {}
      BY DEF On
    <3> QED BY <3>1, SignedEmpty
  <2>2. \A a \in Accounts : none[a] = m.raw[a]
    BY <1>1, <2>1
  <2> QED BY <1>1, <2>2
<1> HIDE DEF none
<1>3. CASE c.op \in {"post", "capture"}
  <2>1. Posted(m, RowsOf(c), c.journal, Frees(m, c))
          = [journals |-> m.journals \cup Inserts(c), postings |-> m.postings \cup NewRows(c),
             raw |-> [a \in Accounts |-> m.raw[a] + Signed(On(NewRows(c), a))],
             held |-> [a \in Accounts |-> HeldAfter(m, c, a)], holds |-> m.holds]
    <3>1. Inserts(c) = {c.journal} /\ NewRows(c) = RowsOf(c)
      BY <1>3 DEF Inserts, NewRows
    <3>2. \A a : HeldAfter(m, c, a) = m.held[a] - Frees(m, c)[a]
      BY <1>3 DEF HeldAfter
    <3> DEFINE raws == [a \in Accounts |-> m.raw[a] + Signed(On(RowsOf(c), a))]
               helds == [a \in Accounts |-> m.held[a] - Frees(m, c)[a]]
    <3>3. Posted(m, RowsOf(c), c.journal, Frees(m, c))
            = [m EXCEPT !.journals = @ \cup {c.journal}, !.postings = @ \cup RowsOf(c),
                        !.raw = raws, !.held = helds]
      BY DEF Posted
    <3>4. helds = [a \in Accounts |-> HeldAfter(m, c, a)]
      BY <3>2
    <3>5. raws = [a \in Accounts |-> m.raw[a] + Signed(On(NewRows(c), a))]
      BY <3>1
    <3> HIDE DEF raws, helds
    <3>6. Posted(m, RowsOf(c), c.journal, Frees(m, c))
            = [journals |-> m.journals \cup {c.journal}, postings |-> m.postings \cup RowsOf(c),
               raw |-> raws, held |-> helds, holds |-> m.holds]
      BY <1>1, <3>3
    <3> QED BY <3>1, <3>4, <3>5, <3>6
  <2>2. CASE c.op = "post"
    <3>1. \A h : HoldAfter(m, c, h) = m.holds[h]
      BY <2>2 DEF HoldAfter, HoldsOf
    <3> QED BY <1>1, <2>1, <2>2, <3>1 DEF Written
  <2>3. CASE c.op = "capture"
    <3>1. \A h \in HoldIds : HoldAfter(m, c, h) =
              IF h \in c.holds
              THEN [m.holds[h] EXCEPT !.status = "captured", !.journal = c.journal,
                        !.taken = TakenFrom(RowsOf(c), m.holds[h].account)]
              ELSE m.holds[h]
      BY <2>3, CallIs DEF HoldAfter
    <3>2. [h \in HoldIds |-> HoldAfter(m, c, h)]
            = [h \in HoldIds |->
                 IF h \in c.holds
                 THEN [m.holds[h] EXCEPT !.status = "captured", !.journal = c.journal,
                           !.taken = TakenFrom(RowsOf(c), m.holds[h].account)]
                 ELSE m.holds[h]]
      BY <3>1
    <3> DEFINE hs == [h \in HoldIds |-> HoldAfter(m, c, h)]
    <3>3. Written(m, c) = [Posted(m, RowsOf(c), c.journal, Frees(m, c)) EXCEPT !.holds = hs]
      BY <2>3, <3>2 DEF Written
    <3> DEFINE posted == Posted(m, RowsOf(c), c.journal, Frees(m, c))
               raws == [a \in Accounts |-> m.raw[a] + Signed(On(NewRows(c), a))]
               helds == [a \in Accounts |-> HeldAfter(m, c, a)]
    <3>4. posted = [journals |-> m.journals \cup Inserts(c), postings |-> m.postings \cup NewRows(c),
                    raw |-> raws, held |-> helds, holds |-> m.holds]
      BY <2>1
    <3>5. Written(m, c) = [posted EXCEPT !.holds = hs]
      BY <3>3
    <3> HIDE DEF hs, posted, raws, helds
    <3>6. Written(m, c) = [journals |-> m.journals \cup Inserts(c), postings |-> m.postings \cup NewRows(c),
                           raw |-> raws, held |-> helds, holds |-> hs]
      BY <3>4, <3>5
    <3> QED BY <3>6 DEF hs, raws, helds
  <2> QED BY <1>3, <2>2, <2>3
<1>4. CASE c.op \in {"place", "resolve"}
  <2>1. Inserts(c) = {} /\ NewRows(c) = {} /\ none = [a \in Accounts |-> m.raw[a] + Signed(On(NewRows(c), a))]
    BY <1>4 DEF Inserts, NewRows, none
  <2>2. HoldsOf(c) = {c.hold} /\ c.hold \in HoldIds
    BY <1>4, CallIs
  <2>3. CASE c.op = "place"
    <3>1. \A a : HeldAfter(m, c, a) = IF a = c.account THEN m.held[a] + c.amount ELSE m.held[a]
      BY <2>3 DEF HeldAfter
    <3>2. \A h : HoldAfter(m, c, h) = IF h = c.hold
              THEN [status |-> "active", account |-> c.account, amount |-> c.amount,
                    due |-> FALSE, journal |-> NoJournal, taken |-> 0]
              ELSE m.holds[h]
      BY <2>2, <2>3 DEF HoldAfter
    <3> DEFINE new == [status |-> "active", account |-> c.account, amount |-> c.amount,
                       due |-> FALSE, journal |-> NoJournal, taken |-> 0]
               helds == [m.held EXCEPT ![c.account] = @ + c.amount]
               hs == [m.holds EXCEPT ![c.hold] = new]
    <3>3. helds = [a \in Accounts |-> HeldAfter(m, c, a)]
      BY <1>1, <3>1
    <3>4. hs = [h \in HoldIds |-> HoldAfter(m, c, h)]
      BY <1>1, <3>2
    <3>5. Written(m, c) = [m EXCEPT !.held = helds, !.holds = hs]
      BY <1>1, <2>3 DEF Written
    <3> HIDE DEF helds, hs
    <3>6. Written(m, c) = [journals |-> m.journals, postings |-> m.postings, raw |-> m.raw,
                           held |-> helds, holds |-> hs]
      BY <1>1, <3>5
    <3> QED BY <1>2, <2>1, <3>3, <3>4, <3>6
  <2>4. CASE c.op = "resolve"
    <3>1. \A a : HeldAfter(m, c, a) = IF a = m.holds[c.hold].account
              THEN m.held[a] - m.holds[c.hold].amount ELSE m.held[a]
      BY <2>4 DEF HeldAfter
    <3>2. \A h : HoldAfter(m, c, h) = IF h = c.hold THEN [m.holds[h] EXCEPT !.status = c.to] ELSE m.holds[h]
      BY <2>2, <2>4 DEF HoldAfter
    <3> DEFINE helds == [m.held EXCEPT ![m.holds[c.hold].account] = @ - m.holds[c.hold].amount]
               hs == [m.holds EXCEPT ![c.hold] = [m.holds[c.hold] EXCEPT !.status = c.to]]
    <3>3. helds = [a \in Accounts |-> HeldAfter(m, c, a)]
      BY <1>1, <3>1
    <3>4. hs = [h \in HoldIds |-> HoldAfter(m, c, h)]
      BY <1>1, <3>2
    <3>5. Written(m, c) = [m EXCEPT !.held = helds, !.holds = hs]
      BY <1>1, <2>2, <2>4 DEF Written
    <3> HIDE DEF helds, hs
    <3>6. Written(m, c) = [journals |-> m.journals, postings |-> m.postings, raw |-> m.raw,
                           held |-> helds, holds |-> hs]
      BY <1>1, <3>5
    <3> QED BY <1>2, <2>1, <3>3, <3>4, <3>6
  <2> QED BY <1>4, <2>3, <2>4
<1> QED BY <1>3, <1>4, CallIs

\* What it writes of a row depends on that row and on those it touches.
LEMMA SameWritten ==
  ASSUME NEW c \in Call, NEW m \in Copies, NEW n \in Copies, Same(m, n, c)
  PROVE  /\ \A a \in Accounts : m.raw[a] = n.raw[a] /\ m.held[a] = n.held[a]
              => Written(m, c).raw[a] = Written(n, c).raw[a] /\ Written(m, c).held[a] = Written(n, c).held[a]
         /\ \A h \in HoldIds : m.holds[h] = n.holds[h] => Written(m, c).holds[h] = Written(n, c).holds[h]
<1>1. /\ Frees(n, c) = Frees(m, c)
      /\ \A h \in HoldsOf(c) : /\ n.holds[h].account = m.holds[h].account
                               /\ n.holds[h].amount = m.holds[h].amount
  BY SameFrees DEF Same, Alike
<1>2. \A a \in Accounts : m.held[a] = n.held[a] => HeldAfter(m, c, a) = HeldAfter(n, c, a)
  BY <1>1, CallIs DEF HeldAfter
<1>3. \A h \in HoldIds : m.holds[h] = n.holds[h] => HoldAfter(m, c, h) = HoldAfter(n, c, h)
  BY <1>1 DEF HoldAfter
<1> QED BY <1>2, <1>3, WrittenIs

\* It frees nothing of an account none of its holds is on.
LEMMA FreesNothing ==
  ASSUME NEW m, NEW c, NEW a \in Accounts, \A h \in HoldsOf(c) : m.holds[h].account # a
  PROVE  Frees(m, c)[a] = 0
<1> DEFINE on == {h \in HoldsOf(c) : m.holds[h].account = a}
           amounts == [h \in on |-> m.holds[h].amount]
<1>1. ReservedIn(m.holds, HoldsOf(c), a) = Total(amounts, on)
  BY DEF ReservedIn
<1>2. on = {}
  OBVIOUS
<1> HIDE DEF amounts
<1> QED BY <1>1, <1>2, TotalEmpty DEF Frees

\* It leaves alone the rows it does not touch.
LEMMA UntouchedStays ==
  ASSUME NEW c \in Call, NEW m \in Copies
  PROVE  /\ \A a \in Accounts \ Balances(m, c) :
                Written(m, c).raw[a] = m.raw[a] /\ Written(m, c).held[a] = m.held[a]
         /\ \A h \in HoldIds \ HoldsOf(c) : Written(m, c).holds[h] = m.holds[h]
<1>1. ASSUME NEW a \in Accounts \ Balances(m, c)
      PROVE  Written(m, c).raw[a] = m.raw[a] /\ Written(m, c).held[a] = m.held[a]
  <2>1. On(NewRows(c), a) = {}
    BY <1>1, CallIs DEF On, NewRows, RowsOf, Balances
  <2>2. m.raw[a] \in Int /\ m.held[a] \in Int
    BY DEF Copies
  <2>3. HeldAfter(m, c, a) = m.held[a]
    <3>1. CASE c.op \in {"post", "capture"}
      <4>1. Frees(m, c)[a] = 0
        BY <1>1, <3>1, FreesNothing DEF Balances
      <4> QED BY <2>2, <3>1, <4>1 DEF HeldAfter
    <3>2. CASE c.op \in {"place", "resolve"}
      BY <1>1, <3>2 DEF HeldAfter, Balances
    <3> QED BY <3>1, <3>2, CallIs
  <2>4. Signed(On(NewRows(c), a)) = 0
    BY <2>1, SignedEmpty
  <2> QED BY <2>2, <2>3, <2>4, WrittenIs
<1>2. \A h \in HoldIds \ HoldsOf(c) : Written(m, c).holds[h] = m.holds[h]
  <2>1. \A h \in HoldIds \ HoldsOf(c) : HoldAfter(m, c, h) = m.holds[h]
    BY DEF HoldAfter
  <2> QED BY <2>1, WrittenIs
<1> QED BY <1>1, <1>2

\* The committed tables as a copy that has nothing of its own.
Committed == [journals |-> {}, postings |-> {}, raw |-> raw, held |-> held, holds |-> holds]

LEMMA CommittedIs == TypeOK => Committed \in Copies
BY DEF TypeOK, Committed, Copies

\* A call that is allowed, and writes what it writes, is a step of the ledger.
LEMMA CallSteps ==
  ASSUME TypeOK, NEW c \in Call, Allowed(Committed, journals, c),
         journals' = journals \cup Inserts(c), postings' = postings \cup NewRows(c),
         raw' = Written(Committed, c).raw, held' = Written(Committed, c).held,
         holds' = Written(Committed, c).holds
  PROVE  Next
<1>1. /\ raw' = [a \in Accounts |-> raw[a] + Signed(On(NewRows(c), a))]
      /\ held' = [a \in Accounts |-> HeldAfter(Committed, c, a)]
      /\ holds' = [h \in HoldIds |-> HoldAfter(Committed, c, h)]
  <2> DEFINE m == Committed
  <2>1. m \in Copies /\ m.raw = raw
    BY CommittedIs DEF Committed
  <2> HIDE DEF m
  <2>2. /\ Written(m, c).raw = [a \in Accounts |-> m.raw[a] + Signed(On(NewRows(c), a))]
        /\ Written(m, c).held = [a \in Accounts |-> HeldAfter(m, c, a)]
        /\ Written(m, c).holds = [h \in HoldIds |-> HoldAfter(m, c, h)]
    BY <2>1, WrittenIs
  <2> QED BY <2>1, <2>2 DEF m
<1>2. /\ raw \in [Accounts -> Int] /\ held \in [Accounts -> Int] /\ holds \in [HoldIds -> Hold \cup {NoHold}]
      /\ Committed.raw = raw /\ Committed.held = held /\ Committed.holds = holds
  BY DEF TypeOK, Committed
<1>3. CASE c.op = "post"
  <2> DEFINE zeros == [a \in Accounts |-> 0]
  <2>1. Inserts(c) = {c.journal} /\ NewRows(c) = RowsOf(c)
    BY <1>3 DEF Inserts, NewRows
  <2>2. HoldsOf(c) = {} /\ c.journal \in JournalIds /\ c.legs \in Entries
    BY <1>3, CallIs
  <2>3. \A a \in Accounts : Frees(Committed, c)[a] = 0
    BY <2>2, FreesNothing
  <2>4. /\ [a \in Accounts |-> held[a] - Frees(Committed, c)[a]] = held
        /\ [a \in Accounts |-> held[a] - zeros[a]] = held
    BY <1>2, <2>3
  <2>5. c.journal \notin journals /\ ValidJournal(RowsOf(c)) /\ CanWrite(raw, RowsOf(c), held)
    BY <1>2, <1>3, <2>4 DEF Allowed
  <2>6. holds' = holds
    <3>1. \A h \in HoldIds : HoldAfter(Committed, c, h) = holds[h]
      BY <1>2, <2>2 DEF HoldAfter
    <3> QED BY <1>1, <1>2, <3>1
  <2>7. held' = held
    <3>1. \A a \in Accounts : HeldAfter(Committed, c, a) = held[a]
      BY <1>2, <1>3, <2>3 DEF HeldAfter
    <3> QED BY <1>1, <1>2, <3>1
  <2>8. RowsOf(c) = {c.journal} \X c.legs
    BY DEF RowsOf
  <2>9. \A a \in Accounts : zeros[a] > 0 => held[a] >= zeros[a]
    OBVIOUS
  <2> HIDE DEF zeros
  <2>10. Write(c.journal, RowsOf(c), zeros)
    BY <1>1, <2>1, <2>4, <2>5, <2>7, <2>9 DEF Write
  <2>11. PostJournal(c.journal, c.legs)
    BY <2>6, <2>8, <2>10 DEF PostJournal, zeros
  <2> QED BY <2>2, <2>11 DEF Next
<1>4. CASE c.op = "place"
  <2>1. Inserts(c) = {} /\ NewRows(c) = {} /\ HoldsOf(c) = {c.hold}
    BY <1>4, CallIs DEF Inserts, NewRows
  <2>2. c.hold \in HoldIds /\ c.account \in Accounts /\ c.amount \in 1 .. MaxAmount
    BY <1>4, CallIs
  <2>3. /\ holds[c.hold] = NoHold
        /\ ~ AllowNegative[c.account] => Available(c.account) >= c.amount
    BY <1>2, <1>4 DEF Allowed, Available
  <2>4. raw' = raw
    <3>1. \A a : Signed(On({}, a)) = 0
      <4>1. \A a : On({}, a) = {}
        BY DEF On
      <4> QED BY <4>1, SignedEmpty
    <3>2. \A a \in Accounts : raw[a] + Signed(On(NewRows(c), a)) = raw[a]
      BY <1>2, <2>1, <3>1
    <3> QED BY <1>1, <1>2, <3>2
  <2>5. held' = [held EXCEPT ![c.account] = @ + c.amount]
    <3>1. \A a \in Accounts : HeldAfter(Committed, c, a) = IF a = c.account THEN held[a] + c.amount ELSE held[a]
      BY <1>2, <1>4 DEF HeldAfter
    <3> QED BY <1>1, <1>2, <3>1
  <2>6. holds' = [holds EXCEPT ![c.hold] =
                    [status |-> "active", account |-> c.account, amount |-> c.amount,
                     due |-> FALSE, journal |-> NoJournal, taken |-> 0]]
    <3>1. \A h \in HoldIds : HoldAfter(Committed, c, h) = IF h = c.hold
              THEN [status |-> "active", account |-> c.account, amount |-> c.amount,
                    due |-> FALSE, journal |-> NoJournal, taken |-> 0]
              ELSE holds[h]
      BY <1>2, <1>4, <2>1 DEF HoldAfter
    <3> QED BY <1>1, <1>2, <3>1
  <2>7. PlaceHold(c.hold, c.account, c.amount)
    BY <2>1, <2>3, <2>4, <2>5, <2>6 DEF PlaceHold
  <2> QED BY <2>2, <2>7 DEF Next
<1>5. CASE c.op = "capture"
  <2> DEFINE frees == [a \in Accounts |-> Reserved(c.holds, a)]
  <2>1. Inserts(c) = {c.journal} /\ NewRows(c) = RowsOf(c)
    BY <1>5 DEF Inserts, NewRows
  <2>2. /\ HoldsOf(c) = c.holds /\ c.holds \in SUBSET HoldIds /\ c.holds # {}
        /\ c.journal \in JournalIds /\ c.legs \in Entries
    BY <1>5, CallIs
  <2>3. Frees(Committed, c) = frees
    BY <1>2, <2>2 DEF Frees, Reserved
  <2>4. /\ c.journal \notin journals /\ ValidJournal(RowsOf(c))
        /\ CanWrite(raw, RowsOf(c), [a \in Accounts |-> held[a] - frees[a]])
        /\ \A h \in c.holds : /\ holds[h].status = "active"
                              /\ TakenFrom(RowsOf(c), holds[h].account) \in 1 .. holds[h].amount
        /\ \A a \in Balances(Committed, c) : held[a] >= frees[a]
    BY <1>2, <1>5, <2>3 DEF Allowed
  <2>5. \A a \in Accounts : frees[a] > 0 => held[a] >= frees[a]
    <3> SUFFICES ASSUME NEW a \in Accounts, frees[a] > 0 PROVE held[a] >= frees[a]
      OBVIOUS
    <3>1. a \in Balances(Committed, c)
      <4>1. \E h \in HoldsOf(c) : Committed.holds[h].account = a
        <5> SUFFICES ASSUME \A h \in HoldsOf(c) : Committed.holds[h].account # a PROVE FALSE
          OBVIOUS
        <5>1. frees[a] = 0
          BY <2>3, FreesNothing
        <5> HIDE DEF frees
        <5> QED BY <5>1
      <4> QED BY <1>5, <4>1 DEF Balances
    <3> QED BY <2>4, <3>1
  <2>6. held' = [a \in Accounts |-> held[a] - frees[a]]
    <3>1. \A a \in Accounts : HeldAfter(Committed, c, a) = held[a] - frees[a]
      BY <1>2, <1>5, <2>3 DEF HeldAfter
    <3> QED BY <1>1, <3>1
  <2>7. holds' = [h \in HoldIds |->
                        IF h \in c.holds
                        THEN [holds[h] EXCEPT !.status = "captured", !.journal = c.journal,
                                              !.taken = TakenFrom(RowsOf(c), holds[h].account)]
                        ELSE holds[h]]
    <3>1. \A h \in HoldIds : HoldAfter(Committed, c, h) =
                        IF h \in c.holds
                        THEN [holds[h] EXCEPT !.status = "captured", !.journal = c.journal,
                                              !.taken = TakenFrom(RowsOf(c), holds[h].account)]
                        ELSE holds[h]
      BY <1>2, <1>5, <2>2 DEF HoldAfter
    <3> QED BY <1>1, <3>1
  <2>8. RowsOf(c) = {c.journal} \X c.legs
    BY DEF RowsOf
  <2> HIDE DEF frees
  <2>9. Write(c.journal, RowsOf(c), frees)
    BY <1>1, <2>1, <2>4, <2>5, <2>6 DEF Write
  <2>10. CaptureHolds(c.holds, c.journal, c.legs)
    BY <2>2, <2>4, <2>7, <2>8, <2>9 DEF CaptureHolds, frees
  <2> QED BY <2>2, <2>10 DEF Next
<1>6. CASE c.op = "resolve"
  <2>1. Inserts(c) = {} /\ NewRows(c) = {} /\ HoldsOf(c) = {c.hold}
    BY <1>6, CallIs DEF Inserts, NewRows
  <2>2. c.hold \in HoldIds /\ c.to \in {"released", "expired"}
    BY <1>6, CallIs
  <2> DEFINE a == holds[c.hold].account
  <2>3. /\ holds[c.hold].status = "active" /\ (c.to = "expired" => holds[c.hold].due)
        /\ held[a] >= holds[c.hold].amount
    BY <1>2, <1>6 DEF Allowed
  <2>4. raw' = raw
    <3>1. \A b : Signed(On({}, b)) = 0
      <4>1. \A b : On({}, b) = {}
        BY DEF On
      <4> QED BY <4>1, SignedEmpty
    <3>2. \A b \in Accounts : raw[b] + Signed(On(NewRows(c), b)) = raw[b]
      BY <1>2, <2>1, <3>1
    <3> QED BY <1>1, <1>2, <3>2
  <2>5. held' = [held EXCEPT ![a] = @ - holds[c.hold].amount]
    <3>1. \A b \in Accounts : HeldAfter(Committed, c, b)
              = IF b = a THEN held[b] - holds[c.hold].amount ELSE held[b]
      BY <1>2, <1>6 DEF HeldAfter
    <3>2. a \in Accounts
      BY <1>2, <2>2, <2>3 DEF Hold, NoHold
    <3> HIDE DEF a
    <3> QED BY <1>1, <1>2, <3>1, <3>2
  <2>6. holds' = [holds EXCEPT ![c.hold].status = c.to]
    <3>1. \A h \in HoldIds : HoldAfter(Committed, c, h)
              = IF h = c.hold THEN [holds[h] EXCEPT !.status = c.to] ELSE holds[h]
      BY <1>2, <1>6, <2>1 DEF HoldAfter
    <3> QED BY <1>1, <1>2, <3>1
  <2>7. ResolveHold(c.hold, c.to)
    BY <2>1, <2>3, <2>4, <2>5, <2>6 DEF ResolveHold
  <2> QED BY <2>2, <2>7 DEF Next, ReleaseHold, ExpireHold
<1> QED BY <1>3, <1>4, <1>5, <1>6, CallIs

-----------------------------------------------------------------------------
(* The order of locks                                                      *)

\* Hold rows come first, then the journal, then balances, then a customer.
Kind(tag) == CASE tag = "hold" -> 1 [] tag = "journal" -> 2 [] tag = "balance" -> 3 [] OTHER -> 4

Before(r, q) ==
    \/ Kind(r[1]) < Kind(q[1])
    \/ r[1] = "hold" /\ q[1] = "hold" /\ HoldOrder[r[2]] < HoldOrder[q[2]]
    \/ r[1] = "balance" /\ q[1] = "balance" /\ AccountId[r[2]] < AccountId[q[2]]

\* The sequence s has the rows S, in that order.
Lists(s, S) ==
    /\ s \in Seq(S)
    /\ \A x \in S : \E i \in DOMAIN s : s[i] = x
    /\ \A i, k \in DOMAIN s : i < k => Before(s[i], s[k])

LEMMA ListsOne == ASSUME NEW x PROVE Lists(<<x>>, {x})
BY DEF Lists

LEMMA ListsNone == Lists(<<>>, {})
BY DEF Lists

LEMMA ListsPair == ASSUME NEW r, NEW q, Before(r, q) PROVE Lists(<<r, q>>, {r, q})
<1> DEFINE s == <<r, q>>
<1>1. s \in Seq({r, q}) /\ DOMAIN s = 1 .. 2 /\ s[1] = r /\ s[2] = q
  OBVIOUS
<1> HIDE DEF s
<1>2. \A i \in 1 .. 2 : i = 1 \/ i = 2
  OBVIOUS
<1>3. Lists(s, {r, q})
  BY <1>1, <1>2 DEF Lists
<1> QED BY <1>3 DEF s

LEMMA ListsTwo ==
  ASSUME NEW S, NEW T, NEW s, NEW u, Lists(s, S), Lists(u, T), \A x \in S, y \in T : Before(x, y)
  PROVE  Lists(s \o u, S \cup T)
<1> DEFINE w == s \o u
<1>1. s \in Seq(S) /\ u \in Seq(T) /\ s \in Seq(S \cup T) /\ u \in Seq(S \cup T)
  BY DEF Lists
<1>2. /\ Len(s) \in Nat /\ Len(u) \in Nat /\ DOMAIN s = 1 .. Len(s) /\ DOMAIN u = 1 .. Len(u)
      /\ \A i \in 1 .. Len(s) : s[i] \in S
      /\ \A i \in 1 .. Len(u) : u[i] \in T
  BY <1>1
<1>3. /\ w \in Seq(S \cup T) /\ DOMAIN w = 1 .. Len(s) + Len(u)
      /\ \A i \in 1 .. Len(s) + Len(u) : w[i] = IF i <= Len(s) THEN s[i] ELSE u[i - Len(s)]
  BY <1>1, <1>2
<1> HIDE DEF w
<1>4. ASSUME NEW x \in S \cup T PROVE \E i \in DOMAIN w : w[i] = x
  <2>1. CASE x \in S
    <3>1. PICK i \in 1 .. Len(s) : s[i] = x
      BY <1>2, <2>1 DEF Lists
    <3> QED BY <1>2, <1>3, <3>1
  <2>2. CASE x \in T
    <3>1. PICK i \in 1 .. Len(u) : u[i] = x
      BY <1>2, <2>2 DEF Lists
    <3>2. PICK k \in 1 .. Len(s) + Len(u) : k = i + Len(s)
      BY <1>2
    <3>3. ~ k <= Len(s) /\ k - Len(s) = i
      BY <1>2, <3>2
    <3>4. w[k] = u[i]
      BY <1>3, <3>3
    <3> QED BY <1>3, <3>1, <3>4
  <2> QED BY <1>4, <2>1, <2>2
<1>5. ASSUME NEW i \in DOMAIN w, NEW k \in DOMAIN w, i < k PROVE Before(w[i], w[k])
  <2>1. i \in 1 .. Len(s) + Len(u) /\ k \in 1 .. Len(s) + Len(u)
    BY <1>3
  <2>2. CASE k <= Len(s)
    BY <1>2, <1>3, <1>5, <2>1, <2>2 DEF Lists
  <2>3. CASE Len(s) < i
    <3>1. i - Len(s) \in DOMAIN u /\ k - Len(s) \in DOMAIN u /\ i - Len(s) < k - Len(s)
      BY <1>2, <1>5, <2>1, <2>3
    <3>2. w[i] = u[i - Len(s)] /\ w[k] = u[k - Len(s)]
      BY <1>2, <1>3, <1>5, <2>1, <2>3
    <3> QED BY <3>1, <3>2 DEF Lists
  <2>4. CASE i <= Len(s) /\ Len(s) < k
    <3>1. w[i] = s[i] /\ w[k] = u[k - Len(s)]
      BY <1>2, <1>3, <2>1, <2>4
    <3>2. i \in 1 .. Len(s) /\ k - Len(s) \in 1 .. Len(u)
      BY <1>2, <2>1, <2>4
    <3> QED BY <1>2, <3>1, <3>2
  <2> QED BY <1>2, <2>1, <2>2, <2>3, <2>4
<1> QED BY <1>3, <1>4, <1>5 DEF Lists, w

LEMMA TaggedLists ==
  ASSUME NEW tag \in {"hold", "balance"}, NEW S, IsFiniteSet(S), NEW rank,
         \A a \in S : rank[a] \in Nat, \A a, b \in S : rank[a] = rank[b] => a = b,
         \A a, b \in S : rank[a] < rank[b] => Before(<<tag, a>>, <<tag, b>>)
  PROVE  Lists(Tagged(tag, Ascending(S, rank)), {tag} \X S)
<1> DEFINE n == Cardinality(S)
           s == Ascending(S, rank)
           u == Tagged(tag, s)
<1>1. /\ n \in Nat /\ s \in [1 .. n -> S]
      /\ \A i, k \in 1 .. n : i < k => rank[s[i]] < rank[s[k]]
      /\ \A a \in S : \E i \in 1 .. n : s[i] = a
  BY AscendingIs
<1> HIDE DEF s, n
<1>2. u = [i \in 1 .. n |-> <<tag, s[i]>>]
  BY <1>1 DEF Tagged
<1>3. u \in Seq({tag} \X S) /\ DOMAIN u = 1 .. n
  BY <1>1, <1>2
<1>4. \A x \in {tag} \X S : \E i \in DOMAIN u : u[i] = x
  <2> SUFFICES ASSUME NEW a \in S PROVE \E i \in DOMAIN u : u[i] = <<tag, a>>
    OBVIOUS
  <2>1. PICK i \in 1 .. n : s[i] = a
    BY <1>1
  <2> QED BY <1>2, <1>3, <2>1
<1>5. \A i, k \in DOMAIN u : i < k => Before(u[i], u[k])
  <2> SUFFICES ASSUME NEW i \in 1 .. n, NEW k \in 1 .. n, i < k PROVE Before(u[i], u[k])
    BY <1>3
  <2>1. s[i] \in S /\ s[k] \in S /\ rank[s[i]] < rank[s[k]]
    BY <1>1
  <2>2. u[i] = <<tag, s[i]>> /\ u[k] = <<tag, s[k]>>
    BY <1>2
  <2> QED BY <2>1, <2>2
<1> HIDE DEF u
<1>6. Lists(u, {tag} \X S)
  BY <1>3, <1>4, <1>5 DEF Lists
<1> QED BY <1>6 DEF u, s

\* The rows a call locks, by what its transaction has read so far.
Needs(t, c) ==
    CASE c.op = "post" ->
            ({<<"journal", c.journal>>} \cup ({"balance"} \X {l.account : l \in c.legs}))
              \cup (IF c.party = NoParty THEN {} ELSE {<<"party", c.party>>})
      [] c.op = "place" -> {<<"hold", c.hold>>} \cup {<<"balance", c.account>>}
      [] c.op = "capture" ->
            ({"hold"} \X c.holds)
              \cup (IF ~ OwnsHolds(t, c) THEN {}
                    ELSE {<<"journal", c.journal>>}
                         \cup ({"balance"} \X ({l.account : l \in c.legs}
                                   \cup {mine[t].holds[h].account : h \in c.holds})))
      [] c.op = "resolve" ->
            {<<"hold", c.hold>>}
              \cup (IF ~ OwnsHolds(t, c) THEN {} ELSE {<<"balance", mine[t].holds[c.hold].account>>})

\* The holds a transaction has locked are on accounts.
KnowsAccounts(t, c) ==
    c.op \in {"capture", "resolve"} /\ OwnsHolds(t, c)
        => \A h \in HoldsOf(c) : mine[t].holds[h].account \in Accounts

LEMMA BalancesList ==
  ASSUME NEW S \in SUBSET Accounts
  PROVE  Lists(BalanceOrder(S), {"balance"} \X S)
<1>1. IsFiniteSet(S)
  BY LedgerAssumption, FS_Subset
<1>2. /\ \A a \in S : AccountId[a] \in Nat
      /\ \A a, b \in S : AccountId[a] = AccountId[b] => a = b
      /\ \A a, b \in S : AccountId[a] < AccountId[b] => Before(<<"balance", a>>, <<"balance", b>>)
  BY TxAssumption DEF Before
<1> QED BY <1>1, <1>2, TaggedLists DEF BalanceOrder

LEMMA HoldsList ==
  ASSUME NEW S \in SUBSET HoldIds
  PROVE  Lists(Tagged("hold", Ascending(S, HoldOrder)), {"hold"} \X S)
<1>1. IsFiniteSet(S)
  BY LedgerAssumption, FS_Subset
<1>2. /\ \A a \in S : HoldOrder[a] \in Nat
      /\ \A a, b \in S : HoldOrder[a] = HoldOrder[b] => a = b
      /\ \A a, b \in S : HoldOrder[a] < HoldOrder[b] => Before(<<"hold", a>>, <<"hold", b>>)
  BY TxAssumption DEF Before
<1> QED BY <1>1, <1>2, TaggedLists

\* Every call locks its rows in the one order.
LEMMA LockOrderLists ==
  ASSUME NEW t, NEW c \in Call, KnowsAccounts(t, c)
  PROVE  Lists(LockOrder(t, c), Needs(t, c))
<1> DEFINE legs == {l.account : l \in c.legs}
<1>1. CASE c.op = "post"
  <2>1. legs \in SUBSET Accounts
    BY <1>1, CallIs, LegsAre
  <2> HIDE DEF legs
  <2> DEFINE s == <<<<"journal", c.journal>>>>
             u == BalanceOrder(legs)
             w == PartyRow(c)
             S == {<<"journal", c.journal>>}
             U == {"balance"} \X legs
             W == IF c.party = NoParty THEN {} ELSE {<<"party", c.party>>}
  <2>2. Lists(s, S) /\ Lists(u, U) /\ Lists(w, W)
    BY <2>1, ListsOne, ListsNone, BalancesList DEF PartyRow
  <2>3. \A x \in S, y \in U : Before(x, y)
    BY DEF Before, Kind
  <2>4. \A x \in S \cup U, y \in W : Before(x, y)
    BY DEF Before, Kind
  <2>5. LockOrder(t, c) = s \o u \o w /\ Needs(t, c) = (S \cup U) \cup W
    BY <1>1 DEF LockOrder, Needs, legs
  <2> HIDE DEF s, u, w, S, U, W
  <2>6. Lists(s \o u, S \cup U)
    BY <2>2, <2>3, ListsTwo
  <2>7. Lists((s \o u) \o w, (S \cup U) \cup W)
    BY <2>2, <2>4, <2>6, ListsTwo
  <2> QED BY <2>5, <2>7
<1>2. CASE c.op = "place"
  <2> DEFINE r == <<"hold", c.hold>>
             q == <<"balance", c.account>>
  <2>1. Before(r, q)
    BY DEF Before, Kind
  <2>2. LockOrder(t, c) = <<r, q>> /\ Needs(t, c) = {r} \cup {q}
    BY <1>2 DEF LockOrder, Needs
  <2> HIDE DEF r, q
  <2>3. {r} \cup {q} = {r, q}
    OBVIOUS
  <2> QED BY <2>1, <2>2, <2>3, ListsPair
<1>3. CASE c.op = "capture"
  <2>1. c.holds \in SUBSET HoldIds /\ legs \in SUBSET Accounts /\ HoldsOf(c) = c.holds
    BY <1>3, CallIs, LegsAre
  <2> HIDE DEF legs
  <2> DEFINE on == legs \cup {mine[t].holds[h].account : h \in c.holds}
             s == Tagged("hold", Ascending(c.holds, HoldOrder))
             S == {"hold"} \X c.holds
             u == <<<<"journal", c.journal>>>>
             U == {<<"journal", c.journal>>}
             w == BalanceOrder(on)
             W == {"balance"} \X on
  <2>2. Lists(s, S) /\ Lists(u, U)
    BY <2>1, HoldsList, ListsOne
  <2>3. CASE ~ OwnsHolds(t, c)
    <3>1. LockOrder(t, c) = s \o <<>> /\ Needs(t, c) = S \cup {}
      BY <1>3, <2>3 DEF LockOrder, Needs
    <3>2. \A x \in S, y \in {} : Before(x, y)
      OBVIOUS
    <3> HIDE DEF s, S
    <3> QED BY <2>2, <3>1, <3>2, ListsTwo, ListsNone
  <2>4. CASE OwnsHolds(t, c)
    <3>1. on \in SUBSET Accounts
      BY <1>3, <2>1, <2>4 DEF KnowsAccounts
    <3>2. LockOrder(t, c) = s \o (u \o w) /\ Needs(t, c) = S \cup (U \cup W)
      BY <1>3, <2>4 DEF LockOrder, Needs, legs
    <3> HIDE DEF on
    <3>3. Lists(w, W)
      BY <3>1, BalancesList
    <3>4. \A x \in U, y \in W : Before(x, y)
      BY DEF Before, Kind
    <3>5. \A x \in S, y \in U \cup W : Before(x, y)
      BY DEF Before, Kind
    <3> HIDE DEF s, S, u, U, w, W
    <3>6. Lists(u \o w, U \cup W)
      BY <2>2, <3>3, <3>4, ListsTwo
    <3>7. Lists(s \o (u \o w), S \cup (U \cup W))
      BY <2>2, <3>5, <3>6, ListsTwo
    <3> QED BY <3>2, <3>7
  <2> QED BY <2>3, <2>4
<1>4. CASE c.op = "resolve"
  <2> DEFINE r == <<"hold", c.hold>>
             q == <<"balance", mine[t].holds[c.hold].account>>
  <2>1. CASE OwnsHolds(t, c)
    <3>1. \A x \in {r}, y \in {q} : Before(x, y)
      BY DEF Before, Kind
    <3>2. Lists(<<r>> \o <<q>>, {r} \cup {q})
      BY <3>1, ListsOne, ListsTwo
    <3>3. LockOrder(t, c) = <<r>> \o <<q>> /\ Needs(t, c) = {r} \cup {q}
      BY <1>4, <2>1 DEF LockOrder, ResolveOrder, Needs
    <3> QED BY <3>2, <3>3
  <2>2. CASE ~ OwnsHolds(t, c)
    <3>1. \A x \in {r}, y \in {} : Before(x, y)
      OBVIOUS
    <3>2. Lists(<<r>> \o <<>>, {r} \cup {})
      BY <3>1, ListsOne, ListsNone, ListsTwo
    <3>3. LockOrder(t, c) = <<r>> \o <<>> /\ Needs(t, c) = {r} \cup {}
      BY <1>4, <2>2 DEF LockOrder, ResolveOrder, Needs
    <3> QED BY <3>2, <3>3
  <2> QED BY <2>1, <2>2
<1> QED BY <1>1, <1>2, <1>3, <1>4, CallIs

-----------------------------------------------------------------------------
(* What a transaction of one call has read and written                     *)

\* Every transaction is one call.
OneCallEach == \A t \in Txs : Len(Calls[t]) = 1

Work(t) == Calls[t][1]

\* Of the rows it has locked, t's copy m says the same as n.
Reads(t, m, n) ==
    /\ m.journals = n.journals /\ m.postings = n.postings
    /\ \A a \in Accounts : owner[<<"balance", a>>] = t => m.raw[a] = n.raw[a] /\ m.held[a] = n.held[a]
    /\ \A h \in HoldIds : owner[<<"hold", h>>] = t => m.holds[h] = n.holds[h]

\* It has every row the call touches.
Locked(t, m, c) ==
    /\ \A h \in HoldsOf(c) : owner[<<"hold", h>>] = t
    /\ \A j \in Inserts(c) : owner[<<"journal", j>>] = t
    /\ \A a \in Balances(m, c) : owner[<<"balance", a>>] = t

\* It has written nothing yet; or what Ledger's action would write by now.
Fresh(t) == Reads(t, mine[t], Committed)

Done(t) ==
    /\ Allowed(Committed, journals, Work(t))
    /\ Locked(t, Committed, Work(t))
    /\ Reads(t, mine[t], Written(Committed, Work(t)))

\* A hold it has inserted was not there, and nobody else can insert it.
Claims(t) ==
    Work(t).op = "place" /\ owner[<<"hold", Work(t).hold>>] = t => holds[Work(t).hold] = NoHold

\* It has the first of the rows it needs, and no others.
InOrder(t) ==
    /\ \A row \in Rows : owner[row] = t => row \in Needs(t, Work(t))
    /\ \A r, q \in Rows \cap Needs(t, Work(t)) : Before(r, q) /\ owner[q] = t => owner[r] = t

Stage(t) ==
    \/ state[t] # "running" /\ mine[t] = Blank /\ \A row \in Rows : owner[row] # t
    \/ state[t] = "running" /\ next[t] = 1 /\ Fresh(t) /\ Claims(t) /\ InOrder(t)
    \/ state[t] = "running" /\ next[t] = 2 /\ (Fresh(t) \/ Done(t))

Shapes ==
    /\ owner \in [Rows -> Txs \cup {Free}]
    /\ state \in [Txs -> {"idle", "running", "committed", "aborted"}]
    /\ next \in [Txs -> {1, 2}]
    /\ mine \in [Txs -> Copies]

TxInv == IInv /\ Shapes /\ \A t \in Txs : Stage(t)

LEMMA WorkIs ==
  ASSUME OneCallEach, NEW t \in Txs
  PROVE  /\ Work(t) \in Call
         /\ next[t] \in {1, 2} => (next[t] = 1 <=> next[t] <= Len(Calls[t]))
         /\ InCall(t) /\ next[t] \in {1, 2} => state[t] = "running" /\ next[t] = 1 /\ This(t) = Work(t)
<1>1. Calls[t] \in Seq(Call) /\ Len(Calls[t]) = 1
  BY TxAssumption DEF OneCallEach
<1> QED BY <1>1 DEF InCall, This, Work

-----------------------------------------------------------------------------
(* What a step leaves to the others                                        *)

\* The rows a call writes are rows.
LEMMA WrittenType ==
  ASSUME NEW c \in Call, NEW m \in Copies, NEW posted, Allowed(m, posted, c)
  PROVE  Written(m, c) \in Copies
<1>1. /\ m.journals \subseteq JournalIds /\ m.postings \subseteq PostingRows
      /\ m.raw \in [Accounts -> Int] /\ m.held \in [Accounts -> Int]
      /\ m.holds \in [HoldIds -> Hold \cup {NoHold}]
  BY DEF Copies
<1>2. m.journals \cup Inserts(c) \in SUBSET JournalIds
  BY <1>1, CallIs DEF Inserts
<1>3. NewRows(c) \in SUBSET PostingRows /\ IsFiniteSet(NewRows(c))
  <2>1. CASE c.op \in {"post", "capture"}
    BY <2>1, CallIs, SubmittedRows DEF NewRows, RowsOf
  <2>2. CASE c.op \notin {"post", "capture"}
    BY <2>2, FS_EmptySet DEF NewRows
  <2> QED BY <2>1, <2>2
<1>4. m.postings \cup NewRows(c) \in SUBSET PostingRows
  BY <1>1, <1>3
<1>5. \A a \in Accounts : Signed(On(NewRows(c), a)) \in Int
  <2> SUFFICES ASSUME NEW a \in Accounts PROVE Signed(On(NewRows(c), a)) \in Int
    OBVIOUS
  <2>1. On(NewRows(c), a) \in SUBSET NewRows(c)
    BY DEF On
  <2>2. On(NewRows(c), a) \in SUBSET PostingRows /\ IsFiniteSet(On(NewRows(c), a))
    BY <1>3, <2>1, FS_Subset
  <2> QED BY <2>2, SignedType
<1>6. \A a \in Accounts : m.raw[a] + Signed(On(NewRows(c), a)) \in Int
  BY <1>1, <1>5
<1>7. c.op \in {"capture", "resolve"} => \A h \in HoldsOf(c) : m.holds[h] \in Hold
  <2> SUFFICES ASSUME c.op \in {"capture", "resolve"}, NEW h \in HoldsOf(c) PROVE m.holds[h] \in Hold
    OBVIOUS
  <2>1. m.holds[h].status = "active"
    BY CallIs DEF Allowed
  <2>2. m.holds[h] \in Hold \cup {NoHold}
    BY <1>1, CallIs
  <2> QED BY <2>1, <2>2 DEF NoHold
<1>8. \A a \in Accounts : HeldAfter(m, c, a) \in Int
  <2> SUFFICES ASSUME NEW a \in Accounts PROVE HeldAfter(m, c, a) \in Int
    OBVIOUS
  <2>1. m.held[a] \in Int
    BY <1>1
  <2>2. CASE c.op \in {"post", "capture"}
    <3>1. \A h \in HoldsOf(c) : m.holds[h] \in Hold
      BY <1>7, <2>2, CallIs
    <3>2. ReservedIn(m.holds, HoldsOf(c), a) \in Nat
      BY <3>1, CallIs, ReservedType
    <3>3. HeldAfter(m, c, a) = m.held[a] - ReservedIn(m.holds, HoldsOf(c), a)
      BY <2>2 DEF HeldAfter, Frees
    <3> QED BY <2>1, <3>2, <3>3
  <2>3. CASE c.op = "place"
    <3>1. c.amount \in Int
      BY <2>3, CallIs, LedgerAssumption
    <3> QED BY <2>1, <2>3, <3>1 DEF HeldAfter
  <2>4. CASE c.op = "resolve"
    <3>1. m.holds[c.hold] \in Hold
      BY <1>7, <2>4, CallIs
    <3>2. m.holds[c.hold].amount \in Int
      BY <3>1, LedgerAssumption DEF Hold
    <3> QED BY <2>1, <2>4, <3>2 DEF HeldAfter
  <2> QED BY <2>2, <2>3, <2>4, CallIs
<1>9. \A h \in HoldIds : HoldAfter(m, c, h) \in Hold \cup {NoHold}
  <2> SUFFICES ASSUME NEW h \in HoldIds PROVE HoldAfter(m, c, h) \in Hold \cup {NoHold}
    OBVIOUS
  <2>1. CASE h \notin HoldsOf(c)
    BY <1>1, <2>1 DEF HoldAfter
  <2>2. CASE h \in HoldsOf(c) /\ c.op = "place"
    <3>1. 0 \in 0 .. MaxAmount
      BY LedgerAssumption
    <3> QED BY <2>2, <3>1, CallIs DEF HoldAfter, Hold
  <2>3. CASE h \in HoldsOf(c) /\ c.op = "capture"
    <3>1. m.holds[h] \in Hold /\ c.journal \in JournalIds
      BY <1>7, <2>3, CallIs
    <3>2. TakenFrom(RowsOf(c), m.holds[h].account) \in 1 .. m.holds[h].amount
      BY <2>3, CallIs DEF Allowed
    <3>3. TakenFrom(RowsOf(c), m.holds[h].account) \in 0 .. MaxAmount
      BY <3>1, <3>2, LedgerAssumption DEF Hold
    <3> DEFINE taken == TakenFrom(RowsOf(c), m.holds[h].account)
    <3>4. HoldAfter(m, c, h) = [m.holds[h] EXCEPT !.status = "captured", !.journal = c.journal, !.taken = taken]
      BY <2>3 DEF HoldAfter
    <3> HIDE DEF taken
    <3> QED BY <3>1, <3>3, <3>4 DEF Hold, taken
  <2>4. CASE h \in HoldsOf(c) /\ c.op = "resolve"
    <3>1. m.holds[h] \in Hold /\ c.to \in {"released", "expired"}
      BY <1>7, <2>4, CallIs
    <3>2. HoldAfter(m, c, h) = [m.holds[h] EXCEPT !.status = c.to]
      BY <2>4 DEF HoldAfter
    <3> QED BY <3>1, <3>2 DEF Hold
  <2>5. CASE h \in HoldsOf(c) /\ c.op = "post"
    BY <2>5, CallIs
  <2> QED BY <2>1, <2>2, <2>3, <2>4, <2>5, CallIs
<1> QED BY <1>2, <1>4, <1>6, <1>8, <1>9, WrittenIs DEF Copies

\* A step that takes none of t's rows, and leaves what they say, but for holds
\* that fall due.
Spared(t) ==
    /\ \A row \in Rows : owner[row] = t <=> owner'[row] = t
    /\ \A a \in Accounts : owner[<<"balance", a>>] = t => raw'[a] = raw[a] /\ held'[a] = held[a]
    /\ \A h \in HoldIds : owner[<<"hold", h>>] = t => Alike(holds[h], holds'[h])
    /\ \A j \in JournalIds : owner[<<"journal", j>>] = t /\ j \in journals' => j \in journals

LEMMA TouchedStay ==
  ASSUME OneCallEach, TypeOK, NEW t \in Txs, Done(t), Spared(t)
  PROVE  Same(Committed, Committed', Work(t)) /\ Balances(Committed, Work(t)) \subseteq Accounts
<1> DEFINE c == Work(t)
<1>1. c \in Call /\ Inserts(c) \subseteq JournalIds /\ HoldsOf(c) \subseteq HoldIds
  BY WorkIs, CallIs DEF Inserts
<1>2. Balances(Committed, c) \subseteq Accounts
  <2>1. Allowed(Committed, journals, c)
    BY DEF Done
  <2>2. c.op \in {"capture", "resolve"} => \A h \in HoldsOf(c) : holds[h].account \in Accounts
    <3> SUFFICES ASSUME c.op \in {"capture", "resolve"}, NEW h \in HoldsOf(c) PROVE holds[h].account \in Accounts
      OBVIOUS
    <3>1. holds[h].status = "active"
      BY <1>1, <2>1, CallIs DEF Allowed, Committed
    <3>2. holds[h] \in Hold \cup {NoHold}
      BY <1>1 DEF TypeOK
    <3> QED BY <3>1, <3>2 DEF NoHold, Hold
  <2>3. c.op \in {"post", "capture"} => {l.account : l \in c.legs} \subseteq Accounts
    BY <1>1, CallIs, LegsAre
  <2>4. Committed.holds = holds
    BY DEF Committed
  <2>5. CASE c.op = "place"
    BY <1>1, <2>5, CallIs DEF Balances
  <2>6. CASE c.op = "resolve"
    BY <1>1, <2>2, <2>4, <2>6, CallIs DEF Balances
  <2>7. CASE c.op \in {"post", "capture"}
    BY <1>1, <2>2, <2>3, <2>4, <2>7, CallIs DEF Balances
  <2> QED BY <1>1, <2>5, <2>6, <2>7, CallIs
<1>3. Locked(t, Committed, c)
  BY DEF Done
<1>4. Same(Committed, Committed', c)
  BY <1>1, <1>2, <1>3 DEF Same, Locked, Committed, Spared
<1> QED BY <1>2, <1>4

\* Nothing can be done to a call that is done, without the rows it touches.
LEMMA DoneStays ==
  ASSUME OneCallEach, TypeOK, NEW t \in Txs, Done(t), Spared(t),
         Reads(t, mine'[t], Written(Committed', Work(t)))
  PROVE  Done(t)'
<1> DEFINE c == Work(t)
<1>1. c \in Call /\ Inserts(c) \subseteq JournalIds /\ HoldsOf(c) \subseteq HoldIds
  BY WorkIs, CallIs DEF Inserts
<1>2. Balances(Committed, c) \subseteq Accounts
  BY TouchedStay
<1>3. Locked(t, Committed, c)
  BY DEF Done
<1>4. Same(Committed, Committed', c)
  BY TouchedStay
<1>5. Inserts(c) \cap journals' \subseteq journals
  BY <1>1, <1>3 DEF Locked, Spared
<1>6. Allowed(Committed', journals', c)
  BY <1>1, <1>4, <1>5, SameAllowed DEF Done
<1>7. Balances(Committed', c) = Balances(Committed, c)
  BY <1>1, <1>4, SameBalances
<1>8. Locked(t, Committed, c)'
  <2>1. \A h \in HoldsOf(c) : owner'[<<"hold", h>>] = t
    BY <1>1, <1>3 DEF Locked, Rows, Spared
  <2>2. \A j \in Inserts(c) : owner'[<<"journal", j>>] = t
    BY <1>1, <1>3 DEF Locked, Rows, Spared
  <2>3. \A a \in Balances(Committed', c) : owner'[<<"balance", a>>] = t
    BY <1>2, <1>3, <1>7 DEF Locked, Rows, Spared
  <2> QED BY <2>1, <2>2, <2>3 DEF Locked
<1>9. Reads(t, mine[t], Written(Committed, c))'
  BY DEF Reads, Rows, Spared
<1> QED BY <1>6, <1>8, <1>9 DEF Done

LEMMA NeedsStay ==
  ASSUME NEW t \in Txs, NEW c \in Call, \A row \in Rows : owner[row] = t <=> owner'[row] = t,
         \A h \in HoldIds : mine'[t].holds[h].account = mine[t].holds[h].account
  PROVE  Needs(t, c)' = Needs(t, c)
<1>1. c.op \in {"post", "place", "capture", "resolve"} /\ HoldsOf(c) \subseteq HoldIds
  BY CallIs
<1>2. OwnsHolds(t, c)' <=> OwnsHolds(t, c)
  BY <1>1 DEF OwnsHolds, Rows
<1>3. CASE c.op \in {"post", "place"}
  BY <1>3 DEF Needs
<1>4. CASE c.op = "capture"
  <2>1. {mine[t].holds[h].account : h \in c.holds}' = {mine[t].holds[h].account : h \in c.holds}
    BY <1>1, <1>4, CallIs
  <2> QED BY <1>2, <1>4, <2>1 DEF Needs
<1>5. CASE c.op = "resolve"
  <2>1. mine'[t].holds[c.hold].account = mine[t].holds[c.hold].account
    BY <1>1, <1>5, CallIs
  <2> QED BY <1>2, <1>5, <2>1 DEF Needs
<1> QED BY <1>1, <1>3, <1>4, <1>5

LEMMA OrderStays ==
  ASSUME OneCallEach, NEW t \in Txs, InOrder(t), \A row \in Rows : owner[row] = t <=> owner'[row] = t,
         \A h \in HoldIds : mine'[t].holds[h].account = mine[t].holds[h].account
  PROVE  InOrder(t)'
<1>1. Needs(t, Work(t))' = Needs(t, Work(t)) /\ Work(t)' = Work(t)
  BY WorkIs, NeedsStay DEF Work
<1>2. \A row \in Rows : owner'[row] = t => row \in Needs(t, Work(t))'
  BY <1>1 DEF InOrder
<1>3. \A r, q \in Rows \cap Needs(t, Work(t))' : Before(r, q) /\ owner'[q] = t => owner'[r] = t
  BY <1>1 DEF InOrder
<1> QED BY <1>2, <1>3 DEF InOrder, Rows

LEMMA StageStays ==
  ASSUME OneCallEach, TypeOK, TypeOK', NEW t \in Txs, Stage(t), Spared(t),
         mine'[t] = mine[t], state'[t] = state[t], next'[t] = next[t],
         \A h \in HoldIds : owner[<<"hold", h>>] = t => holds'[h] = holds[h]
  PROVE  Stage(t)'
<1> DEFINE c == Work(t)
<1>1. c \in Call /\ Work(t)' = Work(t)
  BY WorkIs DEF Work
<1>2. ASSUME Fresh(t) PROVE Fresh(t)'
  BY <1>2 DEF Fresh, Reads, Committed, Spared, Rows
<1>3. ASSUME Done(t) PROVE Done(t)'
  <2>1. Same(Committed, Committed', c)
    BY <1>3, TouchedStay
  <2>2. Committed \in Copies /\ Committed' \in Copies
    BY CommittedIs DEF TypeOK, Committed, Copies
  <2>3. Reads(t, mine[t], Written(Committed, c))
    BY <1>3 DEF Done
  <2> DEFINE m == Committed
             n == Committed'
  <2>4. /\ m.journals = {} /\ m.postings = {} /\ n.journals = {} /\ n.postings = {}
        /\ m.raw = raw /\ m.held = held /\ m.holds = holds
        /\ n.raw = raw' /\ n.held = held' /\ n.holds = holds'
    BY DEF Committed
  <2> HIDE DEF m, n, c
  <2>5. Same(m, n, c) /\ m \in Copies /\ n \in Copies
    BY <2>1, <2>2 DEF m, n
  <2>6. /\ Written(n, c).journals = Written(m, c).journals
        /\ Written(n, c).postings = Written(m, c).postings
    <3>1. \A k \in Copies : /\ Written(k, c).journals = k.journals \cup Inserts(c)
                            /\ Written(k, c).postings = k.postings \cup NewRows(c)
      <4> SUFFICES ASSUME NEW k \in Copies
                   PROVE  /\ Written(k, c).journals = k.journals \cup Inserts(c)
                          /\ Written(k, c).postings = k.postings \cup NewRows(c)
        OBVIOUS
      <4> QED BY <1>1, WrittenIs
    <3> QED BY <2>4, <2>5, <3>1
  <2>7. \A a \in Accounts : owner[<<"balance", a>>] = t =>
            Written(n, c).raw[a] = Written(m, c).raw[a] /\ Written(n, c).held[a] = Written(m, c).held[a]
    BY <1>1, <2>4, <2>5, SameWritten DEF Spared
  <2>8. \A h \in HoldIds : owner[<<"hold", h>>] = t => Written(n, c).holds[h] = Written(m, c).holds[h]
    BY <1>1, <2>4, <2>5, SameWritten
  <2>9. Reads(t, mine'[t], Written(n, c))
    <3>1. Reads(t, mine[t], Written(m, c))
      BY <2>3 DEF m
    <3> QED BY <3>1, <2>6, <2>7, <2>8 DEF Reads
  <2> QED BY <1>3, <2>9, DoneStays DEF n, c
<1>4. ASSUME Claims(t), state[t] = "running" PROVE Claims(t)'
  <2>1. c.op = "place" => c.hold \in HoldIds
    BY <1>1, CallIs
  <2> QED BY <1>1, <1>4, <2>1 DEF Claims, Spared, Rows
<1>5. ASSUME InOrder(t) PROVE InOrder(t)'
  BY <1>5, OrderStays DEF Spared
<1>6. (\A row \in Rows : owner[row] # t) => \A row \in Rows : owner'[row] # t
  BY DEF Spared
<1> QED BY <1>2, <1>3, <1>4, <1>5, <1>6 DEF Stage, Blank, Rows

-----------------------------------------------------------------------------
(* The next row a call waits for                                           *)

LEMMA RowsAre ==
  ASSUME NEW r \in Rows
  PROVE  \/ r[1] = "journal" /\ r[2] \in JournalIds
         \/ r[1] = "hold" /\ r[2] \in HoldIds
         \/ r[1] = "balance" /\ r[2] \in Accounts
         \/ r[1] = "party" /\ r[2] \in Parties
BY DEF Rows

LEMMA BeforeOneWay ==
  ASSUME NEW r \in Rows, NEW q \in Rows, Before(r, q)
  PROVE  ~ Before(q, r)
BY RowsAre, TxAssumption DEF Before, Kind

LEMMA NeedsRows ==
  ASSUME NEW t, NEW c \in Call, KnowsAccounts(t, c)
  PROVE  Needs(t, c) \subseteq Rows
<1>1. c.op \in {"post", "capture"} => c.journal \in JournalIds /\ \A l \in c.legs : l.account \in Accounts
  BY CallIs, LegsAre
<1>2. CASE c.op = "post"
  BY <1>1, <1>2, CallIs DEF Needs, Rows
<1>3. CASE c.op = "place"
  BY <1>3, CallIs DEF Needs, Rows
<1>4. CASE c.op = "capture"
  BY <1>1, <1>4, CallIs DEF Needs, Rows, KnowsAccounts
<1>5. CASE c.op = "resolve"
  BY <1>5, CallIs DEF Needs, Rows, KnowsAccounts
<1> QED BY <1>2, <1>3, <1>4, <1>5, CallIs

LEMMA LeastNumber ==
  ASSUME NEW S \in SUBSET Nat, S # {}
  PROVE  \E m \in S : \A k \in S : m <= k
<1>1. PICK m \in S : \A k \in S : ~ (<<k, m>> \in OpToRel(<, Nat))
  BY WFMin, NatLessThanWellFounded
<1>2. \A k \in S : ~ (k < m)
  BY <1>1 DEF OpToRel
<1> QED BY <1>2

\* A call waits for the first row it has not got.
LEMMA WantedIs ==
  ASSUME NEW t, NEW c \in Call, KnowsAccounts(t, c)
  PROVE  /\ Missing(t, c) = {} => \A row \in Needs(t, c) : owner[row] = t
         /\ Missing(t, c) # {} => /\ Wanted(t, c) \in Needs(t, c)
                                  /\ owner[Wanted(t, c)] # t
                                  /\ \A row \in Needs(t, c) : Before(row, Wanted(t, c)) => owner[row] = t
<1> DEFINE s == LockOrder(t, c)
           N == Needs(t, c)
           M == Missing(t, c)
<1>1. Lists(s, N) /\ N \subseteq Rows
  BY LockOrderLists, NeedsRows
<1>2. M = {i \in DOMAIN s : owner[s[i]] # t}
  BY DEF Missing
<1>3. Wanted(t, c) = s[CHOOSE i \in M : \A k \in M : i <= k]
  BY DEF Wanted
<1> HIDE DEF s, N, M
<1>4. /\ s \in Seq(N) /\ DOMAIN s = 1 .. Len(s) /\ Len(s) \in Nat /\ \A i \in DOMAIN s : s[i] \in N
      /\ \A x \in N : \E i \in DOMAIN s : s[i] = x
      /\ \A i, k \in DOMAIN s : i < k => Before(s[i], s[k])
  BY <1>1 DEF Lists
<1>5. ASSUME M = {}, NEW row \in N PROVE owner[row] = t
  BY <1>2, <1>4, <1>5
<1>6. ASSUME M # {}
      PROVE  /\ Wanted(t, c) \in N /\ owner[Wanted(t, c)] # t
             /\ \A row \in N : Before(row, Wanted(t, c)) => owner[row] = t
  <2>1. M \in SUBSET Nat
    BY <1>2, <1>4
  <2>2. PICK i \in M : \A k \in M : i <= k
    BY <1>6, <2>1, LeastNumber
  <2> DEFINE first == CHOOSE k \in M : \A l \in M : k <= l
  <2>3. first \in M /\ \A k \in M : first <= k
    BY <2>2
  <2> HIDE DEF first
  <2>4. Wanted(t, c) = s[first]
    BY <1>3 DEF first
  <2>5. first \in DOMAIN s /\ s[first] \in N /\ owner[s[first]] # t
    BY <1>2, <1>4, <2>3
  <2>6. ASSUME NEW row \in N, Before(row, s[first]) PROVE owner[row] = t
    <3>1. PICK k \in DOMAIN s : s[k] = row
      BY <1>4
    <3>2. ~ Before(s[first], s[k])
      BY <1>1, <2>5, <2>6, <3>1, BeforeOneWay
    <3>3. k <= first
      BY <1>4, <2>5, <3>2
    <3>4. k # first
      BY <1>1, <2>5, <2>6, <3>1, BeforeOneWay
    <3>5. k \notin M
      BY <1>4, <2>3, <2>5, <3>3, <3>4
    <3> QED BY <1>2, <3>1, <3>5
  <2> QED BY <2>4, <2>5, <2>6
<1> QED BY <1>5, <1>6 DEF N, M

\* A call that is neither done nor refused has found its holds active.
LEMMA GoesOn ==
  ASSUME OneCallEach, NEW t \in Txs, mine[t] \in Copies, InCall(t), next[t] \in {1, 2},
         ~ AlreadyDone(t), ~ Refused(t)
  PROVE  /\ state[t] = "running" /\ next[t] = 1 /\ This(t) = Work(t) /\ Work(t) \in Call
         /\ KnowsAccounts(t, Work(t))
<1>1. state[t] = "running" /\ next[t] = 1 /\ This(t) = Work(t) /\ Work(t) \in Call
  BY WorkIs
<1> DEFINE c == Work(t)
<1>2. ASSUME c.op \in {"capture", "resolve"}, OwnsHolds(t, c), NEW h \in HoldsOf(c)
      PROVE  mine[t].holds[h].account \in Accounts
  <2>1. mine[t].holds[h].status = "active"
    <3>1. CASE c.op = "capture"
      BY <1>1, <1>2, <3>1, CallIs DEF Refused
    <3>2. CASE c.op = "resolve"
      BY <1>1, <1>2, <3>2, CallIs DEF Refused
    <3> QED BY <1>2, <3>1, <3>2
  <2>2. mine[t].holds[h] \in Hold \cup {NoHold}
    BY <1>1, CallIs DEF Copies
  <2> QED BY <2>1, <2>2 DEF Hold, NoHold
<1> QED BY <1>1, <1>2 DEF KnowsAccounts

-----------------------------------------------------------------------------
(* Every statement keeps the stages                                        *)

\* A transaction that takes a row reads it, and nothing else.
LEMMA TakesReads ==
  ASSUME TypeOK, mine \in [Txs -> Copies], NEW t \in Txs, NEW row \in Rows, Takes(t, row)
  PROVE  /\ mine' \in [Txs -> Copies] /\ \A u \in Txs \ {t} : mine'[u] = mine[u]
         /\ mine'[t].journals = mine[t].journals /\ mine'[t].postings = mine[t].postings
         /\ \A a \in Accounts :
               /\ mine'[t].raw[a] = IF row = <<"balance", a>> THEN raw[a] ELSE mine[t].raw[a]
               /\ mine'[t].held[a] = IF row = <<"balance", a>> THEN held[a] ELSE mine[t].held[a]
         /\ \A h \in HoldIds :
               mine'[t].holds[h] = IF row = <<"hold", h>> THEN holds[h] ELSE mine[t].holds[h]
<1>1. /\ mine[t].journals \subseteq JournalIds /\ mine[t].postings \subseteq PostingRows
      /\ mine[t].raw \in [Accounts -> Int] /\ mine[t].held \in [Accounts -> Int]
      /\ mine[t].holds \in [HoldIds -> Hold \cup {NoHold}] /\ mine[t] \in Copies
      /\ mine[t] = [journals |-> mine[t].journals, postings |-> mine[t].postings,
                    raw |-> mine[t].raw, held |-> mine[t].held, holds |-> mine[t].holds]
  BY DEF Copies
<1>2. CASE row[1] = "balance"
  <2> DEFINE raws == [mine[t].raw EXCEPT ![row[2]] = raw[row[2]]]
             helds == [mine[t].held EXCEPT ![row[2]] = held[row[2]]]
             copy == [journals |-> mine[t].journals, postings |-> mine[t].postings,
                      raw |-> raws, held |-> helds, holds |-> mine[t].holds]
  <2>1. row[2] \in Accounts /\ row = <<"balance", row[2]>> /\ \A h : row # <<"hold", h>>
    BY <1>2, RowsAre DEF Rows
  <2>2. raws \in [Accounts -> Int] /\ helds \in [Accounts -> Int]
        /\ \A a \in Accounts : /\ raws[a] = IF row = <<"balance", a>> THEN raw[a] ELSE mine[t].raw[a]
                               /\ helds[a] = IF row = <<"balance", a>> THEN held[a] ELSE mine[t].held[a]
    BY <1>1, <2>1 DEF TypeOK
  <2>3. mine' = [mine EXCEPT ![t].raw[row[2]] = raw[row[2]], ![t].held[row[2]] = held[row[2]]]
    BY <1>2 DEF Takes
  <2>4. mine' = [mine EXCEPT ![t] = [[mine[t] EXCEPT !.raw = raws] EXCEPT !.held = helds]]
    BY <2>3, <1>1
  <2> HIDE DEF raws, helds
  <2>5. mine' = [mine EXCEPT ![t] = copy]
    <3>1. [[mine[t] EXCEPT !.raw = raws] EXCEPT !.held = helds] = copy
      <4> DEFINE first == [mine[t] EXCEPT !.raw = raws]
      <4>1. first
              = [journals |-> mine[t].journals, postings |-> mine[t].postings,
                 raw |-> raws, held |-> mine[t].held, holds |-> mine[t].holds]
        BY <1>1
      <4> HIDE DEF first
      <4>2. [first EXCEPT !.held = helds] = copy
        BY <4>1
      <4> QED BY <4>2 DEF first
    <3> QED BY <2>4, <3>1
  <2>6. copy \in Copies
    BY <1>1, <2>2 DEF Copies
  <2> QED BY <2>1, <2>2, <2>5, <2>6
<1>3. CASE row[1] = "hold"
  <2> DEFINE hs == [mine[t].holds EXCEPT ![row[2]] = holds[row[2]]]
             copy == [journals |-> mine[t].journals, postings |-> mine[t].postings,
                      raw |-> mine[t].raw, held |-> mine[t].held, holds |-> hs]
  <2>1. row[2] \in HoldIds /\ row = <<"hold", row[2]>> /\ \A a : row # <<"balance", a>>
    BY <1>3, RowsAre DEF Rows
  <2>2. /\ hs \in [HoldIds -> Hold \cup {NoHold}]
        /\ \A h \in HoldIds : hs[h] = IF row = <<"hold", h>> THEN holds[h] ELSE mine[t].holds[h]
    BY <1>1, <2>1 DEF TypeOK
  <2>3. mine' = [mine EXCEPT ![t].holds[row[2]] = holds[row[2]]]
    BY <1>3 DEF Takes
  <2>4. mine' = [mine EXCEPT ![t] = [mine[t] EXCEPT !.holds = hs]]
    BY <2>3, <1>1
  <2> HIDE DEF hs
  <2>5. mine' = [mine EXCEPT ![t] = copy]
    <3>1. [mine[t] EXCEPT !.holds = hs] = copy
      BY <1>1
    <3> QED BY <2>4, <3>1
  <2>6. copy \in Copies
    BY <1>1, <2>2 DEF Copies
  <2> QED BY <2>1, <2>2, <2>5, <2>6
<1>4. CASE row[1] \notin {"balance", "hold"}
  <2>1. mine' = mine
    BY <1>4 DEF Takes
  <2>2. (\A a : row # <<"balance", a>>) /\ (\A h : row # <<"hold", h>>)
    BY <1>4
  <2> QED BY <2>1, <2>2
<1> QED BY <1>2, <1>3, <1>4

\* What it needs may grow by the rows that the holds, all locked, point at.
LEMMA NeedsGrow ==
  ASSUME Shapes, TypeOK, NEW t \in Txs, NEW c \in Call, NEW row \in Rows, owner[row] # t, Takes(t, row)
  PROVE  \/ Needs(t, c)' = Needs(t, c)
         \/ /\ \A r \in Needs(t, c) : r[1] = "hold"
            /\ Needs(t, c) \subseteq Needs(t, c)'
            /\ \A r \in Needs(t, c)' \ Needs(t, c) : r[1] \in {"journal", "balance"}
<1>1. c.op \in {"post", "place", "capture", "resolve"} /\ HoldsOf(c) \subseteq HoldIds
  BY CallIs
<1>2. \A h \in HoldIds : mine'[t].holds[h] = IF row = <<"hold", h>> THEN holds[h] ELSE mine[t].holds[h]
  BY TakesReads DEF Shapes
<1>3. owner' = [owner EXCEPT ![row] = t] /\ owner \in [Rows -> Txs \cup {Free}]
  BY DEF Takes, Shapes
<1>4. CASE c.op \in {"post", "place"}
  BY <1>4 DEF Needs
<1>5. CASE c.op \in {"capture", "resolve"} /\ OwnsHolds(t, c)
  <2>1. \A h \in HoldsOf(c) : mine'[t].holds[h] = mine[t].holds[h] /\ owner'[<<"hold", h>>] = t
    BY <1>1, <1>2, <1>3, <1>5 DEF OwnsHolds, Rows
  <2>2. OwnsHolds(t, c)'
    BY <2>1 DEF OwnsHolds
  <2>3. CASE c.op = "capture"
    <3>1. {mine[t].holds[h].account : h \in c.holds}' = {mine[t].holds[h].account : h \in c.holds}
      <4>1. \A h \in c.holds : mine'[t].holds[h] = mine[t].holds[h]
        BY <2>1, <2>3, CallIs
      <4> QED BY <4>1
    <3> QED BY <1>5, <2>2, <2>3, <3>1 DEF Needs
  <2>4. CASE c.op = "resolve"
    BY <1>5, <2>1, <2>2, <2>4, CallIs DEF Needs
  <2> QED BY <1>5, <2>3, <2>4
<1>6. CASE c.op = "capture" /\ ~ OwnsHolds(t, c)
  <2>1. Needs(t, c) = {"hold"} \X c.holds
    BY <1>6 DEF Needs
  <2>2. Needs(t, c) \subseteq Needs(t, c)' /\ \A r \in Needs(t, c)' \ Needs(t, c) : r[1] \in {"journal", "balance"}
    BY <1>6, <2>1 DEF Needs
  <2> QED BY <2>1, <2>2
<1>7. CASE c.op = "resolve" /\ ~ OwnsHolds(t, c)
  <2>1. Needs(t, c) = {<<"hold", c.hold>>}
    BY <1>7 DEF Needs
  <2>2. Needs(t, c) \subseteq Needs(t, c)' /\ \A r \in Needs(t, c)' \ Needs(t, c) : r[1] \in {"journal", "balance"}
    BY <1>7, <2>1 DEF Needs
  <2> QED BY <2>1, <2>2
<1> QED BY <1>1, <1>4, <1>5, <1>6, <1>7

\* Where nothing is committed and nothing taken from it, a transaction stays.
LEMMA BystanderStays ==
  ASSUME OneCallEach, TypeOK, UNCHANGED vars, NEW u \in Txs, Stage(u),
         \A row \in Rows : owner[row] = u <=> owner'[row] = u,
         mine'[u] = mine[u], state'[u] = state[u], next'[u] = next[u]
  PROVE  Stage(u)'
<1>1. journals' = journals /\ postings' = postings /\ raw' = raw /\ held' = held /\ holds' = holds
  BY DEF vars
<1>2. TypeOK' /\ \A h : holds'[h] = holds[h]
  BY <1>1 DEF TypeOK
<1>3. Spared(u)
  BY <1>1 DEF Spared, Alike
<1> QED BY <1>2, <1>3, StageStays

LEMMA BeginStep ==
  ASSUME OneCallEach, TxInv, NEW t \in Txs, Begin(t)
  PROVE  Shapes' /\ \A u \in Txs : Stage(u)'
<1>1. /\ Shapes /\ TypeOK /\ \A u \in Txs : Stage(u)
      /\ UNCHANGED vars /\ owner' = owner /\ mine' = mine /\ state[t] # "running"
      /\ state' = [state EXCEPT ![t] = "running"] /\ next' = [next EXCEPT ![t] = 1]
  BY DEF TxInv, IInv, Begin
<1>2. Shapes'
  BY <1>1 DEF Shapes
<1>3. ASSUME NEW u \in Txs, u # t PROVE Stage(u)'
  <2>1. state'[u] = state[u] /\ next'[u] = next[u]
    BY <1>1, <1>3 DEF Shapes
  <2> QED BY <1>1, <2>1, BystanderStays
<1>4. Stage(t)'
  <2>1. mine[t] = Blank /\ \A row \in Rows : owner[row] # t
    BY <1>1 DEF Stage
  <2>2. state'[t] = "running" /\ next'[t] = 1
    BY <1>1 DEF Shapes
  <2>3. Fresh(t)'
    BY <1>1, <2>1 DEF Fresh, Reads, Blank, Committed, Rows
  <2>4. Claims(t)'
    <3>1. Work(t) \in Call
      BY WorkIs
    <3>2. Work(t).op = "place" => Work(t).hold \in HoldIds
      BY <3>1, CallIs
    <3> QED BY <1>1, <2>1, <3>2 DEF Claims, Rows, Work
  <2>5. InOrder(t)'
    BY <1>1, <2>1 DEF InOrder, Rows
  <2> QED BY <2>2, <2>3, <2>4, <2>5 DEF Stage
<1> QED BY <1>2, <1>3, <1>4

LEMMA AcquireStep ==
  ASSUME OneCallEach, TxInv, NEW t \in Txs, Acquire(t)
  PROVE  Shapes' /\ \A u \in Txs : Stage(u)'
<1> DEFINE c == Work(t)
           row == Wanted(t, c)
<1>1. /\ Shapes /\ TypeOK /\ \A u \in Txs : Stage(u)
      /\ UNCHANGED vars /\ state' = state /\ next' = next
      /\ InCall(t) /\ ~ AlreadyDone(t) /\ ~ Refused(t)
  BY DEF TxInv, IInv, Acquire
<1>2. mine[t] \in Copies /\ next[t] \in {1, 2}
  BY <1>1 DEF Shapes
<1>3. /\ state[t] = "running" /\ next[t] = 1 /\ This(t) = c /\ c \in Call /\ KnowsAccounts(t, c)
  BY <1>1, <1>2, GoesOn
<1>4. /\ owner[row] = Free /\ Takes(t, row) /\ Missing(t, c) # {}
  BY <1>3 DEF Acquire
<1>5. /\ row \in Needs(t, c) /\ row \in Rows /\ Needs(t, c) \subseteq Rows
      /\ \A r \in Needs(t, c) : Before(r, row) => owner[r] = t
  BY <1>3, <1>4, WantedIs, NeedsRows
<1>6. Fresh(t) /\ Claims(t) /\ InOrder(t)
  BY <1>1, <1>3 DEF Stage
<1>7. Free \notin Txs /\ owner[row] # t
  BY <1>4, TxAssumption
<1> HIDE DEF row
<1>8. owner' = [owner EXCEPT ![row] = t] /\ owner \in [Rows -> Txs \cup {Free}]
  BY <1>1, <1>4 DEF Takes, Shapes
<1>9. /\ mine' \in [Txs -> Copies] /\ \A u \in Txs \ {t} : mine'[u] = mine[u]
      /\ mine'[t].journals = mine[t].journals /\ mine'[t].postings = mine[t].postings
      /\ \A a \in Accounts :
               /\ mine'[t].raw[a] = IF row = <<"balance", a>> THEN raw[a] ELSE mine[t].raw[a]
               /\ mine'[t].held[a] = IF row = <<"balance", a>> THEN held[a] ELSE mine[t].held[a]
      /\ \A h \in HoldIds :
               mine'[t].holds[h] = IF row = <<"hold", h>> THEN holds[h] ELSE mine[t].holds[h]
  BY <1>1, <1>4, <1>5, TakesReads DEF Shapes
<1>10. Shapes'
  BY <1>1, <1>5, <1>8, <1>9 DEF Shapes
<1>11. ASSUME NEW u \in Txs, u # t PROVE Stage(u)'
  <2>1. \A r \in Rows : owner[r] = u <=> owner'[r] = u
    BY <1>4, <1>7, <1>8, <1>11
  <2> QED BY <1>1, <1>9, <1>11, <2>1, BystanderStays
<1>12. Fresh(t)'
  <2>1. Committed' = Committed
    BY <1>1 DEF vars, Committed
  <2>2. \A r \in Rows : owner'[r] = t <=> (owner[r] = t \/ r = row)
    BY <1>5, <1>8
  <2>3. Reads(t, mine[t], Committed)
    BY <1>6 DEF Fresh
  <2>4. Committed.raw = raw /\ Committed.held = held /\ Committed.holds = holds
    BY DEF Committed
  <2>5. Reads(t, mine[t], Committed)'
    <3>1. mine'[t].journals = Committed.journals /\ mine'[t].postings = Committed.postings
      BY <1>9, <2>3 DEF Reads
    <3>2. \A a \in Accounts : owner'[<<"balance", a>>] = t =>
              mine'[t].raw[a] = Committed.raw[a] /\ mine'[t].held[a] = Committed.held[a]
      BY <1>9, <2>2, <2>3, <2>4 DEF Reads, Rows
    <3>3. \A h \in HoldIds : owner'[<<"hold", h>>] = t => mine'[t].holds[h] = Committed.holds[h]
      BY <1>9, <2>2, <2>3, <2>4 DEF Reads, Rows
    <3> QED BY <2>1, <3>1, <3>2, <3>3 DEF Reads
  <2> QED BY <2>5 DEF Fresh
<1>13. Claims(t)'
  <2>1. holds' = holds
    BY <1>1 DEF vars
  <2>2. ASSUME c.op = "place", owner'[<<"hold", c.hold>>] = t PROVE holds[c.hold] = NoHold
    <3>1. CASE owner[<<"hold", c.hold>>] = t
      BY <1>6, <2>2, <3>1 DEF Claims
    <3>2. CASE owner[<<"hold", c.hold>>] # t
      BY <1>1, <1>3, <2>2, <3>2 DEF Refused, Seen
    <3> QED BY <3>1, <3>2
  <2> QED BY <2>1, <2>2 DEF Claims, Work
<1>14. InOrder(t)'
  <2>1. \A r \in Rows : owner'[r] = t <=> (owner[r] = t \/ r = row)
    BY <1>5, <1>8
  <2>2. /\ \A r \in Rows : owner[r] = t => r \in Needs(t, c)
        /\ \A r, q \in Rows \cap Needs(t, c) : Before(r, q) /\ owner[q] = t => owner[r] = t
    BY <1>6 DEF InOrder
  <2>3. \A r \in Rows : owner'[r] = t => r \in Needs(t, c)
    BY <1>5, <2>1, <2>2
  <2>4. \A r, q \in Needs(t, c) : Before(r, q) /\ owner'[q] = t => owner'[r] = t
    BY <1>5, <2>1, <2>2
  <2>5. \/ Needs(t, c)' = Needs(t, c)
        \/ /\ \A r \in Needs(t, c) : r[1] = "hold"
           /\ Needs(t, c) \subseteq Needs(t, c)'
           /\ \A r \in Needs(t, c)' \ Needs(t, c) : r[1] \in {"journal", "balance"}
    BY <1>1, <1>3, <1>4, <1>5, <1>7, NeedsGrow
  <2> DEFINE N == Needs(t, c)
             M == Needs(t, c)'
  <2>6. \A r \in Rows : owner'[r] = t => r \in M
    BY <2>3, <2>5
  <2>7. \A r, q \in Rows \cap M : Before(r, q) /\ owner'[q] = t => owner'[r] = t
    <3> SUFFICES ASSUME NEW r \in Rows \cap M, NEW q \in Rows \cap M, Before(r, q), owner'[q] = t
                 PROVE  owner'[r] = t
      OBVIOUS
    <3>1. q \in N
      BY <2>3
    <3>2. r \in N
      <4>1. CASE M = N
        BY <4>1
      <4>2. CASE r \notin N /\ q[1] = "hold" /\ r[1] \in {"journal", "balance"}
        BY <4>2 DEF Before, Kind
      <4> HIDE DEF M, N
      <4> QED BY <2>5, <3>1, <4>1, <4>2 DEF M, N
    <3> QED BY <2>4, <3>1, <3>2
  <2> QED BY <2>6, <2>7 DEF InOrder, Rows, Work
<1>15. Stage(t)'
  BY <1>1, <1>3, <1>12, <1>13, <1>14 DEF Stage
<1> QED BY <1>10, <1>11, <1>15

\* A call that is neither done nor refused, and has its rows, is allowed.
LEMMA RunsAllowed ==
  ASSUME OneCallEach, TxInv, NEW t \in Txs, InCall(t), ~ AlreadyDone(t), ~ Refused(t),
         Missing(t, This(t)) = {}
  PROVE  /\ Allowed(mine[t], journals, Work(t)) /\ Locked(t, mine[t], Work(t))
         /\ Same(mine[t], Committed, Work(t))
<1> DEFINE c == Work(t)
<1>1. Shapes /\ TypeOK /\ Stage(t) /\ mine[t] \in Copies /\ next[t] \in {1, 2}
  BY DEF TxInv, IInv, Shapes
<1>2. state[t] = "running" /\ next[t] = 1 /\ This(t) = c /\ c \in Call /\ KnowsAccounts(t, c)
  BY <1>1, GoesOn
<1>3. Fresh(t) /\ Claims(t)
  BY <1>1, <1>2 DEF Stage
<1>4. \A row \in Needs(t, c) : owner[row] = t
  BY <1>2, WantedIs
<1>5. OwnsHolds(t, c) /\ \A h \in HoldsOf(c) : owner[<<"hold", h>>] = t
  <2>1. \A h \in HoldsOf(c) : <<"hold", h>> \in Needs(t, c)
    BY <1>2, CallIs DEF Needs
  <2> QED BY <1>4, <2>1 DEF OwnsHolds
<1>6. \A j \in Inserts(c) : owner[<<"journal", j>>] = t
  <2>1. \A j \in Inserts(c) : <<"journal", j>> \in Needs(t, c)
    BY <1>5 DEF Needs, Inserts
  <2> QED BY <1>4, <2>1
<1>7. \A a \in Balances(mine[t], c) : owner[<<"balance", a>>] = t /\ a \in Accounts
  <2>1. \A a \in Balances(mine[t], c) : <<"balance", a>> \in Needs(t, c)
    BY <1>2, <1>5, CallIs DEF Needs, Balances
  <2>2. \A a : <<"balance", a>> \in Rows => a \in Accounts
    BY DEF Rows
  <2>3. Needs(t, c) \subseteq Rows
    BY <1>2, NeedsRows
  <2> QED BY <1>4, <2>1, <2>2, <2>3
<1>8. Same(mine[t], Committed, c)
  <2>1. HoldsOf(c) \subseteq HoldIds
    BY <1>2, CallIs
  <2> QED BY <1>3, <1>5, <1>7, <2>1 DEF Same, Alike, Fresh, Reads
<1>9. Allowed(mine[t], journals, c)
  <2> HIDE DEF c
  <2> DEFINE m == mine[t]
             R == RowsOf(c)
             reserved == [a \in Accounts |-> m.held[a] - Frees(m, c)[a]]
  <2>1. CASE c.op = "post"
    <3>1. ValidJournal(R) /\ CanWrite(m.raw, R, reserved)
      BY <1>2, <2>1 DEF Refused
    <3>2. c.journal \notin journals
      BY <1>2, <2>1, <3>1 DEF AlreadyDone, PostedBefore
    <3> QED BY <2>1, <3>1, <3>2 DEF Allowed
  <2>2. CASE c.op = "place"
    <3>1. owner[<<"hold", c.hold>>] = t /\ c.hold \in HoldIds /\ c.account \in Accounts /\ c.amount \in 1 .. MaxAmount
      BY <1>2, <1>5, <2>2, CallIs
    <3>2. m.holds[c.hold] = NoHold
      BY <1>3, <2>2, <3>1 DEF Claims, Fresh, Reads, Committed, c
    <3>3. ~ (~ AllowNegative[c.account] /\ AvailableOf(c.account, m.raw[c.account], m.held[c.account]) < c.amount)
      BY <1>2, <2>2 DEF Refused
    <3>4. AvailableOf(c.account, m.raw[c.account], m.held[c.account]) \in Int /\ c.amount \in Int
      <4>1. NormalSign[c.account] \in {1, -1} /\ m.raw[c.account] \in Int /\ m.held[c.account] \in Int
        BY <1>1, <3>1, LedgerAssumption DEF Copies
      <4> QED BY <3>1, <4>1, LedgerAssumption DEF AvailableOf
    <3>5. ~ AllowNegative[c.account] => AvailableOf(c.account, m.raw[c.account], m.held[c.account]) >= c.amount
      BY <3>3, <3>4
    <3> QED BY <2>2, <3>2, <3>5 DEF Allowed
  <2>3. CASE c.op = "capture"
    <3>1. /\ ValidJournal(R) /\ CanWrite(m.raw, R, reserved) /\ c.journal \notin journals
          /\ \A h \in c.holds : /\ m.holds[h].status = "active"
                                /\ TakenFrom(R, m.holds[h].account) \in 1 .. m.holds[h].amount
          /\ ~ \E a \in Accounts : m.held[a] < Frees(m, c)[a]
      BY <1>2, <1>5, <2>3 DEF Refused, PostedBefore
    <3>2. \A a \in Balances(m, c) : m.held[a] >= Frees(m, c)[a]
      <4> SUFFICES ASSUME NEW a \in Balances(m, c) PROVE m.held[a] >= Frees(m, c)[a]
        OBVIOUS
      <4>1. a \in Accounts /\ ~ (m.held[a] < Frees(m, c)[a])
        BY <1>7, <3>1 DEF c
      <4>2. m.held[a] \in Int
        BY <1>1, <4>1 DEF Copies
      <4>3. Frees(m, c)[a] \in Nat
        <5>1. \A h \in HoldsOf(c) : m.holds[h] \in Hold
          <6>1. \A h \in HoldsOf(c) : m.holds[h] \in Hold \cup {NoHold}
            BY <1>1, <1>2, CallIs DEF Copies
          <6>2. HoldsOf(c) = c.holds
            BY <1>2, <2>3, CallIs
          <6> QED BY <3>1, <6>1, <6>2 DEF NoHold
        <5>2. ReservedIn(m.holds, HoldsOf(c), a) \in Nat
          BY <1>2, <5>1, CallIs, ReservedType
        <5> QED BY <4>1, <5>2 DEF Frees
      <4> QED BY <4>1, <4>2, <4>3
    <3> QED BY <2>3, <3>1, <3>2 DEF Allowed
  <2>4. CASE c.op = "resolve"
    <3>1. /\ m.holds[c.hold].status = "active" /\ (c.to = "expired" => m.holds[c.hold].due)
          /\ ~ (m.held[m.holds[c.hold].account] < m.holds[c.hold].amount)
      BY <1>2, <1>5, <2>4 DEF Refused
    <3>2. m.holds[c.hold] \in Hold
      <4>1. m.holds[c.hold] \in Hold \cup {NoHold}
        BY <1>1, <1>2, <2>4, CallIs DEF Copies
      <4> QED BY <3>1, <4>1 DEF NoHold
    <3>3. m.holds[c.hold].amount \in Int /\ m.held[m.holds[c.hold].account] \in Int
      BY <1>1, <3>2, LedgerAssumption DEF Hold, Copies
    <3>4. m.held[m.holds[c.hold].account] >= m.holds[c.hold].amount
      BY <3>1, <3>3
    <3> QED BY <2>4, <3>1, <3>4 DEF Allowed
  <2> QED BY <1>2, <2>1, <2>2, <2>3, <2>4, CallIs
<1> QED BY <1>5, <1>6, <1>7, <1>8, <1>9 DEF Locked

LEMMA ExecuteStep ==
  ASSUME OneCallEach, TxInv, NEW t \in Txs, Execute(t)
  PROVE  Shapes' /\ \A u \in Txs : Stage(u)'
<1> DEFINE c == Work(t)
<1>1. /\ Shapes /\ TypeOK /\ \A u \in Txs : Stage(u)
      /\ UNCHANGED vars /\ state' = state /\ owner' = owner
      /\ InCall(t) /\ ~ AlreadyDone(t) /\ ~ Refused(t) /\ Missing(t, This(t)) = {}
      /\ mine' = [mine EXCEPT ![t] = Written(mine[t], This(t))]
      /\ next' = [next EXCEPT ![t] = @ + 1]
  BY DEF TxInv, IInv, Execute
<1>2. mine[t] \in Copies /\ next[t] \in {1, 2}
  BY <1>1 DEF Shapes
<1>3. /\ state[t] = "running" /\ next[t] = 1 /\ This(t) = c /\ c \in Call
  BY <1>1, <1>2, GoesOn
<1>4. Allowed(mine[t], journals, c) /\ Locked(t, mine[t], c) /\ Same(mine[t], Committed, c)
  BY <1>1, RunsAllowed
<1>5. Fresh(t)
  BY <1>1, <1>3 DEF Stage
<1>6. Committed \in Copies /\ Committed' = Committed /\ journals' = journals
  BY <1>1, CommittedIs DEF Committed, vars
<1> HIDE DEF c
<1>7. Written(mine[t], c) \in Copies
  BY <1>2, <1>3, <1>4, WrittenType
<1>8. /\ mine' \in [Txs -> Copies] /\ mine'[t] = Written(mine[t], c)
      /\ \A u \in Txs \ {t} : mine'[u] = mine[u]
      /\ next' \in [Txs -> {1, 2}] /\ next'[t] = 2 /\ \A u \in Txs \ {t} : next'[u] = next[u]
  BY <1>1, <1>3, <1>7 DEF Shapes
<1>9. Shapes'
  BY <1>1, <1>8 DEF Shapes
<1>10. ASSUME NEW u \in Txs, u # t PROVE Stage(u)'
  BY <1>1, <1>8, <1>10, BystanderStays
<1>11. Done(t)'
  <2> DEFINE m == mine[t]
             n == Committed
  <2>1. m \in Copies /\ n \in Copies /\ Same(m, n, c) /\ Reads(t, m, n)
    BY <1>2, <1>4, <1>5, <1>6 DEF Fresh
  <2> HIDE DEF m, n
  <2>2. Allowed(n, journals, c)
    BY <1>3, <1>4, <2>1, SameAllowed DEF m
  <2>3. Balances(n, c) = Balances(m, c)
    BY <1>3, <2>1, SameBalances
  <2>4. Locked(t, n, c)
    BY <1>4, <2>3 DEF Locked, m
  <2>5. /\ Written(m, c).journals = Written(n, c).journals
        /\ Written(m, c).postings = Written(n, c).postings
    <3>1. \A k \in Copies : /\ Written(k, c).journals = k.journals \cup Inserts(c)
                            /\ Written(k, c).postings = k.postings \cup NewRows(c)
      <4> SUFFICES ASSUME NEW k \in Copies
                   PROVE  /\ Written(k, c).journals = k.journals \cup Inserts(c)
                          /\ Written(k, c).postings = k.postings \cup NewRows(c)
        OBVIOUS
      <4> QED BY <1>3, WrittenIs
    <3> QED BY <2>1, <3>1 DEF Reads
  <2>6. /\ \A a \in Accounts : m.raw[a] = n.raw[a] /\ m.held[a] = n.held[a]
              => Written(m, c).raw[a] = Written(n, c).raw[a] /\ Written(m, c).held[a] = Written(n, c).held[a]
        /\ \A h \in HoldIds : m.holds[h] = n.holds[h] => Written(m, c).holds[h] = Written(n, c).holds[h]
    BY <1>3, <2>1, SameWritten
  <2>7. Reads(t, Written(m, c), Written(n, c))
    BY <2>1, <2>5, <2>6 DEF Reads
  <2>8. /\ n' = n /\ c' = c
    BY <1>6 DEF n, c, Work
  <2>9. /\ Allowed(n, journals, c)' /\ Locked(t, n, c)' /\ Reads(t, mine[t], Written(n, c))'
    <3>1. Allowed(n, journals, c)' = Allowed(n, journals, c)
      BY <1>6, <2>8
    <3>2. Locked(t, n, c)' = Locked(t, n, c)
      BY <1>1, <2>8 DEF Locked
    <3>3. Reads(t, mine[t], Written(n, c))' = Reads(t, Written(m, c), Written(n, c))
      BY <1>1, <1>8, <2>8 DEF Reads, m
    <3> QED BY <2>2, <2>4, <2>7, <3>1, <3>2, <3>3
  <2> QED BY <2>9 DEF Done, n, c
<1>12. Stage(t)'
  BY <1>1, <1>3, <1>8, <1>11 DEF Stage
<1> QED BY <1>9, <1>10, <1>12

LEMMA SkipStep ==
  ASSUME OneCallEach, TxInv, NEW t \in Txs, Skip(t)
  PROVE  Shapes' /\ \A u \in Txs : Stage(u)'
<1>1. /\ Shapes /\ TypeOK /\ \A u \in Txs : Stage(u)
      /\ UNCHANGED vars /\ state' = state /\ owner' = owner /\ mine' = mine
      /\ InCall(t) /\ next' = [next EXCEPT ![t] = @ + 1] /\ next[t] \in {1, 2}
  BY DEF TxInv, IInv, Skip, Shapes
<1>2. state[t] = "running" /\ next[t] = 1
  BY <1>1, WorkIs
<1>3. /\ next' \in [Txs -> {1, 2}] /\ next'[t] = 2 /\ \A u \in Txs \ {t} : next'[u] = next[u]
  BY <1>1, <1>2 DEF Shapes
<1>4. Shapes'
  BY <1>1, <1>3 DEF Shapes
<1>5. ASSUME NEW u \in Txs, u # t PROVE Stage(u)'
  BY <1>1, <1>3, <1>5, BystanderStays
<1>6. Fresh(t)'
  <2>1. Fresh(t) /\ Committed' = Committed
    BY <1>1, <1>2 DEF Stage, Committed, vars
  <2> QED BY <1>1, <2>1 DEF Fresh, Reads
<1>7. Stage(t)'
  BY <1>1, <1>2, <1>3, <1>6 DEF Stage
<1> QED BY <1>4, <1>5, <1>7

LEMMA ReleaseFrees ==
  ASSUME Shapes, NEW t \in Txs, Release(t), NEW to \in {"committed", "aborted"},
         state' = [state EXCEPT ![t] = to]
  PROVE  /\ Shapes' /\ Stage(t)'
         /\ \A row \in Rows : owner'[row] = IF owner[row] = t THEN Free ELSE owner[row]
         /\ \A u \in Txs \ {t} : /\ mine'[u] = mine[u] /\ state'[u] = state[u] /\ next'[u] = next[u]
                                 /\ \A row \in Rows : owner[row] = u <=> owner'[row] = u
<1>1. /\ owner \in [Rows -> Txs \cup {Free}] /\ mine \in [Txs -> Copies] /\ next \in [Txs -> {1, 2}]
      /\ state \in [Txs -> {"idle", "running", "committed", "aborted"}]
      /\ owner' = [row \in Rows |-> IF owner[row] = t THEN Free ELSE owner[row]]
      /\ mine' = [mine EXCEPT ![t] = Blank] /\ next' = next /\ Free \notin Txs
  BY TxAssumption DEF Shapes, Release
<1>2. Blank \in Copies
  <2> DEFINE zeros == [a \in Accounts |-> 0]
             none == [h \in HoldIds |-> NoHold]
  <2>1. zeros \in [Accounts -> Int] /\ none \in [HoldIds -> Hold \cup {NoHold}]
    OBVIOUS
  <2>2. Blank = [journals |-> {}, postings |-> {}, raw |-> zeros, held |-> zeros, holds |-> none]
    BY DEF Blank
  <2> HIDE DEF zeros, none
  <2> QED BY <2>1, <2>2 DEF Copies
<1>3. Shapes'
  BY <1>1, <1>2 DEF Shapes
<1>4. \A row \in Rows : owner'[row] # t
  BY <1>1
<1>5. mine'[t] = Blank /\ state'[t] # "running"
  BY <1>1
<1>6. Stage(t)'
  <2>1. Blank' = Blank
    BY DEF Blank
  <2> QED BY <1>4, <1>5, <2>1 DEF Stage, Rows
<1> QED BY <1>1, <1>3, <1>6

LEMMA AbortStep ==
  ASSUME OneCallEach, TxInv, NEW t \in Txs, Abort(t)
  PROVE  Shapes' /\ \A u \in Txs : Stage(u)'
<1>1. Shapes /\ TypeOK /\ (\A u \in Txs : Stage(u)) /\ UNCHANGED vars
      /\ Release(t) /\ state' = [state EXCEPT ![t] = "aborted"]
  BY DEF TxInv, IInv, Abort
<1>2. /\ Shapes' /\ Stage(t)'
      /\ \A u \in Txs \ {t} : /\ mine'[u] = mine[u] /\ state'[u] = state[u] /\ next'[u] = next[u]
                              /\ \A row \in Rows : owner[row] = u <=> owner'[row] = u
  BY <1>1, ReleaseFrees
<1>3. ASSUME NEW u \in Txs, u # t PROVE Stage(u)'
  BY <1>1, <1>2, <1>3, BystanderStays
<1> QED BY <1>2, <1>3

\* What a commit shows to the others is one step of the ledger, or none.
LEMMA CommitShows ==
  ASSUME OneCallEach, TxInv, NEW t \in Txs, Commit(t)
  PROVE  /\ [Next]_vars
         /\ \A j \in journals' \ journals : owner[<<"journal", j>>] = t
<1> DEFINE c == Work(t)
<1>1. /\ Shapes /\ TypeOK /\ Stage(t) /\ state[t] = "running" /\ next[t] > Len(Calls[t])
      /\ next[t] \in {1, 2}
      /\ journals' = journals \cup mine[t].journals
      /\ postings' = postings \cup mine[t].postings
      /\ raw' = [a \in Accounts |-> IF owner[<<"balance", a>>] = t THEN mine[t].raw[a] ELSE raw[a]]
      /\ held' = [a \in Accounts |-> IF owner[<<"balance", a>>] = t THEN mine[t].held[a] ELSE held[a]]
      /\ holds' = [h \in HoldIds |-> IF owner[<<"hold", h>>] = t THEN mine[t].holds[h] ELSE holds[h]]
  BY DEF TxInv, IInv, Commit, Shapes
<1>2. next[t] = 2 /\ c \in Call
  <2>1. Len(Calls[t]) = 1
    BY DEF OneCallEach
  <2> QED BY <1>1, <2>1, WorkIs
<1>3. Fresh(t) \/ Done(t)
  BY <1>1, <1>2 DEF Stage
<1>4. /\ raw \in [Accounts -> Int] /\ held \in [Accounts -> Int] /\ holds \in [HoldIds -> Hold \cup {NoHold}]
  BY <1>1 DEF TypeOK
<1>5. CASE Fresh(t)
  <2>1. Reads(t, mine[t], Committed)
    BY <1>5 DEF Fresh
  <2>2. journals' = journals /\ postings' = postings
    BY <1>1, <2>1 DEF Reads, Committed
  <2>3. raw' = raw /\ held' = held /\ holds' = holds
    BY <1>1, <1>4, <2>1 DEF Reads, Committed
  <2> QED BY <2>2, <2>3 DEF vars
<1>6. CASE Done(t)
  <2> DEFINE m == Committed
             n == Written(m, c)
  <2>1. Allowed(m, journals, c) /\ Locked(t, m, c) /\ Reads(t, mine[t], n)
    BY <1>6 DEF Done
  <2>2. m \in Copies /\ m.raw = raw /\ m.held = held /\ m.holds = holds
        /\ m.journals = {} /\ m.postings = {}
    BY <1>1, CommittedIs DEF Committed
  <2> HIDE DEF m
  <2>3. /\ n.journals = Inserts(c) /\ n.postings = NewRows(c)
        /\ n.raw \in [Accounts -> Int] /\ n.held \in [Accounts -> Int]
    <3>1. n \in Copies
      BY <1>2, <2>1, <2>2, WrittenType DEF c
    <3> HIDE DEF c
    <3>2. n.journals = m.journals \cup Inserts(c) /\ n.postings = m.postings \cup NewRows(c)
      <4>1. c \in Call /\ m \in Copies
        BY <1>2, <2>2
      <4>2. n = [journals |-> m.journals \cup Inserts(c), postings |-> m.postings \cup NewRows(c),
                 raw |-> [a \in Accounts |-> m.raw[a] + Signed(On(NewRows(c), a))],
                 held |-> [a \in Accounts |-> HeldAfter(m, c, a)],
                 holds |-> [h \in HoldIds |-> HoldAfter(m, c, h)]]
        BY <4>1, WrittenIs
      <4> QED BY <4>2
    <3> QED BY <2>2, <3>1, <3>2 DEF Copies
  <2>4. n.holds \in [HoldIds -> Hold \cup {NoHold}]
    BY <1>2, <2>1, <2>2, WrittenType DEF c, Copies
  <2>5. /\ \A a \in Accounts \ Balances(m, c) : n.raw[a] = m.raw[a] /\ n.held[a] = m.held[a]
        /\ \A h \in HoldIds \ HoldsOf(c) : n.holds[h] = m.holds[h]
    BY <1>2, <2>2, UntouchedStays DEF c
  <2> HIDE DEF n
  <2>6. journals' = journals \cup Inserts(c) /\ postings' = postings \cup NewRows(c)
    BY <1>1, <2>1, <2>3 DEF Reads
  <2>7. raw' = n.raw /\ held' = n.held
    <3>1. \A a \in Accounts : raw'[a] = n.raw[a] /\ held'[a] = n.held[a]
      <4> SUFFICES ASSUME NEW a \in Accounts PROVE raw'[a] = n.raw[a] /\ held'[a] = n.held[a]
        OBVIOUS
      <4>1. CASE owner[<<"balance", a>>] = t
        BY <1>1, <2>1, <4>1 DEF Reads
      <4>2. CASE owner[<<"balance", a>>] # t
        <5>1. a \notin Balances(m, c)
          BY <2>1, <4>2 DEF Locked
        <5> QED BY <1>1, <2>2, <2>5, <4>2, <5>1
      <4> QED BY <4>1, <4>2
    <3>2. raw' = [a \in Accounts |-> raw'[a]] /\ held' = [a \in Accounts |-> held'[a]]
      BY <1>1
    <3> QED BY <2>3, <3>1, <3>2
  <2>8. holds' = n.holds
    <3>1. \A h \in HoldIds : holds'[h] = n.holds[h]
      <4> SUFFICES ASSUME NEW h \in HoldIds PROVE holds'[h] = n.holds[h]
        OBVIOUS
      <4>1. CASE owner[<<"hold", h>>] = t
        BY <1>1, <2>1, <4>1 DEF Reads
      <4>2. CASE owner[<<"hold", h>>] # t
        <5>1. h \notin HoldsOf(c)
          BY <2>1, <4>2 DEF Locked
        <5> QED BY <1>1, <2>2, <2>5, <4>2, <5>1
      <4> QED BY <4>1, <4>2
    <3>2. holds' = [h \in HoldIds |-> holds'[h]]
      BY <1>1
    <3> QED BY <2>4, <3>1, <3>2
  <2>9. Next
    BY <1>1, <1>2, <2>1, <2>6, <2>7, <2>8, CallSteps DEF m, n
  <2>10. \A j \in journals' \ journals : owner[<<"journal", j>>] = t
    BY <2>1, <2>6 DEF Locked
  <2> QED BY <2>9, <2>10
<1> QED BY <1>3, <1>5, <1>6

LEMMA CommitStep ==
  ASSUME OneCallEach, TxInv, NEW t \in Txs, Commit(t)
  PROVE  [Next]_vars /\ TxInv'
<1>1. /\ Shapes /\ TypeOK /\ IInv /\ (\A u \in Txs : Stage(u))
      /\ Release(t) /\ state' = [state EXCEPT ![t] = "committed"]
      /\ raw' = [a \in Accounts |-> IF owner[<<"balance", a>>] = t THEN mine[t].raw[a] ELSE raw[a]]
      /\ held' = [a \in Accounts |-> IF owner[<<"balance", a>>] = t THEN mine[t].held[a] ELSE held[a]]
      /\ holds' = [h \in HoldIds |-> IF owner[<<"hold", h>>] = t THEN mine[t].holds[h] ELSE holds[h]]
  BY DEF TxInv, IInv, Commit
<1>2. [Next]_vars /\ \A j \in journals' \ journals : owner[<<"journal", j>>] = t
  BY CommitShows
<1>3. IInv' /\ TypeOK'
  BY <1>1, <1>2, NextInv DEF IInv
<1>4. /\ Shapes' /\ Stage(t)'
      /\ \A u \in Txs \ {t} : /\ mine'[u] = mine[u] /\ state'[u] = state[u] /\ next'[u] = next[u]
                              /\ \A row \in Rows : owner[row] = u <=> owner'[row] = u
  BY <1>1, ReleaseFrees
<1>5. ASSUME NEW u \in Txs, u # t PROVE Stage(u)'
  <2>1. \A h \in HoldIds : owner[<<"hold", h>>] = u => holds'[h] = holds[h]
    BY <1>1, <1>5
  <2>2. \A a \in Accounts : owner[<<"balance", a>>] = u => raw'[a] = raw[a] /\ held'[a] = held[a]
    BY <1>1, <1>5
  <2>3. \A j \in JournalIds : owner[<<"journal", j>>] = u /\ j \in journals' => j \in journals
    BY <1>2, <1>5
  <2>4. Spared(u)
    BY <1>4, <1>5, <2>1, <2>2, <2>3 DEF Spared, Alike
  <2> QED BY <1>1, <1>3, <1>4, <1>5, <2>1, <2>4, StageStays
<1> QED BY <1>2, <1>3, <1>4, <1>5 DEF TxInv

LEMMA DueCommutes ==
  ASSUME NEW g \in Hold, NEW j \in JournalIds, NEW n \in 0 .. MaxAmount, NEW to \in {"released", "expired"}
  PROVE  LET due(k) == [k EXCEPT !.due = TRUE]
             captured(k) == [k EXCEPT !.status = "captured", !.journal = j, !.taken = n]
             resolved(k) == [k EXCEPT !.status = to]
         IN  /\ due(g) \in Hold /\ captured(g) \in Hold /\ resolved(g) \in Hold
             /\ due(g).account = g.account
             /\ captured(due(g)) = due(captured(g))
             /\ resolved(due(g)) = due(resolved(g))
BY DEF Hold

\* A hold falls due in what a call writes of it as it does in the table.
LEMMA DueIsWritten ==
  ASSUME TypeOK, NEW c \in Call, Allowed(Committed, journals, c), NEW h \in HoldIds, FallDue(h)
  PROVE  /\ HoldAfter(Committed, c, h) \in Hold
         /\ HoldAfter(Committed', c, h) = [HoldAfter(Committed, c, h) EXCEPT !.due = TRUE]
<1> DEFINE g == holds[h]
           taken == TakenFrom(RowsOf(c), g.account)
<1>1. /\ holds \in [HoldIds -> Hold \cup {NoHold}] /\ g.status = "active"
      /\ holds' = [holds EXCEPT ![h].due = TRUE]
      /\ Committed.holds = holds /\ Committed'.holds = holds'
  BY DEF TypeOK, FallDue, Committed
<1>2. g \in Hold /\ holds'[h] = [g EXCEPT !.due = TRUE] /\ Committed.holds[h] = g
  BY <1>1 DEF NoHold
<1> HIDE DEF g
<1>3. g.amount \in 1 .. MaxAmount
  BY <1>2 DEF Hold
<1>4. CASE h \notin HoldsOf(c)
  <2>1. HoldAfter(Committed, c, h) = g /\ HoldAfter(Committed', c, h) = holds'[h]
    BY <1>1, <1>2, <1>4 DEF HoldAfter
  <2> QED BY <1>2, <2>1
<1>5. CASE h \in HoldsOf(c) /\ c.op = "place"
  <2>1. g = NoHold
    BY <1>1, <1>2, <1>5, CallIs DEF Allowed
  <2> QED BY <1>1, <2>1 DEF NoHold
<1>6. CASE h \in HoldsOf(c) /\ c.op = "capture"
  <2>1. taken \in 1 .. g.amount /\ c.journal \in JournalIds
    BY <1>2, <1>6, CallIs DEF Allowed
  <2>2. taken \in 0 .. MaxAmount
    BY <1>3, <2>1, LedgerAssumption
  <2>3. HoldAfter(Committed, c, h)
             = [g EXCEPT !.status = "captured", !.journal = c.journal, !.taken = taken]
    BY <1>2, <1>6 DEF HoldAfter
  <2>4. HoldAfter(Committed', c, h)
             = [holds'[h] EXCEPT !.status = "captured", !.journal = c.journal,
                                 !.taken = TakenFrom(RowsOf(c), holds'[h].account)]
    BY <1>1, <1>6 DEF HoldAfter
  <2>5. TakenFrom(RowsOf(c), holds'[h].account) = taken
    BY <1>2, DueCommutes, <2>1, <2>2
  <2>6. HoldAfter(Committed', c, h)
             = [[g EXCEPT !.due = TRUE] EXCEPT !.status = "captured", !.journal = c.journal, !.taken = taken]
    BY <1>2, <2>4, <2>5
  <2> DEFINE j == c.journal
  <2>7. j \in JournalIds /\ taken \in 0 .. MaxAmount
    BY <2>1, <2>2
  <2> HIDE DEF taken, j
  <2>8. /\ [g EXCEPT !.status = "captured", !.journal = j, !.taken = taken] \in Hold
        /\ [[g EXCEPT !.due = TRUE] EXCEPT !.status = "captured", !.journal = j, !.taken = taken]
             = [[g EXCEPT !.status = "captured", !.journal = j, !.taken = taken] EXCEPT !.due = TRUE]
    BY <1>2, <2>7 DEF Hold
  <2> QED BY <2>3, <2>6, <2>8 DEF j
<1>7. CASE h \in HoldsOf(c) /\ c.op = "resolve"
  <2>1. c.to \in {"released", "expired"}
    BY <1>7, CallIs
  <2>2. /\ HoldAfter(Committed, c, h) = [g EXCEPT !.status = c.to]
        /\ HoldAfter(Committed', c, h) = [[g EXCEPT !.due = TRUE] EXCEPT !.status = c.to]
    BY <1>1, <1>2, <1>7 DEF HoldAfter
  <2> DEFINE to == c.to
  <2> HIDE DEF to
  <2>3. [g EXCEPT !.status = to] \in Hold
        /\ [[g EXCEPT !.due = TRUE] EXCEPT !.status = to] = [[g EXCEPT !.status = to] EXCEPT !.due = TRUE]
    BY <1>2, <2>1 DEF Hold, to
  <2> QED BY <2>2, <2>3 DEF to
<1>8. CASE h \in HoldsOf(c) /\ c.op = "post"
  BY <1>8, CallIs
<1> QED BY <1>4, <1>5, <1>6, <1>7, <1>8, CallIs

\* Time passing a hold's expires_at is a step of the ledger, whoever has it.
LEMMA ElapseStep ==
  ASSUME OneCallEach, TxInv, NEW h \in HoldIds, Elapse(h)
  PROVE  Next /\ TxInv'
<1>1. /\ Shapes /\ TypeOK /\ IInv /\ \A u \in Txs : Stage(u)
      /\ FallDue(h) /\ owner' = owner /\ state' = state /\ next' = next
      /\ mine' = [t \in Txs |-> IF owner[<<"hold", h>>] = t
                                THEN [mine[t] EXCEPT !.holds[h].due = TRUE] ELSE mine[t]]
  BY DEF TxInv, IInv, Elapse
<1>2. Next
  BY <1>1 DEF Next
<1>3. IInv' /\ TypeOK'
  BY <1>1, <1>2, NextInv DEF IInv
<1>4. /\ journals' = journals /\ postings' = postings /\ raw' = raw /\ held' = held
      /\ holds' = [holds EXCEPT ![h].due = TRUE] /\ holds[h].status = "active"
      /\ holds \in [HoldIds -> Hold \cup {NoHold}]
  BY <1>1 DEF FallDue, TypeOK
<1>5. /\ holds[h] \in Hold /\ holds'[h] = [holds[h] EXCEPT !.due = TRUE]
      /\ \A k \in HoldIds \ {h} : holds'[k] = holds[k]
  BY <1>4 DEF NoHold
<1>6. \A k \in HoldIds : Alike(holds[k], holds'[k])
  <2>1. Alike(holds[h], [holds[h] EXCEPT !.due = TRUE])
    <3> DEFINE g == holds[h]
    <3>1. g \in Hold /\ g # NoHold
      BY <1>4, <1>5 DEF NoHold
    <3> HIDE DEF g
    <3>2. Alike(g, [g EXCEPT !.due = TRUE])
      BY <3>1 DEF Alike, Hold
    <3> QED BY <3>2 DEF g
  <2> QED BY <1>5, <2>1 DEF Alike
<1>7. \A u \in Txs : Spared(u)
  BY <1>1, <1>4, <1>6 DEF Spared
<1>8. ASSUME NEW u \in Txs, owner[<<"hold", h>>] # u PROVE mine'[u] \in Copies /\ Stage(u)'
  <2>1. mine'[u] = mine[u]
    BY <1>1, <1>8
  <2>2. \A k \in HoldIds : owner[<<"hold", k>>] = u => holds'[k] = holds[k]
    BY <1>5, <1>8
  <2> QED BY <1>1, <1>3, <1>7, <2>1, <2>2, StageStays DEF Shapes
<1>9. ASSUME NEW u \in Txs, owner[<<"hold", h>>] = u PROVE mine'[u] \in Copies /\ Stage(u)'
  <2> DEFINE c == Work(u)
             m == mine[u]
             hs == [m.holds EXCEPT ![h].due = TRUE]
             n == Committed
  <2>1. c \in Call
    BY WorkIs
  <2>2. m \in Copies /\ Stage(u)
    BY <1>1 DEF Shapes
  <2>3. state[u] = "running"
    BY <1>9, <2>2 DEF Stage, Rows
  <2>4. m.holds[h] \in Hold
    <3>1. CASE Fresh(u)
      BY <1>5, <1>9, <3>1 DEF Fresh, Reads, Committed
    <3>2. CASE Done(u)
      <4>1. m.holds[h] = Written(n, c).holds[h]
        BY <1>9, <3>2 DEF Done, Reads
      <4>2. Written(n, c).holds[h] = HoldAfter(n, c, h)
        <5> HIDE DEF c
        <5>1. \A k \in Copies : \A g \in HoldIds : Written(k, c).holds[g] = HoldAfter(k, c, g)
          <6> SUFFICES ASSUME NEW k \in Copies, NEW g \in HoldIds PROVE Written(k, c).holds[g] = HoldAfter(k, c, g)
            OBVIOUS
          <6> QED BY <2>1, WrittenIs
        <5> QED BY <1>1, <5>1, CommittedIs
      <4>3. HoldAfter(n, c, h) \in Hold
        BY <1>1, <2>1, <3>2, DueIsWritten DEF Done
      <4> QED BY <4>1, <4>2, <4>3
    <3> QED BY <2>2, <2>3, <3>1, <3>2 DEF Stage
  <2>5. mine'[u] = [m EXCEPT !.holds = hs]
    BY <1>1, <1>9, <2>2 DEF Copies
  <2>6. /\ m = [journals |-> m.journals, postings |-> m.postings, raw |-> m.raw, held |-> m.held, holds |-> m.holds]
        /\ m.journals \in SUBSET JournalIds /\ m.postings \in SUBSET PostingRows
        /\ m.raw \in [Accounts -> Int] /\ m.held \in [Accounts -> Int]
        /\ m.holds \in [HoldIds -> Hold \cup {NoHold}]
    BY <2>2 DEF Copies
  <2>7. /\ hs \in [HoldIds -> Hold \cup {NoHold}]
        /\ hs[h] = [m.holds[h] EXCEPT !.due = TRUE] /\ \A k \in HoldIds \ {h} : hs[k] = m.holds[k]
        /\ hs[h].account = m.holds[h].account
    <3> DEFINE g == m.holds[h]
    <3>1. hs = [m.holds EXCEPT ![h] = [g EXCEPT !.due = TRUE]]
      BY <2>6
    <3>2. g \in Hold
      BY <2>4
    <3> HIDE DEF hs, g
    <3>3. [g EXCEPT !.due = TRUE] \in Hold /\ [g EXCEPT !.due = TRUE].account = g.account
      BY <3>2 DEF Hold
    <3> QED BY <2>6, <3>1, <3>3 DEF g
  <2> HIDE DEF m, hs
  <2>8. /\ mine'[u] \in Copies /\ mine'[u].journals = m.journals /\ mine'[u].postings = m.postings
        /\ mine'[u].raw = m.raw /\ mine'[u].held = m.held /\ mine'[u].holds = hs
    <3>1. mine'[u] = [journals |-> m.journals, postings |-> m.postings,
                      raw |-> m.raw, held |-> m.held, holds |-> hs]
      BY <2>5, <2>6
    <3> QED BY <2>6, <2>7, <3>1 DEF Copies
  <2>9. \A k \in HoldIds : mine'[u].holds[k].account = m.holds[k].account
    BY <2>7, <2>8
  <2>10. ASSUME Fresh(u) PROVE Fresh(u)'
    <3>1. Reads(u, m, n) /\ n.raw = raw /\ n.held = held /\ n.holds = holds /\ n.journals = {} /\ n.postings = {}
      BY <2>10 DEF Fresh, Committed, m
    <3>2. /\ n'.raw = raw /\ n'.held = held /\ n'.holds = holds' /\ n'.journals = {} /\ n'.postings = {}
      BY <1>4 DEF Committed
    <3> HIDE DEF n
    <3>3. \A k \in HoldIds : owner[<<"hold", k>>] = u => hs[k] = holds'[k]
      BY <1>5, <1>9, <2>7, <3>1 DEF Reads
    <3>4. Reads(u, mine'[u], n')
      BY <2>8, <3>1, <3>2, <3>3 DEF Reads
    <3>5. Reads(u, mine[u], n)'
      BY <1>1, <3>4 DEF Reads
    <3> QED BY <3>5 DEF Fresh, n
  <2>11. ASSUME Done(u) PROVE Done(u)'
    <3>1. Same(n, n', c)
      BY <1>1, <1>7, <2>11, TouchedStay
    <3>2. n \in Copies /\ n' \in Copies
      BY <1>1, <1>3, CommittedIs DEF TypeOK, Committed, Copies
    <3>3. /\ n.raw = raw /\ n.held = held /\ n.holds = holds /\ n.journals = {} /\ n.postings = {}
          /\ n'.raw = raw /\ n'.held = held /\ n'.holds = holds' /\ n'.journals = {} /\ n'.postings = {}
      BY <1>4 DEF Committed
    <3>4. Reads(u, m, Written(n, c))
      BY <2>11 DEF Done, m
    <3>5. HoldAfter(n', c, h) = [HoldAfter(n, c, h) EXCEPT !.due = TRUE]
      BY <1>1, <2>1, <2>11, DueIsWritten DEF Done
    <3> DEFINE l == n'
    <3> HIDE DEF c, n, l
    <3>6. \A k \in Copies : /\ Written(k, c).journals = k.journals \cup Inserts(c)
                            /\ Written(k, c).postings = k.postings \cup NewRows(c)
                            /\ \A g \in HoldIds : Written(k, c).holds[g] = HoldAfter(k, c, g)
      <4> SUFFICES ASSUME NEW k \in Copies
                   PROVE  /\ Written(k, c).journals = k.journals \cup Inserts(c)
                          /\ Written(k, c).postings = k.postings \cup NewRows(c)
                          /\ \A g \in HoldIds : Written(k, c).holds[g] = HoldAfter(k, c, g)
        OBVIOUS
      <4> QED BY <2>1, WrittenIs
    <3>7. n \in Copies /\ l \in Copies /\ Same(n, l, c)
      BY <3>1, <3>2 DEF l
    <3>8. /\ \A a \in Accounts : n.raw[a] = l.raw[a] /\ n.held[a] = l.held[a]
              => Written(n, c).raw[a] = Written(l, c).raw[a] /\ Written(n, c).held[a] = Written(l, c).held[a]
          /\ \A k \in HoldIds : n.holds[k] = l.holds[k] => Written(n, c).holds[k] = Written(l, c).holds[k]
      BY <2>1, <3>7, SameWritten
    <3>9. Written(l, c).holds[h] = [Written(n, c).holds[h] EXCEPT !.due = TRUE]
      BY <3>5, <3>6, <3>7 DEF l
    <3>10. /\ l.raw = raw /\ l.held = held /\ l.holds = holds' /\ l.journals = {} /\ l.postings = {}
      BY <3>3 DEF l
    <3>11. \A k \in HoldIds : owner[<<"hold", k>>] = u => hs[k] = Written(l, c).holds[k]
      <4> SUFFICES ASSUME NEW k \in HoldIds, owner[<<"hold", k>>] = u PROVE hs[k] = Written(l, c).holds[k]
        OBVIOUS
      <4>1. m.holds[k] = Written(n, c).holds[k]
        BY <3>4 DEF Reads
      <4>2. CASE k = h
        BY <2>7, <3>9, <4>1, <4>2
      <4>3. CASE k # h
        BY <1>5, <2>7, <3>3, <3>8, <3>10, <4>1, <4>3
      <4> QED BY <4>2, <4>3
    <3>12. \A a \in Accounts : Written(n, c).raw[a] = Written(l, c).raw[a] /\ Written(n, c).held[a] = Written(l, c).held[a]
      BY <3>3, <3>8, <3>10
    <3>13. Reads(u, mine'[u], Written(l, c))
      <4>1. Written(n, c).journals = Written(l, c).journals /\ Written(n, c).postings = Written(l, c).postings
        BY <3>3, <3>6, <3>7, <3>10
      <4> QED BY <2>8, <3>4, <3>11, <3>12, <4>1 DEF Reads
    <3> QED BY <1>1, <1>7, <2>11, <3>13, DoneStays DEF l, n, c
  <2>12. ASSUME Claims(u) PROVE Claims(u)'
    <3>1. c.op = "place" => c.hold \in HoldIds
      BY <2>1, CallIs
    <3> QED BY <1>1, <1>4, <1>5, <2>12, <3>1 DEF Claims, Work, NoHold
  <2>13. ASSUME InOrder(u) PROVE InOrder(u)'
    BY <1>1, <2>9, <2>13, OrderStays DEF m
  <2> QED BY <1>1, <2>2, <2>3, <2>8, <2>10, <2>11, <2>12, <2>13 DEF Stage
<1>10. Shapes'
  <2>1. \A u \in Txs : mine'[u] \in Copies
    BY <1>8, <1>9
  <2>2. mine' \in [Txs -> Copies]
    BY <1>1, <2>1
  <2> QED BY <1>1, <2>2 DEF Shapes
<1>11. \A u \in Txs : Stage(u)'
  BY <1>8, <1>9
<1> QED BY <1>2, <1>3, <1>10, <1>11 DEF TxInv

-----------------------------------------------------------------------------
(* Transactions of one call implement the ledger                           *)

LEMMA TxInitInv == ASSUME OneCallEach, TxInit PROVE TxInv
<1>1. /\ Init /\ owner = [row \in Rows |-> Free] /\ state = [t \in Txs |-> "idle"]
      /\ next = [t \in Txs |-> 1] /\ mine = [t \in Txs |-> Blank] /\ Free \notin Txs
  BY TxAssumption DEF TxInit
<1>2. Blank \in Copies
  <2> DEFINE zeros == [a \in Accounts |-> 0]
             none == [h \in HoldIds |-> NoHold]
  <2>1. zeros \in [Accounts -> Int] /\ none \in [HoldIds -> Hold \cup {NoHold}]
    OBVIOUS
  <2>2. Blank = [journals |-> {}, postings |-> {}, raw |-> zeros, held |-> zeros, holds |-> none]
    BY DEF Blank
  <2> HIDE DEF zeros, none
  <2> QED BY <2>1, <2>2 DEF Copies
<1>3. IInv
  BY <1>1, InitInv
<1>4. Shapes
  BY <1>1, <1>2 DEF Shapes
<1>5. \A t \in Txs : Stage(t)
  BY <1>1 DEF Stage
<1> QED BY <1>3, <1>4, <1>5 DEF TxInv

LEMMA TxNextInv ==
  ASSUME OneCallEach, TxInv, [TxNext]_allVars
  PROVE  [Next]_vars /\ TxInv'
<1>1. ASSUME UNCHANGED vars, Shapes', \A u \in Txs : Stage(u)' PROVE [Next]_vars /\ TxInv'
  BY <1>1, NextInv DEF TxInv
<1>2. CASE \E t \in Txs : Begin(t) \/ Acquire(t) \/ Execute(t) \/ Skip(t) \/ Abort(t)
  <2>1. PICK t \in Txs : Begin(t) \/ Acquire(t) \/ Execute(t) \/ Skip(t) \/ Abort(t)
    BY <1>2
  <2>2. UNCHANGED vars
    BY <2>1 DEF Begin, Acquire, Execute, Skip, Abort
  <2>3. Shapes' /\ \A u \in Txs : Stage(u)'
    BY <2>1, BeginStep, AcquireStep, ExecuteStep, SkipStep, AbortStep
  <2> QED BY <1>1, <2>2, <2>3
<1>3. CASE \E t \in Txs : Commit(t)
  BY <1>3, CommitStep
<1>4. CASE \E h \in HoldIds : Elapse(h)
  BY <1>4, ElapseStep
<1>5. CASE (\E t \in Txs : Refer(t)) \/ UNCHANGED allVars
  <2>1. UNCHANGED vars /\ owner' = owner /\ state' = state /\ next' = next /\ mine' = mine
    BY <1>5 DEF allVars, txVars, Refer
  <2>2. Shapes' /\ \A u \in Txs : Stage(u)'
    BY <2>1, BystanderStays DEF TxInv, IInv, Shapes
  <2> QED BY <1>1, <2>1, <2>2
<1> QED BY <1>2, <1>3, <1>4, <1>5 DEF TxNext

\* Every operation on wallets is a step of its transaction.
LEMMA WalletSteps == [WalletNext]_walletVars => [TxNext]_allVars
<1> SUFFICES ASSUME [WalletNext]_walletVars PROVE [TxNext]_allVars
  OBVIOUS
<1>1. CASE \E t \in Txs : \/ BeginOperation(t) \/ ExecuteChecked(t) \/ CommitOperation(t)
                          \/ /\ Refer(t) \/ Acquire(t) \/ Skip(t) \/ Abort(t)
                             /\ UNCHANGED dayVars
  BY <1>1 DEF BeginOperation, ExecuteChecked, CommitOperation, TxNext
<1>2. CASE \E h \in HoldIds : Elapse(h) /\ UNCHANGED dayVars
  BY <1>2 DEF TxNext
<1>3. CASE Midnight
  BY <1>3 DEF Midnight
<1>4. CASE UNCHANGED walletVars
  BY <1>4 DEF walletVars
<1> QED BY <1>1, <1>2, <1>3, <1>4 DEF WalletNext

\* Transactions of one repository call, interleaved under the locks of
\* lockAccountsForPosting, lockHold and lockAccount, crashed and retried at
\* will, behave as if run one by one: what a commit shows is a step of Ledger.
THEOREM TransactionsAreSteps == ASSUME OneCallEach PROVE TxSpec => ImplementsLedger
<1>1. TxSpec => []TxInv
  <2>1. TxInit => TxInv
    BY TxInitInv
  <2>2. TxInv /\ [TxNext]_allVars => TxInv'
    BY TxNextInv
  <2> QED BY <2>1, <2>2, PTL DEF TxSpec
<1>2. TxInv /\ [TxNext]_allVars => [vars' # vars => Next]_vars
  BY TxNextInv
<1>3. TxInit => Init
  BY DEF TxInit
<1> QED BY <1>1, <1>2, <1>3, PTL DEF TxSpec, ImplementsLedger

\* The invariant holds whatever checks run before a commit (PostJournalChecked).
THEOREM WalletInvariant == ASSUME OneCallEach PROVE WalletSpec => []TxInv
<1>1. WalletInit => TxInv
  BY TxInitInv DEF WalletInit
<1>2. TxInv /\ [WalletNext]_walletVars => TxInv'
  BY WalletSteps, TxNextInv
<1> QED BY <1>1, <1>2, PTL DEF WalletSpec

\* The same of the wallet operations, with the checks they run before commit.
THEOREM OperationsAreSteps == ASSUME OneCallEach PROVE WalletSpec => ImplementsLedger
<1>1. TxInv /\ [WalletNext]_walletVars => [vars' # vars => Next]_vars
  BY WalletSteps, TxNextInv
<1>2. WalletInit => Init
  BY DEF WalletInit, TxInit
<1> QED BY <1>1, <1>2, WalletInvariant, PTL DEF WalletSpec, ImplementsLedger

\* So what Ledger promises of its balances and holds (postJournal, PlaceHold,
\* CaptureHolds, resolveHold) is true of the tables after every commit.
THEOREM OperationsKeepTheBooks ==
  ASSUME OneCallEach
  PROVE  WalletSpec => [](BalanceIsPostings /\ HeldIsActiveHolds /\ NoOverdraft
                            /\ BooksBalance /\ CapturesAreJournalled)
<1>1. TxInv => BalanceIsPostings /\ HeldIsActiveHolds /\ NoOverdraft
                 /\ BooksBalance /\ CapturesAreJournalled
  BY DEF TxInv, IInv
<1> QED BY <1>1, WalletInvariant, PTL

-----------------------------------------------------------------------------
(* No circle of the transactions that wait for rows in the code's order     *)

\* A transaction refers to a customer before it locks anything (the INSERT of
\* CreateWithdrawal and of CreateOrder comes first in their transactions).
RefersFirst == \A t \in Txs : Referring(t) => \A row \in Rows : owner[row] # t

LEMMA RefersFirstInv ==
  ASSUME TxInv, RefersFirst, [TxNext]_allVars
  PROVE  RefersFirst'
<1> USE TxAssumption
<1>1. owner \in [Rows -> Txs \cup {Free}]
  BY DEF TxInv, Shapes
<1>2. ASSUME NEW t \in Txs, Acquire(t) PROVE RefersFirst'
  <2> DEFINE row == Wanted(t, This(t))
  <2>1. ~ Referring(t) /\ sharing' = sharing /\ owner' = [owner EXCEPT ![row] = t]
    BY <1>2 DEF Acquire, InCall, Takes
  <2> HIDE DEF row
  <2>2. \A u \in Txs : Referring(u)' <=> Referring(u)
    BY <2>1 DEF Referring
  <2>3. ASSUME NEW u \in Txs, u # t, NEW r \in Rows, owner[r] # u PROVE owner'[r] # u
    BY <1>1, <2>1, <2>3
  <2> QED BY <2>1, <2>2, <2>3 DEF RefersFirst
<1>3. ASSUME NEW t \in Txs, Commit(t) \/ Abort(t) PROVE RefersFirst'
  <2>1. /\ sharing' = sharing \ {t}
        /\ \A r \in Rows : owner'[r] = IF owner[r] = t THEN Free ELSE owner[r]
    BY <1>3 DEF Commit, Abort, Release
  <2>2. \A u \in Txs : u # t /\ Referring(u)' => Referring(u)
    BY <2>1 DEF Referring
  <2> QED BY <2>1, <2>2 DEF RefersFirst
<1>4. ASSUME owner' = owner, sharing \subseteq sharing' PROVE RefersFirst'
  BY <1>4 DEF RefersFirst, Referring
<1>5. ASSUME \/ \E t \in Txs : Begin(t) \/ Refer(t) \/ Execute(t) \/ Skip(t)
             \/ \E h \in HoldIds : Elapse(h)
             \/ UNCHANGED allVars
      PROVE  owner' = owner /\ sharing \subseteq sharing'
  BY <1>5 DEF Begin, Refer, Execute, Skip, Elapse, allVars, txVars
<1> QED BY <1>2, <1>3, <1>4, <1>5 DEF TxNext

\* The row a call wants comes after every row its transaction has.
LEMMA WaitsAhead ==
  ASSUME OneCallEach, TxInv, NEW t \in Txs, Wants(t)
  PROVE  LET w == Wanted(t, This(t))
         IN  w \in Rows /\ \A row \in Rows : owner[row] = t => Before(row, w)
<1> DEFINE c == Work(t)
           w == Wanted(t, c)
<1>1. /\ t \in Txs /\ InCall(t) /\ ~ AlreadyDone(t) /\ ~ Refused(t) /\ Missing(t, This(t)) # {}
      /\ mine[t] \in Copies /\ next[t] \in {1, 2} /\ Stage(t)
  BY DEF Wants, TxInv, Shapes
<1>2. state[t] = "running" /\ next[t] = 1 /\ This(t) = c /\ c \in Call /\ KnowsAccounts(t, c)
  BY <1>1, GoesOn
<1>3. InOrder(t)
  BY <1>1, <1>2 DEF Stage
<1>4. w \in Needs(t, c) /\ owner[w] # t /\ Needs(t, c) \subseteq Rows
  BY <1>1, <1>2, WantedIs, NeedsRows
<1>5. Lists(LockOrder(t, c), Needs(t, c))
  BY <1>2, LockOrderLists
<1> HIDE DEF w
<1>6. ASSUME NEW row \in Rows, owner[row] = t PROVE Before(row, w)
  <2>1. row \in Needs(t, c) /\ row # w
    BY <1>3, <1>4, <1>6 DEF InOrder
  <2>2. ~ Before(w, row)
    BY <1>3, <1>4, <1>6, <2>1 DEF InOrder
  <2> DEFINE s == LockOrder(t, c)
  <2> HIDE DEF s, c
  <2>3. PICK i \in DOMAIN s : s[i] = row
    BY <1>5, <2>1 DEF Lists, s
  <2>4. PICK k \in DOMAIN s : s[k] = w
    BY <1>4, <1>5 DEF Lists, s
  <2>5. i \in Int /\ k \in Int
    BY <1>5 DEF Lists, s
  <2>6. i < k
    <3>1. ~ (k < i)
      BY <1>5, <2>2, <2>3, <2>4 DEF Lists, s
    <3>2. i # k
      BY <2>1, <2>3, <2>4
    <3> QED BY <2>5, <3>1, <3>2
  <2> QED BY <1>5, <2>3, <2>4, <2>6 DEF Lists, s
<1> QED BY <1>1, <1>2, <1>4, <1>6 DEF w

\* A set of numbered things that leads from each to a greater one is empty.
LEMMA NoAscent ==
  ASSUME NEW S, IsFiniteSet(S), NEW rank, \A a \in S : rank[a] \in Nat,
         \A a \in S : \E b \in S : rank[a] < rank[b]
  PROVE  S = {}
<1> SUFFICES ASSUME S # {} PROVE FALSE
  OBVIOUS
<1> DEFINE n == Cardinality(S)
           Upto(a) == {b \in S : rank[b] <= rank[a]}
           Sizes == {Cardinality(Upto(a)) : a \in S}
<1>1. n \in Nat
  BY FS_CardinalityType
<1>2. \A a \in S : /\ IsFiniteSet(Upto(a)) /\ Cardinality(Upto(a)) \in 1 .. n
  <2> SUFFICES ASSUME NEW a \in S PROVE IsFiniteSet(Upto(a)) /\ Cardinality(Upto(a)) \in 1 .. n
    OBVIOUS
  <2>1. Upto(a) \in SUBSET S /\ a \in Upto(a)
    OBVIOUS
  <2>2. IsFiniteSet(Upto(a)) /\ Cardinality(Upto(a)) <= n /\ Cardinality(Upto(a)) \in Nat
    BY <2>1, FS_Subset, FS_CardinalityType
  <2>3. Cardinality(Upto(a)) # 0
    BY <2>1, <2>2, FS_EmptySet
  <2> QED BY <1>1, <2>2, <2>3
<1>3. Sizes \in SUBSET (1 .. n) /\ Sizes # {}
  BY <1>2
<1>4. PICK m \in Sizes : \A k \in Sizes : k <= m
  <2> HIDE DEF Sizes, n
  <2> QED BY <1>1, <1>3, GreatestNumber
<1>5. PICK a \in S : Cardinality(Upto(a)) = m
  BY <1>4
<1>6. PICK b \in S : rank[a] < rank[b]
  OBVIOUS
<1>7. Upto(a) \in SUBSET Upto(b) /\ b \in Upto(b) /\ b \notin Upto(a)
  BY <1>6
<1>8. IsFiniteSet(Upto(b)) /\ Cardinality(Upto(b)) \in 1 .. n /\ Cardinality(Upto(a)) \in 1 .. n
  BY <1>2
<1>9. Cardinality(Upto(a)) <= Cardinality(Upto(b)) /\ Cardinality(Upto(a)) # Cardinality(Upto(b))
  <2>1. Upto(a) # Upto(b)
    BY <1>7
  <2> HIDE DEF Upto
  <2> QED BY <1>7, <1>8, <2>1, FS_Subset
<1>10. Cardinality(Upto(b)) \in Sizes
  OBVIOUS
<1>11. Cardinality(Upto(b)) <= Cardinality(Upto(a))
  BY <1>4, <1>5, <1>10
<1> HIDE DEF Upto
<1> QED BY <1>1, <1>8, <1>9, <1>11

\* Calls whose rows are locked by calls of the same kind never make a circle.
LEMMA NoCircleOfCalls ==
  ASSUME OneCallEach, TxInv, NEW S \in SUBSET Txs, S # {},
         \A t \in S : Wants(t) /\ owner[Wanted(t, This(t))] \in S
  PROVE  FALSE
<1> DEFINE w(t) == Wanted(t, This(t))
<1>1. \A t \in S : w(t) \in Rows /\ \A row \in Rows : owner[row] = t => Before(row, w(t))
  BY WaitsAhead
<1>0. \A t \in S : owner[w(t)] \in S /\ owner[w(t)] \in Txs
  OBVIOUS
<1> HIDE DEF w
<1>2. \A t \in S : owner[w(t)] \in S /\ Before(w(t), w(owner[w(t)]))
  BY <1>0, <1>1
<1>3. \A t \in S : w(t)[1] \in {"hold", "journal", "balance"}
  BY <1>1, <1>2, RowsAre DEF Before, Kind
<1> DEFINE Balanced == {a \in Accounts : \E t \in S : w(t) = <<"balance", a>>}
           Held == {h \in HoldIds : \E t \in S : w(t) = <<"hold", h>>}
<1>4. Balanced = {}
  <2>1. \A a \in Balanced : \E b \in Balanced : AccountId[a] < AccountId[b]
    <3> SUFFICES ASSUME NEW a \in Accounts, NEW t \in S, w(t) = <<"balance", a>>
                 PROVE  \E b \in Balanced : AccountId[a] < AccountId[b]
      OBVIOUS
    <3> DEFINE q == w(owner[w(t)])
    <3>1. q \in Rows /\ q[1] \in {"hold", "journal", "balance"} /\ Before(<<"balance", a>>, q)
      BY <1>1, <1>2, <1>3
    <3>2. q[1] = "balance" /\ AccountId[a] < AccountId[q[2]]
      BY <3>1 DEF Before, Kind
    <3>3. q[2] \in Accounts /\ q = <<"balance", q[2]>>
      BY <3>1, <3>2, RowsAre DEF Rows
    <3> QED BY <1>2, <3>2, <3>3
  <2>2. IsFiniteSet(Balanced)
    BY LedgerAssumption, FS_Subset
  <2>3. \A a \in Balanced : AccountId[a] \in Nat
    BY TxAssumption
  <2> HIDE DEF Balanced
  <2> QED BY <2>1, <2>2, <2>3, NoAscent
<1>5. \A t \in S : w(t)[1] # "balance"
  BY <1>1, <1>4, RowsAre DEF Rows
<1>6. \A t \in S : w(t)[1] = "hold"
  <2> SUFFICES ASSUME NEW t \in S, w(t)[1] = "journal" PROVE FALSE
    BY <1>3, <1>5
  <2> QED BY <1>2, <1>3, <1>5 DEF Before, Kind
<1>7. Held = {}
  <2>1. \A a \in Held : \E b \in Held : HoldOrder[a] < HoldOrder[b]
    <3> SUFFICES ASSUME NEW a \in HoldIds, NEW t \in S, w(t) = <<"hold", a>>
                 PROVE  \E b \in Held : HoldOrder[a] < HoldOrder[b]
      OBVIOUS
    <3> DEFINE q == w(owner[w(t)])
    <3>1. q \in Rows /\ q[1] = "hold" /\ Before(<<"hold", a>>, q)
      BY <1>1, <1>2, <1>6
    <3>2. HoldOrder[a] < HoldOrder[q[2]]
      BY <3>1 DEF Before, Kind
    <3>3. q[2] \in HoldIds /\ q = <<"hold", q[2]>>
      BY <3>1, RowsAre DEF Rows
    <3> QED BY <1>2, <3>2, <3>3
  <2>2. IsFiniteSet(Held)
    BY LedgerAssumption, FS_Subset
  <2>3. \A a \in Held : HoldOrder[a] \in Nat
    BY TxAssumption
  <2> HIDE DEF Held
  <2> QED BY <2>1, <2>2, <2>3, NoAscent
<1>8. \A t \in S : w(t) = <<"hold", w(t)[2]>> /\ w(t)[2] \in HoldIds
  BY <1>1, <1>6, RowsAre DEF Rows
<1> QED BY <1>7, <1>8

\* In a circle nobody in it waits for a reference, everyone in it has a row, so
\* nobody has yet to refer, and everyone wants the row of another.
LEMMA CirclesTurnOnReferences ==
  ASSUME OneCallEach, TxInv, RefersFirst
  PROVE  OnlyReferencesDeadlock
<1> USE TxAssumption
<1> SUFFICES ASSUME NEW S \in Circles, \A t \in S : ReferredBy(t) \cap S = {}
             PROVE  FALSE
  BY DEF OnlyReferencesDeadlock
<1>1. /\ S \in SUBSET Txs /\ S # {}
      /\ \A t \in S : \E u \in S : u \in Blockers(t) /\ u \notin ReferredBy(t)
  BY DEF Circles, Waiting
<1> DEFINE going == {t \in S : ~ Referring(t)}
<1>2. ASSUME NEW t \in S
      PROVE  \E u \in going : Referring(t) \/ (Wants(t) /\ owner[Wanted(t, This(t))] = u)
  <2>1. PICK u \in S : u \in Blockers(t) /\ u \notin ReferredBy(t)
    BY <1>1
  <2>2. CASE state[t] = "running" /\ Referring(t)
    <3>1. owner[<<"party", Refers[t]>>] = u /\ <<"party", Refers[t]>> \in Rows
      BY <1>1, <2>1, <2>2 DEF Blockers, Referring, Rows
    <3>2. u \in going
      BY <1>1, <3>1 DEF RefersFirst
    <3> QED BY <2>2, <3>2
  <2>3. CASE ~ (state[t] = "running" /\ Referring(t))
    <3>1. Wants(t) /\ owner[Wanted(t, This(t))] = u
      BY <2>1, <2>3 DEF Blockers, ReferredBy
    <3>2. Wanted(t, This(t)) \in Rows
      BY <1>1, <3>1, WaitsAhead
    <3>3. u \in going
      BY <1>1, <3>1, <3>2 DEF RefersFirst
    <3> QED BY <3>1, <3>3
  <2> QED BY <2>2, <2>3
<1>3. going # {} /\ going \in SUBSET Txs
  BY <1>1, <1>2
<1>4. \A t \in going : Wants(t) /\ owner[Wanted(t, This(t))] \in going
  BY <1>2
<1> HIDE DEF going
<1> QED BY <1>3, <1>4, NoCircleOfCalls

\* "Every path agrees and none can deadlock against another" (ledger_hold.go)
\* is true of the rows that the calls lock: hold rows, then the journal's id,
\* then balances by account id, then the customer's row.  Every deadlock has a
\* transaction in it that wants to lock a customer (LockCustomer) whom another
\* one referred to before it locked anything (CreateWithdrawal, CreateOrder).
THEOREM DeadlocksNeedReferences ==
  ASSUME OneCallEach PROVE WalletSpec => []OnlyReferencesDeadlock
<1>1. WalletInit => RefersFirst
  BY TxAssumption DEF WalletInit, TxInit, RefersFirst
<1>2. TxInv /\ RefersFirst /\ [WalletNext]_walletVars => RefersFirst'
  BY WalletSteps, RefersFirstInv
<1>3. TxInv /\ RefersFirst => OnlyReferencesDeadlock
  BY CirclesTurnOnReferences
<1> QED BY <1>1, <1>2, <1>3, WalletInvariant, PTL DEF WalletSpec

NobodyRefers == sharing = {}

\* Where no transaction refers to a customer first, there is no deadlock.
THEOREM LocksNeverDeadlock ==
  ASSUME OneCallEach, \A t \in Txs : Refers[t] = NoParty
  PROVE  WalletSpec => []NoDeadlock
<1>1. WalletInit => NobodyRefers
  BY DEF WalletInit, TxInit, NobodyRefers
<1>2. NobodyRefers /\ [WalletNext]_walletVars => NobodyRefers'
  <2>1. NobodyRefers /\ [TxNext]_allVars => NobodyRefers'
    BY DEF NobodyRefers, TxNext, Begin, Refer, Referring, Acquire, Execute, Skip, Commit, Abort,
           Release, Elapse, allVars, txVars
  <2> QED BY <2>1, WalletSteps
<1>3. NobodyRefers /\ OnlyReferencesDeadlock => NoDeadlock
  BY DEF NobodyRefers, OnlyReferencesDeadlock, NoDeadlock, ReferredBy, Sharers
<1>4. WalletSpec => []OnlyReferencesDeadlock
  BY DeadlocksNeedReferences
<1>5. WalletSpec => []NobodyRefers
  BY <1>1, <1>2, PTL DEF WalletSpec
<1> QED BY <1>3, <1>4, <1>5, PTL

-----------------------------------------------------------------------------
(* An expiry takes a wallet nobody used                                    *)

\* An expiry that has written its journal has the wallet's row, and found it
\* as the sweep did.
Idle(t) ==
    Rule[t].kind = "expiry" /\ mine[t].journals # {} =>
        LET w == Rule[t].wallet IN
        /\ owner[<<"balance", w>>] = t
        /\ JournalsOn(w) = Rule[t].seen
        /\ mine[t].raw[w] = 0 /\ mine[t].held[w] = 0

LEMMA ExpiryIs ==
  ASSUME OneCallEach, NEW t \in Txs, Rule[t].kind = "expiry"
  PROVE  /\ Rule[t].wallet \in Accounts /\ <<"balance", Rule[t].wallet>> \in Rows
         /\ Work(t) \in Call /\ Work(t).op = "post" /\ HoldsOf(Work(t)) = {}
         /\ \A m : Rule[t].wallet \in Balances(m, Work(t))
         /\ \A u \in Txs : Work(u).op \in {"post", "capture"} /\ Work(u).journal = Work(t).journal
                => Rule[u] = Rule[t]
<1>1. Rule[t] # NoRule
  BY DEF NoRule
<1>2. Rule[t].wallet \in Accounts
  BY <1>1, WalletAssumption
<1>3. Work(t) \in Call /\ Work(t).op = "post"
  BY <1>1, WalletAssumption, WorkIs DEF Work
<1>4. \A u \in Txs : Work(u) \in {Calls[u][i] : i \in DOMAIN Calls[u]}
  <2> SUFFICES ASSUME NEW u \in Txs PROVE Work(u) \in {Calls[u][i] : i \in DOMAIN Calls[u]}
    OBVIOUS
  <2>1. Calls[u] \in Seq(Call) /\ Len(Calls[u]) = 1
    BY TxAssumption DEF OneCallEach
  <2>2. 1 \in DOMAIN Calls[u]
    BY <2>1
  <2> QED BY <2>2 DEF Work
<1>5. \A u \in Txs : Work(u).op \in {"post", "capture"} /\ Work(u).journal = Work(t).journal
          => Rule[u] = Rule[t] /\ \E l \in Work(u).legs : l.account = Rule[t].wallet
  BY <1>4, WalletAssumption DEF Work
<1>6. HoldsOf(Work(t)) = {}
  BY <1>3, CallIs
<1>7. \A m : Rule[t].wallet \in Balances(m, Work(t))
  BY <1>3, <1>5 DEF Balances
<1> QED BY <1>2, <1>3, <1>5, <1>6, <1>7 DEF Rows

\* A commit adds rows only to accounts its transaction has.
LEMMA CommitPosts ==
  ASSUME OneCallEach, TxInv, NEW u \in Txs, Commit(u), NEW a \in Accounts, owner[<<"balance", a>>] # u
  PROVE  On(postings', a) = On(postings, a)
<1>1. Shapes /\ TypeOK /\ Stage(u) /\ next[u] \in {1, 2} /\ state[u] = "running" /\ next[u] > Len(Calls[u])
      /\ postings' = postings \cup mine[u].postings
  BY DEF TxInv, IInv, Commit, Shapes
<1>2. next[u] = 2 /\ Work(u) \in Call
  <2>1. Len(Calls[u]) = 1
    BY DEF OneCallEach
  <2> QED BY <1>1, <2>1, WorkIs
<1>3. Fresh(u) \/ Done(u)
  BY <1>1, <1>2 DEF Stage
<1>4. CASE Fresh(u)
  BY <1>1, <1>4 DEF Fresh, Reads, Committed
<1>5. CASE Done(u)
  <2> DEFINE c == Work(u)
             m == Committed
  <2>1. Locked(u, m, c) /\ mine[u].postings = Written(m, c).postings
    BY <1>5 DEF Done, Reads
  <2>2. m \in Copies /\ m.postings = {}
    BY <1>1, CommittedIs DEF Committed
  <2> HIDE DEF m, c
  <2>3. Written(m, c).postings = m.postings \cup NewRows(c)
    <3>1. c \in Call
      BY <1>2 DEF c
    <3>2. Written(m, c)
            = [journals |-> m.journals \cup Inserts(c), postings |-> m.postings \cup NewRows(c),
               raw |-> [a1 \in Accounts |-> m.raw[a1] + Signed(On(NewRows(c), a1))],
               held |-> [a1 \in Accounts |-> HeldAfter(m, c, a1)],
               holds |-> [h \in HoldIds |-> HoldAfter(m, c, h)]]
      BY <2>2, <3>1, WrittenIs
    <3> QED BY <3>2
  <2>4. mine[u].postings = NewRows(c)
    BY <2>1, <2>2, <2>3
  <2>5. \A p \in NewRows(c) : p[2].account # a
    <3> SUFFICES ASSUME NEW p \in NewRows(c), p[2].account = a PROVE FALSE
      OBVIOUS
    <3>1. c.op \in {"post", "capture"} /\ p[2] \in c.legs
      BY DEF NewRows, RowsOf
    <3>2. a \in Balances(m, c)
      BY <3>1 DEF Balances
    <3> QED BY <2>1, <3>2 DEF Locked
  <2> QED BY <1>1, <2>4, <2>5 DEF On
<1> QED BY <1>3, <1>4, <1>5

\* What others do leaves it idle.
LEMMA IdleStays ==
  ASSUME OneCallEach, NEW t \in Txs, Idle(t), mine'[t].journals = mine[t].journals,
         mine'[t].raw = mine[t].raw, mine'[t].held = mine[t].held,
         \A row \in Rows : owner[row] = t => owner'[row] = t,
         \A a \in Accounts : owner[<<"balance", a>>] = t => On(postings', a) = On(postings, a)
  PROVE  Idle(t)'
<1> DEFINE w == Rule[t].wallet
<1> SUFFICES ASSUME Rule[t].kind = "expiry", mine'[t].journals # {}
             PROVE  /\ owner'[<<"balance", w>>] = t /\ JournalsOn(w)' = Rule[t].seen
                    /\ mine'[t].raw[w] = 0 /\ mine'[t].held[w] = 0
  BY DEF Idle, JournalsOn, On
<1>1. w \in Accounts /\ <<"balance", w>> \in Rows
  BY ExpiryIs
<1>2. /\ owner[<<"balance", w>>] = t /\ JournalsOn(w) = Rule[t].seen
      /\ mine[t].raw[w] = 0 /\ mine[t].held[w] = 0
  BY DEF Idle
<1>3. JournalsOn(w)' = JournalsOn(w)
  BY <1>1, <1>2 DEF JournalsOn, On
<1> QED BY <1>1, <1>2, <1>3

LEMMA IdleExecutes ==
  ASSUME OneCallEach, TxInv, NEW t \in Txs, ExecuteChecked(t)
  PROVE  Idle(t)'
<1> DEFINE w == Rule[t].wallet
           c == Work(t)
           m == mine[t]
<1>1. Execute(t) /\ Passes(t)
  BY DEF ExecuteChecked
<1>2. /\ Shapes /\ m \in Copies /\ next[t] \in {1, 2} /\ owner' = owner /\ postings' = postings
      /\ InCall(t) /\ ~ AlreadyDone(t) /\ ~ Refused(t) /\ Missing(t, This(t)) = {}
      /\ mine' = [mine EXCEPT ![t] = Written(m, This(t))]
  BY <1>1 DEF TxInv, Execute, Shapes, vars
<1>3. This(t) = c /\ c \in Call
  BY <1>2, GoesOn
<1>4. Locked(t, m, c)
  BY <1>2, RunsAllowed
<1> SUFFICES ASSUME Rule[t].kind = "expiry"
             PROVE  /\ owner'[<<"balance", w>>] = t /\ JournalsOn(w)' = Rule[t].seen
                    /\ mine'[t].raw[w] = 0 /\ mine'[t].held[w] = 0
  BY DEF Idle, JournalsOn, On
<1>5. /\ w \in Accounts /\ c.op = "post" /\ HoldsOf(c) = {} /\ w \in Balances(m, c)
  BY ExpiryIs
<1>6. owner[<<"balance", w>>] = t
  BY <1>4, <1>5 DEF Locked
<1>7. JournalsOn(w) = Rule[t].seen /\ NaturalBalance(t, w) = 0 /\ m.held[w] = 0
  BY <1>1 DEF Passes, StillIdle
<1>8. mine'[t] = Written(m, c)
  BY <1>2, <1>3 DEF Shapes
<1> HIDE DEF m, c
<1>9. /\ Written(m, c).raw[w] = m.raw[w] + Signed(On(NewRows(c), w))
      /\ Written(m, c).held[w] = HeldAfter(m, c, w)
  BY <1>2, <1>3, <1>5, WrittenIs
<1>10. HeldAfter(m, c, w) = 0
  <2>1. Frees(m, c)[w] = 0
    BY <1>5, FreesNothing
  <2> QED BY <1>5, <1>7, <2>1 DEF HeldAfter
<1>11. m.raw[w] + Signed(On(NewRows(c), w)) = 0
  <2>1. NewRows(c) = RowsOf(c) /\ c.journal \in JournalIds /\ c.legs \in Entries
    BY <1>3, <1>5, CallIs DEF NewRows
  <2>2. Signed(On(RowsOf(c), w)) \in Int
    <3>1. RowsOf(c) \in SUBSET PostingRows /\ IsFiniteSet(RowsOf(c))
      BY <2>1, SubmittedRows DEF RowsOf
    <3>2. On(RowsOf(c), w) \in SUBSET RowsOf(c)
      BY DEF On
    <3>3. On(RowsOf(c), w) \in SUBSET PostingRows /\ IsFiniteSet(On(RowsOf(c), w))
      BY <3>1, <3>2, FS_Subset
    <3> QED BY <3>3, SignedType
  <2>3. m.raw[w] \in Int
    BY <1>2, <1>5 DEF Copies
  <2>4. - m.raw[w] - Signed(On(RowsOf(c), w)) = 0
    BY <1>3, <1>6, <1>7 DEF NaturalBalance, m
  <2> QED BY <2>1, <2>2, <2>3, <2>4
<1>12. JournalsOn(w)' = JournalsOn(w)
  BY <1>2 DEF JournalsOn, On
<1> QED BY <1>2, <1>6, <1>7, <1>8, <1>9, <1>10, <1>11, <1>12

LEMMA IdleNext ==
  ASSUME OneCallEach, TxInv, \A t \in Txs : Idle(t), [WalletNext]_walletVars
  PROVE  \A t \in Txs : Idle(t)'
<1> SUFFICES ASSUME NEW t \in Txs PROVE Idle(t)'
  OBVIOUS
<1>1. Shapes /\ Idle(t) /\ Stage(t) /\ Free \notin Txs
  BY TxAssumption DEF TxInv
<1>2. ASSUME mine'[t] = mine[t], \A row \in Rows : owner[row] = t => owner'[row] = t, postings' = postings
      PROVE  Idle(t)'
  BY <1>1, <1>2, IdleStays
<1>3. ASSUME NEW u \in Txs, BeginOperation(u) \/ Refer(u) \/ Skip(u) PROVE Idle(t)'
  BY <1>2, <1>3 DEF BeginOperation, Begin, Refer, Skip, vars
<1>4. ASSUME NEW u \in Txs, ExecuteChecked(u) PROVE Idle(t)'
  <2>1. CASE u = t
    BY <1>4, <2>1, IdleExecutes
  <2>2. CASE u # t
    BY <1>1, <1>2, <1>4, <2>2 DEF ExecuteChecked, Execute, vars, Shapes
  <2> QED BY <2>1, <2>2
<1>5. ASSUME NEW u \in Txs, Acquire(u) PROVE Idle(t)'
  <2> DEFINE row == Wanted(u, This(u))
  <2>1. /\ owner[row] = Free /\ owner' = [owner EXCEPT ![row] = u] /\ postings' = postings
        /\ InCall(u) /\ ~ AlreadyDone(u) /\ ~ Refused(u) /\ Missing(u, This(u)) # {} /\ Takes(u, row)
    BY <1>5 DEF Acquire, Takes, vars
  <2>2. mine[u] \in Copies /\ next[u] \in {1, 2}
    BY <1>1 DEF Shapes
  <2>3. next[u] = 1 /\ state[u] = "running" /\ This(u) = Work(u) /\ Work(u) \in Call /\ KnowsAccounts(u, Work(u))
    BY <2>1, <2>2, GoesOn
  <2>4. row \in Rows
    BY <2>1, <2>3, WantedIs, NeedsRows
  <2>5. /\ \A v \in Txs \ {u} : mine'[v] = mine[v]
        /\ mine'[u].journals = mine[u].journals
    BY <1>1, <2>1, <2>4, TakesReads DEF Shapes, TxInv, IInv
  <2> HIDE DEF row
  <2>6. CASE u = t
    <3>1. mine[t].journals = {}
      BY <1>1, <2>3, <2>6 DEF Stage, Fresh, Reads, Committed
    <3> QED BY <2>5, <2>6, <3>1 DEF Idle, JournalsOn, On
  <2>7. CASE u # t
    <3>1. \A r \in Rows : owner[r] = t => owner'[r] = t
      BY <1>1, <2>1, <2>4 DEF Shapes
    <3> QED BY <1>2, <2>1, <2>5, <2>7, <3>1
  <2> QED BY <2>6, <2>7
<1>6. ASSUME NEW u \in Txs, Release(u), postings' = postings \/ Commit(u) PROVE Idle(t)'
  <2>1. /\ mine' = [mine EXCEPT ![u] = Blank]
        /\ owner' = [row \in Rows |-> IF owner[row] = u THEN Free ELSE owner[row]]
    BY <1>6 DEF Release
  <2>2. CASE u = t
    <3>1. mine'[t].journals = {}
      BY <1>1, <2>1, <2>2 DEF Shapes, Blank
    <3> QED BY <3>1 DEF Idle, JournalsOn, On
  <2>3. CASE u # t
    <3>1. mine'[t] = mine[t] /\ \A row \in Rows : owner[row] = t => owner'[row] = t
      BY <1>1, <2>1, <2>3 DEF Shapes
    <3>2. \A a \in Accounts : owner[<<"balance", a>>] = t => On(postings', a) = On(postings, a)
      BY <1>6, <2>3, CommitPosts
    <3> QED BY <1>1, <3>1, <3>2, IdleStays
  <2> QED BY <2>2, <2>3
<1>7. ASSUME NEW h \in HoldIds, Elapse(h) PROVE Idle(t)'
  <2>1. /\ postings' = postings /\ owner' = owner
        /\ mine' = [u \in Txs |-> IF owner[<<"hold", h>>] = u
                                  THEN [mine[u] EXCEPT !.holds[h].due = TRUE] ELSE mine[u]]
    BY <1>7 DEF Elapse, FallDue
  <2>2. /\ mine'[t].journals = mine[t].journals /\ mine'[t].raw = mine[t].raw
        /\ mine'[t].held = mine[t].held
    <3>1. mine[t] \in Copies
      BY <1>1 DEF Shapes
    <3>2. mine'[t] = mine[t] \/ mine'[t] = [mine[t] EXCEPT !.holds[h].due = TRUE]
      BY <2>1
    <3> QED BY <3>1, <3>2 DEF Copies
  <2> QED BY <1>1, <2>1, <2>2, IdleStays
<1>8. CASE UNCHANGED allVars
  BY <1>2, <1>8 DEF allVars, vars, txVars
<1>9. CASE WalletNext
  <2>1. CASE \E u \in Txs : \/ BeginOperation(u) \/ ExecuteChecked(u) \/ CommitOperation(u)
                            \/ /\ Refer(u) \/ Acquire(u) \/ Skip(u) \/ Abort(u)
                               /\ UNCHANGED dayVars
    <3>1. PICK u \in Txs : \/ BeginOperation(u) \/ ExecuteChecked(u) \/ CommitOperation(u)
                           \/ Refer(u) \/ Acquire(u) \/ Skip(u) \/ Abort(u)
      BY <2>1
    <3>2. CASE CommitOperation(u)
      BY <1>6, <3>2 DEF CommitOperation, Commit
    <3>3. CASE Abort(u)
      BY <1>6, <3>3 DEF Abort, vars
    <3> QED BY <1>3, <1>4, <1>5, <3>1, <3>2, <3>3
  <2>2. CASE \E h \in HoldIds : Elapse(h) /\ UNCHANGED dayVars
    BY <1>7, <2>2
  <2>3. CASE Midnight
    BY <1>8, <2>3 DEF Midnight
  <2> QED BY <1>9, <2>1, <2>2, <2>3 DEF WalletNext
<1> QED BY <1>8, <1>9 DEF walletVars

LEMMA IdleStep ==
  ASSUME OneCallEach, TxInv, \A t \in Txs : Idle(t), [WalletNext]_walletVars
  PROVE  ExpiryTakesIdleStep
<1> SUFFICES ASSUME NEW t \in Txs, Rule[t].kind = "expiry", Work(t).journal \in journals' \ journals
             PROVE  LET w == Rule[t].wallet IN
                    JournalsOn(w) = Rule[t].seen /\ raw'[w] = 0 /\ held'[w] = 0
  BY DEF ExpiryTakesIdleStep, Work
<1>1. [TxNext]_allVars
  BY WalletSteps
<1>2. ~ UNCHANGED vars
  BY DEF vars
<1>3. PICK u \in Txs : Commit(u)
  BY <1>1, <1>2 DEF TxNext, Begin, Refer, Acquire, Execute, Skip, Abort, Elapse, FallDue, allVars
<1> DEFINE c == Work(u)
<1>4. /\ Stage(u) /\ Idle(u) /\ TypeOK /\ next[u] \in {1, 2} /\ next[u] > Len(Calls[u]) /\ state[u] = "running"
      /\ journals' = journals \cup mine[u].journals
      /\ raw' = [a \in Accounts |-> IF owner[<<"balance", a>>] = u THEN mine[u].raw[a] ELSE raw[a]]
      /\ held' = [a \in Accounts |-> IF owner[<<"balance", a>>] = u THEN mine[u].held[a] ELSE held[a]]
  BY <1>3 DEF TxInv, IInv, Shapes, Commit
<1>5. next[u] = 2 /\ c \in Call
  <2>1. Len(Calls[u]) = 1
    BY DEF OneCallEach
  <2> QED BY <1>4, <2>1, WorkIs
<1>6. Work(t).journal \in mine[u].journals
  BY <1>4
<1>7. Done(u)
  BY <1>4, <1>5, <1>6 DEF Stage, Fresh, Reads, Committed
<1>8. Work(t).journal \in Inserts(c)
  <2> DEFINE m == Committed
  <2>1. mine[u].journals = Written(m, c).journals
    BY <1>7 DEF Done, Reads
  <2>2. m \in Copies /\ m.journals = {}
    BY <1>4, CommittedIs DEF Committed
  <2> HIDE DEF m, c
  <2>3. Written(m, c)
          = [journals |-> m.journals \cup Inserts(c), postings |-> m.postings \cup NewRows(c),
             raw |-> [a \in Accounts |-> m.raw[a] + Signed(On(NewRows(c), a))],
             held |-> [a \in Accounts |-> HeldAfter(m, c, a)],
             holds |-> [h \in HoldIds |-> HoldAfter(m, c, h)]]
    BY <1>5, <2>2, WrittenIs
  <2> QED BY <1>6, <2>1, <2>2, <2>3
<1>9. Rule[u] = Rule[t]
  <2>1. c.op \in {"post", "capture"} /\ c.journal = Work(t).journal
    BY <1>8 DEF Inserts
  <2> QED BY <2>1, ExpiryIs
<1>10. Rule[t].wallet \in Accounts
  BY ExpiryIs
<1> QED BY <1>4, <1>6, <1>9, <1>10 DEF Idle

\* Expire lapses the whole of a wallet nobody used since the sweep saw it:
\* its check ran under the row of the wallet's balance, which nobody else can
\* have before it commits.
THEOREM ExpiriesTakeIdle == ASSUME OneCallEach PROVE WalletSpec => ExpiryTakesIdle
<1> DEFINE Inv == TxInv /\ \A t \in Txs : Idle(t)
<1>1. WalletInit => Inv
  <2> SUFFICES ASSUME WalletInit PROVE Inv
    OBVIOUS
  <2>1. TxInv
    BY TxInitInv DEF WalletInit
  <2>2. \A t \in Txs : mine[t].journals = {}
    BY DEF WalletInit, TxInit, Blank
  <2> QED BY <2>1, <2>2 DEF Idle
<1>2. Inv /\ [WalletNext]_walletVars => Inv'
  <2> SUFFICES ASSUME Inv, [WalletNext]_walletVars PROVE Inv'
    OBVIOUS
  <2>1. TxInv'
    BY WalletSteps, TxNextInv
  <2>2. \A t \in Txs : Idle(t)'
    BY IdleNext
  <2> QED BY <2>1, <2>2
<1>3. Inv /\ [WalletNext]_walletVars => [ExpiryTakesIdleStep]_walletVars
  BY IdleStep
<1> QED BY <1>1, <1>2, <1>3, PTL DEF WalletSpec, ExpiryTakesIdle

-----------------------------------------------------------------------------
(* Limits                                                                  *)

\* The journals that may credit w without a check of its limits: money that
\* comes back (returnFunds, refunds of orders).
Returning(w) ==
    {Work(t).journal : t \in {u \in Txs : /\ Work(u).op \in {"post", "capture"}
                                          /\ Credited(Work(u), w) /\ ~ Checks(u, w)}}

ReturnedRows(w) == {p \in Credits(On(postings, w)) : p[1] \in Returning(w)}
Returned(w) == Moved(ReturnedRows(w))

\* What the limits are about, as the tables have it, and as t's check saw it:
\* with what t would commit.
RowsIn(t) == postings \cup mine[t].postings
RawIn(t, w) == IF owner[<<"balance", w>>] = t THEN mine[t].raw[w] ELSE raw[w]

LoadedNow == [w \in Wallets |-> Loaded(postings, w, dated)]
MadeNow   == [w \in Wallets |-> Withdrawn(postings, w, dated)]
LoadedIn(t) == [w \in Wallets |-> Loaded(RowsIn(t), w, Created(t))]
MadeIn(t)   == [w \in Wallets |-> Withdrawn(RowsIn(t), w, Created(t))]

\* A balance, less what was returned to it.
PaidIn    == [w \in Wallets |-> - raw[w] - Returned(w)]
PaidInBy(t) == [w \in Wallets |-> - RawIn(t, w) - Returned(w)]

\* What checkLimitsAfterPosting and checkDailyLimits found, with the row of
\* the customer locked.
Fits(t) ==
    LET w == Rule[t].wallet
        c == OwnerOf[w]
    IN  /\ owner[<<"party", c>>] = t
        /\ Rule[t].kind = "limits" =>
              /\ PaidInBy(t)[w] <= MaxBalance[w]
              /\ SumOver(PaidInBy(t), c) <= MaxCustomerBalance
              /\ Rule[t].loads => /\ Moved(LoadedIn(t)[w]) <= DailyLoadLimit[w]
                                  /\ Moved(AllOf(LoadedIn(t), c)) <= MaxCustomerDailyLoad
        /\ Rule[t].kind = "withdrawal" =>
              /\ Moved(MadeIn(t)[w]) <= DailyWithdrawalLimit[w]
              /\ Moved(AllOf(MadeIn(t), c)) <= MaxCustomerDailyWithdrawal
              /\ Cardinality(AllOf(MadeIn(t), c)) <= MaxCustomerDailyWithdrawals

\* A transaction that has written its journal fits, to its commit.
Checked(t) == Rule[t].kind \in {"limits", "withdrawal"} /\ mine[t].journals # {} => Fits(t)

\* No wallet and no customer holds more than the limits allow beyond what was
\* returned to them.
ExcessIsReturned ==
    /\ \A w \in Wallets : - raw[w] <= MaxBalance[w] + Returned(w)
    /\ \A c \in Parties : SumOver(PaidIn, c) <= MaxCustomerBalance

LEMMA RulesAre ==
  ASSUME OneCallEach, NEW t \in Txs
  PROVE  /\ Rule[t].kind \in {"limits", "withdrawal"} =>
               /\ Rule[t].wallet \in Wallets /\ OwnerOf[Rule[t].wallet] \in Parties
               /\ Work(t).op = "post" /\ Work(t).party = OwnerOf[Rule[t].wallet]
         /\ Work(t).op \in {"post", "capture"} => \A w \in Wallets :
               /\ Work(t).journal \in Loading /\ Credited(Work(t), w) => Checks(t, w) /\ Rule[t].loads
               /\ Work(t).journal \in Withdrawing /\ Debited(Work(t), w) =>
                     Rule[t].kind = "withdrawal" /\ Rule[t].wallet = w
<1>1. Work(t) \in {Calls[t][i] : i \in DOMAIN Calls[t]}
  <2>1. Calls[t] \in Seq(Call) /\ Len(Calls[t]) = 1
    BY TxAssumption DEF OneCallEach
  <2>2. 1 \in DOMAIN Calls[t]
    BY <2>1
  <2> QED BY <2>2 DEF Work
<1>2. ASSUME Rule[t].kind \in {"limits", "withdrawal"}
      PROVE  /\ Rule[t].wallet \in Wallets /\ OwnerOf[Rule[t].wallet] \in Parties
             /\ Work(t).op = "post" /\ Work(t).party = OwnerOf[Rule[t].wallet]
  <2>1. Rule[t] # NoRule
    BY <1>2 DEF NoRule
  <2>2. Rule[t].wallet \in Wallets
    BY <1>2, <2>1, WalletAssumption
  <2> QED BY <1>2, <2>1, <2>2, WalletAssumption DEF Work
<1>3. Work(t).op \in {"post", "capture"} => \A w \in Wallets :
               /\ Work(t).journal \in Loading /\ Credited(Work(t), w) => Checks(t, w) /\ Rule[t].loads
               /\ Work(t).journal \in Withdrawing /\ Debited(Work(t), w) =>
                     Rule[t].kind = "withdrawal" /\ Rule[t].wallet = w
  BY <1>1, WalletAssumption
<1> QED BY <1>2, <1>3

\* What a transaction has written by the end of its call: the rows of a new
\* journal, on balances it has; or no journal.
LEMMA WritesAre ==
  ASSUME OneCallEach, TxInv, NEW t \in Txs, next[t] = 2, state[t] = "running"
  PROVE  \/ /\ mine[t].journals = {} /\ mine[t].postings = {}
            /\ \A a \in Accounts : owner[<<"balance", a>>] = t => mine[t].raw[a] = raw[a]
         \/ LET c == Work(t) IN
            /\ c.op \in {"post", "capture"} /\ c.journal \in JournalIds \ journals /\ c.legs \in Entries
            /\ mine[t].journals = {c.journal} /\ mine[t].postings = RowsOf(c)
            /\ owner[<<"journal", c.journal>>] = t
            /\ \A l \in c.legs : owner[<<"balance", l.account>>] = t
            /\ \A a \in Accounts : owner[<<"balance", a>>] = t =>
                  mine[t].raw[a] = raw[a] + Signed(On(RowsOf(c), a))
<1> DEFINE c == Work(t)
           m == Committed
<1>1. Shapes /\ TypeOK /\ Stage(t) /\ c \in Call /\ raw \in [Accounts -> Int]
  BY WorkIs DEF TxInv, IInv, TypeOK
<1>2. Fresh(t) \/ Done(t)
  BY <1>1 DEF Stage
<1>3. CASE Fresh(t)
  BY <1>3 DEF Fresh, Reads, Committed
<1>4. CASE Done(t)
  <2>1. Allowed(m, journals, c) /\ Locked(t, m, c) /\ Reads(t, mine[t], Written(m, c))
    BY <1>4 DEF Done
  <2>2. m \in Copies /\ m.raw = raw /\ m.journals = {} /\ m.postings = {}
    BY <1>1, CommittedIs DEF Committed
  <2> HIDE DEF m, c
  <2>3. Written(m, c)
          = [journals |-> m.journals \cup Inserts(c), postings |-> m.postings \cup NewRows(c),
             raw |-> [a \in Accounts |-> m.raw[a] + Signed(On(NewRows(c), a))],
             held |-> [a \in Accounts |-> HeldAfter(m, c, a)],
             holds |-> [h \in HoldIds |-> HoldAfter(m, c, h)]]
    BY <1>1, <2>2, WrittenIs
  <2>4. /\ mine[t].journals = Inserts(c) /\ mine[t].postings = NewRows(c)
        /\ \A a \in Accounts : owner[<<"balance", a>>] = t =>
              mine[t].raw[a] = raw[a] + Signed(On(NewRows(c), a))
    BY <2>1, <2>2, <2>3 DEF Reads
  <2>5. CASE c.op \in {"post", "capture"}
    <3>1. Inserts(c) = {c.journal} /\ NewRows(c) = RowsOf(c) /\ c.journal \in JournalIds /\ c.legs \in Entries
      BY <1>1, <2>5, CallIs DEF Inserts, NewRows
    <3>2. c.journal \notin journals
      BY <2>1, <2>5 DEF Allowed
    <3>3. \A l \in c.legs : l.account \in Balances(m, c)
      BY <2>5 DEF Balances
    <3>4. owner[<<"journal", c.journal>>] = t /\ \A l \in c.legs : owner[<<"balance", l.account>>] = t
      BY <2>1, <3>1, <3>3 DEF Locked
    <3> QED BY <2>4, <2>5, <3>1, <3>2, <3>4 DEF c
  <2>6. CASE c.op \notin {"post", "capture"}
    <3>1. Inserts(c) = {} /\ NewRows(c) = {}
      BY <2>6 DEF Inserts, NewRows
    <3>2. \A a : Signed(On({}, a)) = 0
      <4>1. \A a : On({}, a) = {}
        BY DEF On
      <4> QED BY <4>1, SignedEmpty
    <3> QED BY <1>1, <2>4, <3>1, <3>2
  <2> QED BY <2>5, <2>6
<1> QED BY <1>2, <1>3, <1>4

\* Days are numbered.
Dates == today \in Nat /\ began \in [Txs -> Nat] /\ dated \in [JournalIds -> Nat]

\* Who has written a journal is at the end of its call.
LEMMA WrittenStage ==
  ASSUME TxInv, NEW t \in Txs, mine[t].journals # {}
  PROVE  state[t] = "running" /\ next[t] = 2
BY DEF TxInv, Stage, Blank, Fresh, Reads, Committed

LEMMA RowsTyped ==
  ASSUME OneCallEach, TxInv
  PROVE  /\ postings \in SUBSET PostingRows /\ IsFiniteSet(postings)
         /\ \A p \in postings : p[1] \in journals /\ p[1] \in JournalIds
         /\ \A t \in Txs : mine[t].journals # {} =>
               /\ mine[t].postings \in SUBSET PostingRows /\ IsFiniteSet(mine[t].postings)
               /\ RowsIn(t) \in SUBSET PostingRows /\ IsFiniteSet(RowsIn(t))
<1>1. postings \in SUBSET PostingRows /\ IsFiniteSet(postings) /\ \A p \in postings : p[1] \in journals
  BY DEF TxInv, IInv, TypeOK, PostingsAreOwned, PostingRows
<1>2. \A p \in postings : p[1] \in JournalIds
  BY <1>1 DEF PostingRows
<1>3. ASSUME NEW t \in Txs, mine[t].journals # {}
      PROVE  mine[t].postings \in SUBSET PostingRows /\ IsFiniteSet(mine[t].postings)
  <2>1. LET c == Work(t) IN c.journal \in JournalIds /\ c.legs \in Entries /\ mine[t].postings = RowsOf(c)
    BY <1>3, WrittenStage, WritesAre
  <2> QED BY <2>1, SubmittedRows DEF RowsOf
<1>4. ASSUME NEW t \in Txs, mine[t].journals # {}
      PROVE  RowsIn(t) \in SUBSET PostingRows /\ IsFiniteSet(RowsIn(t))
  BY <1>1, <1>3, <1>4, FS_Union DEF RowsIn
<1> QED BY <1>1, <1>2, <1>3, <1>4

\* What a commit makes of the tables, and leaves to the others.
LEMMA CommitIs ==
  ASSUME OneCallEach, TxInv, Dates, NEW u \in Txs, CommitOperation(u)
  PROVE  /\ today' = today /\ began' = began /\ Dates' /\ TxInv'
         /\ journals' = journals \cup mine[u].journals /\ postings' = postings \cup mine[u].postings
         /\ \A j \in JournalIds : dated'[j] = IF j \in mine[u].journals THEN began[u] ELSE dated[j]
         /\ \A a \in Accounts : raw'[a] = IF owner[<<"balance", a>>] = u THEN mine[u].raw[a] ELSE raw[a]
         /\ mine'[u].journals = {} /\ state[u] = "running" /\ next[u] = 2
         /\ \A t \in Txs \ {u} : mine'[t] = mine[t] /\ \A row \in Rows : owner[row] = t <=> owner'[row] = t
<1>1. /\ Commit(u) /\ today' = today /\ began' = began
      /\ dated' = [j \in JournalIds |-> IF j \in mine[u].journals THEN began[u] ELSE dated[j]]
  BY DEF CommitOperation
<1>2. /\ Shapes /\ Release(u) /\ state' = [state EXCEPT ![u] = "committed"]
      /\ state[u] = "running" /\ next[u] \in {1, 2} /\ next[u] > Len(Calls[u])
      /\ journals' = journals \cup mine[u].journals /\ postings' = postings \cup mine[u].postings
      /\ raw' = [a \in Accounts |-> IF owner[<<"balance", a>>] = u THEN mine[u].raw[a] ELSE raw[a]]
  BY <1>1 DEF Commit, TxInv, Shapes
<1>3. next[u] = 2
  BY <1>2 DEF OneCallEach
<1>4. Dates'
  BY <1>1 DEF Dates
<1>5. TxInv'
  BY <1>1, CommitStep
<1>6. \A t \in Txs \ {u} : mine'[t] = mine[t] /\ \A row \in Rows : owner[row] = t <=> owner'[row] = t
  BY <1>2, ReleaseFrees
<1>7. mine'[u].journals = {}
  BY <1>2 DEF Release, Blank, Shapes
<1> QED BY <1>1, <1>2, <1>3, <1>4, <1>5, <1>6, <1>7

\* The rows to be seen after a commit, and their days.
LEMMA CommittedRows ==
  ASSUME OneCallEach, TxInv, Dates, NEW u \in Txs, CommitOperation(u), NEW p \in postings'
  PROVE  /\ p[1] \in JournalIds /\ p \in RowsIn(u) /\ dated'[p[1]] = Created(u)[p[1]]
         /\ \/ p \in postings /\ dated'[p[1]] = dated[p[1]]
            \/ mine[u].journals # {} /\ p \in RowsOf(Work(u))
<1>1. /\ postings' = postings \cup mine[u].postings /\ state[u] = "running" /\ next[u] = 2
      /\ \A j \in JournalIds : dated'[j] = IF j \in mine[u].journals THEN began[u] ELSE dated[j]
  BY CommitIs
<1>2. p \in RowsIn(u)
  BY <1>1 DEF RowsIn
<1> DEFINE c == Work(u)
<1>3. \/ mine[u].journals = {} /\ mine[u].postings = {}
      \/ /\ c.journal \in JournalIds \ journals /\ mine[u].journals = {c.journal}
         /\ mine[u].postings = RowsOf(c)
  BY <1>1, WritesAre
<1>4. CASE p \in postings
  <2>1. p[1] \in journals /\ p[1] \in JournalIds
    BY <1>4, RowsTyped
  <2>2. dated'[p[1]] = dated[p[1]]
    BY <1>1, <1>3, <2>1
  <2> QED BY <1>2, <1>4, <2>1, <2>2 DEF Created
<1>5. CASE p \notin postings
  <2>1. p \in RowsOf(c) /\ c.journal \in JournalIds \ journals /\ mine[u].journals = {c.journal}
    BY <1>1, <1>3, <1>5
  <2>2. p[1] = c.journal
    BY <2>1 DEF RowsOf
  <2>3. dated'[p[1]] = began[u]
    BY <1>1, <2>1, <2>2
  <2> QED BY <1>2, <2>1, <2>2, <2>3 DEF Created
<1> QED BY <1>4, <1>5

LEMMA RowsSeen ==
  ASSUME OneCallEach, TxInv, Dates, NEW u \in Txs, CommitOperation(u),
         NEW t \in Txs \ {u}, mine[t].journals # {}, NEW p \in RowsIn(t)'
  PROVE  /\ p[1] \in JournalIds
         /\ \/ p \in RowsIn(t) /\ Created(t)'[p[1]] = Created(t)[p[1]]
            \/ mine[u].journals # {} /\ p \in RowsOf(Work(u))
<1>1. mine'[t] = mine[t] /\ began' = began /\ journals' = journals \cup mine[u].journals
      /\ state[u] = "running" /\ next[u] = 2
  BY CommitIs
<1>2. CASE p \in postings'
  <2>1. p[1] \in JournalIds
    BY <1>2, CommittedRows
  <2>2. CASE p \in postings /\ dated'[p[1]] = dated[p[1]]
    <3>1. p[1] \in journals /\ p[1] \in journals'
      BY <1>1, <2>2, RowsTyped
    <3> QED BY <2>1, <2>2, <3>1 DEF RowsIn, Created
  <2> QED BY <1>2, <2>1, <2>2, CommittedRows
<1>3. CASE p \in mine[t].postings
  <2> DEFINE c == Work(t)
             d == Work(u)
  <2>1. /\ c.journal \in JournalIds \ journals /\ mine[t].postings = RowsOf(c)
        /\ owner[<<"journal", c.journal>>] = t
    BY WrittenStage, WritesAre
  <2>2. p[1] = c.journal
    BY <1>3, <2>1 DEF RowsOf
  <2>3. c.journal \notin mine[u].journals
    <3>1. \/ mine[u].journals = {}
          \/ mine[u].journals = {d.journal} /\ owner[<<"journal", d.journal>>] = u
      BY <1>1, WritesAre
    <3> QED BY <2>1, <3>1
  <2> QED BY <1>1, <1>3, <2>1, <2>2, <2>3 DEF RowsIn, Created
<1> QED BY <1>1, <1>2, <1>3 DEF RowsIn

\* A commit shows of w what its transaction's check saw there; only a checked
\* load adds to the loads, there or in what others see, and only a checked
\* withdrawal to the withdrawals.
LEMMA CommittedLoads ==
  ASSUME OneCallEach, TxInv, Dates, NEW u \in Txs, CommitOperation(u), NEW w \in Wallets
  PROVE  /\ LoadedNow'[w] \subseteq LoadedIn(u)[w]
         /\ \/ Checks(u, w) /\ Rule[u].loads /\ mine[u].journals # {}
            \/ /\ LoadedNow'[w] \subseteq LoadedNow[w]
               /\ \A t \in Txs \ {u} : mine[t].journals # {} => LoadedIn(t)'[w] \subseteq LoadedIn(t)[w]
<1>1. today' = today /\ state[u] = "running" /\ next[u] = 2
  BY CommitIs
<1>2. ASSUME NEW p \in LoadedNow'[w] PROVE p \in LoadedIn(u)[w]
  <2>1. /\ p \in postings' /\ p[2].account = w /\ p[2].direction = "credit" /\ p[1] \in Loading
        /\ dated'[p[1]] >= today
    BY <1>1, <1>2 DEF LoadedNow, Loaded, Credits, On
  <2>2. p \in RowsIn(u) /\ dated'[p[1]] = Created(u)[p[1]]
    BY <2>1, CommittedRows
  <2> QED BY <2>1, <2>2 DEF LoadedIn, Loaded, Credits, On
<1>3. ASSUME NEW p \in RowsOf(Work(u)), mine[u].journals # {}, p[1] \in Loading,
             p[2].account = w, p[2].direction = "credit"
      PROVE  Checks(u, w) /\ Rule[u].loads
  <2>1. Work(u).op \in {"post", "capture"}
    BY <1>1, <1>3, WritesAre
  <2>2. p[1] = Work(u).journal /\ p[2] \in Work(u).legs
    BY <1>3 DEF RowsOf
  <2> QED BY <1>3, <2>1, <2>2, RulesAre DEF Credited
<1>4. ASSUME ~ (Checks(u, w) /\ Rule[u].loads /\ mine[u].journals # {}), NEW p \in LoadedNow'[w]
      PROVE  p \in LoadedNow[w]
  <2>1. /\ p \in postings' /\ p[2].account = w /\ p[2].direction = "credit" /\ p[1] \in Loading
        /\ dated'[p[1]] >= today
    BY <1>1, <1>4 DEF LoadedNow, Loaded, Credits, On
  <2>2. p \in postings /\ dated'[p[1]] = dated[p[1]]
    BY <1>3, <1>4, <2>1, CommittedRows
  <2> QED BY <2>1, <2>2 DEF LoadedNow, Loaded, Credits, On
<1>5. ASSUME ~ (Checks(u, w) /\ Rule[u].loads /\ mine[u].journals # {}),
             NEW t \in Txs \ {u}, mine[t].journals # {}, NEW p \in LoadedIn(t)'[w]
      PROVE  p \in LoadedIn(t)[w]
  <2>1. /\ p \in RowsIn(t)' /\ p[2].account = w /\ p[2].direction = "credit" /\ p[1] \in Loading
        /\ Created(t)'[p[1]] >= today
    BY <1>1, <1>5 DEF LoadedIn, Loaded, Credits, On
  <2>2. p \in RowsIn(t) /\ Created(t)'[p[1]] = Created(t)[p[1]]
    BY <1>3, <1>5, <2>1, RowsSeen
  <2> QED BY <2>1, <2>2 DEF LoadedIn, Loaded, Credits, On
<1> QED BY <1>2, <1>4, <1>5

LEMMA CommittedWithdrawals ==
  ASSUME OneCallEach, TxInv, Dates, NEW u \in Txs, CommitOperation(u), NEW w \in Wallets
  PROVE  /\ MadeNow'[w] \subseteq MadeIn(u)[w]
         /\ \/ Rule[u].kind = "withdrawal" /\ Rule[u].wallet = w /\ mine[u].journals # {}
            \/ /\ MadeNow'[w] \subseteq MadeNow[w]
               /\ \A t \in Txs \ {u} : mine[t].journals # {} => MadeIn(t)'[w] \subseteq MadeIn(t)[w]
<1>1. today' = today /\ state[u] = "running" /\ next[u] = 2 /\ journals \subseteq journals'
  BY CommitIs
<1>2. ASSUME NEW p \in MadeNow'[w] PROVE p \in MadeIn(u)[w]
  <2>1. /\ p \in postings' /\ p[2].account = w /\ p[2].direction = "debit" /\ p[1] \in Withdrawing
        /\ dated'[p[1]] >= today /\ \A v \in journals : <<v, p[1]>> \notin Undoes
    BY <1>1, <1>2 DEF MadeNow, Withdrawn, Debits, On
  <2>2. p \in RowsIn(u) /\ dated'[p[1]] = Created(u)[p[1]]
    BY <2>1, CommittedRows
  <2> QED BY <2>1, <2>2 DEF MadeIn, Withdrawn, Debits, On
<1>3. ASSUME NEW p \in RowsOf(Work(u)), mine[u].journals # {}, p[1] \in Withdrawing,
             p[2].account = w, p[2].direction = "debit"
      PROVE  Rule[u].kind = "withdrawal" /\ Rule[u].wallet = w
  <2>1. Work(u).op \in {"post", "capture"}
    BY <1>1, <1>3, WritesAre
  <2>2. p[1] = Work(u).journal /\ p[2] \in Work(u).legs
    BY <1>3 DEF RowsOf
  <2> QED BY <1>3, <2>1, <2>2, RulesAre DEF Debited
<1>4. ASSUME ~ (Rule[u].kind = "withdrawal" /\ Rule[u].wallet = w /\ mine[u].journals # {}), NEW p \in MadeNow'[w]
      PROVE  p \in MadeNow[w]
  <2>1. /\ p \in postings' /\ p[2].account = w /\ p[2].direction = "debit" /\ p[1] \in Withdrawing
        /\ dated'[p[1]] >= today /\ \A v \in journals : <<v, p[1]>> \notin Undoes
    BY <1>1, <1>4 DEF MadeNow, Withdrawn, Debits, On
  <2>2. p \in postings /\ dated'[p[1]] = dated[p[1]]
    BY <1>3, <1>4, <2>1, CommittedRows
  <2> QED BY <2>1, <2>2 DEF MadeNow, Withdrawn, Debits, On
<1>5. ASSUME ~ (Rule[u].kind = "withdrawal" /\ Rule[u].wallet = w /\ mine[u].journals # {}),
             NEW t \in Txs \ {u}, mine[t].journals # {}, NEW p \in MadeIn(t)'[w]
      PROVE  p \in MadeIn(t)[w]
  <2>1. /\ p \in RowsIn(t)' /\ p[2].account = w /\ p[2].direction = "debit" /\ p[1] \in Withdrawing
        /\ Created(t)'[p[1]] >= today /\ \A v \in journals : <<v, p[1]>> \notin Undoes
    BY <1>1, <1>5 DEF MadeIn, Withdrawn, Debits, On
  <2>2. p \in RowsIn(t) /\ Created(t)'[p[1]] = Created(t)[p[1]]
    BY <1>3, <1>5, <2>1, RowsSeen
  <2> QED BY <2>1, <2>2 DEF MadeIn, Withdrawn, Debits, On
<1> QED BY <1>2, <1>4, <1>5

\* Balances: a commit makes w's what its transaction made of it, and only a
\* checked posting raises it by more than it returns.
LEMMA ReturnedIs ==
  ASSUME OneCallEach, TxInv
  PROVE  \A w : ReturnedRows(w) \in SUBSET PostingRows /\ IsFiniteSet(ReturnedRows(w)) /\ Returned(w) \in Nat
<1> SUFFICES ASSUME NEW w
             PROVE  ReturnedRows(w) \in SUBSET PostingRows /\ IsFiniteSet(ReturnedRows(w)) /\ Returned(w) \in Nat
  OBVIOUS
<1>1. postings \in SUBSET PostingRows /\ IsFiniteSet(postings)
  BY RowsTyped
<1>2. ReturnedRows(w) \in SUBSET postings
  BY DEF ReturnedRows, Credits, On
<1>3. Moved(ReturnedRows(w)) \in Nat /\ IsFiniteSet(ReturnedRows(w))
  BY <1>1, <1>2, MovedFewer
<1> QED BY <1>1, <1>2, <1>3 DEF Returned

LEMMA PaidInType ==
  ASSUME OneCallEach, TxInv
  PROVE  \A w \in Wallets : /\ raw[w] \in Int /\ Returned(w) \in Nat /\ PaidIn[w] = - raw[w] - Returned(w)
                            /\ PaidIn[w] \in Int /\ w \in Accounts
                            /\ \A t \in Txs : /\ RawIn(t, w) \in Int /\ PaidInBy(t)[w] \in Int
                                              /\ PaidInBy(t)[w] = - RawIn(t, w) - Returned(w)
<1> SUFFICES ASSUME NEW w \in Wallets
             PROVE  /\ raw[w] \in Int /\ Returned(w) \in Nat /\ PaidIn[w] = - raw[w] - Returned(w)
                    /\ PaidIn[w] \in Int /\ w \in Accounts
                    /\ \A t \in Txs : /\ RawIn(t, w) \in Int /\ PaidInBy(t)[w] \in Int
                                      /\ PaidInBy(t)[w] = - RawIn(t, w) - Returned(w)
  OBVIOUS
<1>1. w \in Accounts /\ raw[w] \in Int /\ \A t \in Txs : mine[t].raw[w] \in Int
  BY WalletAssumption DEF TxInv, IInv, TypeOK, Shapes, Copies
<1>2. Returned(w) \in Nat
  BY ReturnedIs
<1>3. \A t \in Txs : RawIn(t, w) \in Int
  BY <1>1 DEF RawIn
<1> QED BY <1>1, <1>2, <1>3 DEF PaidIn, PaidInBy

LEMMA CommittedReturns ==
  ASSUME OneCallEach, TxInv, Dates, NEW u \in Txs, CommitOperation(u), NEW w \in Wallets
  PROVE  /\ Returned(w) \in Nat /\ Returned(w)' \in Nat /\ Returned(w) <= Returned(w)'
         /\ PaidIn[w] \in Int /\ PaidIn'[w] \in Int /\ PaidInBy(u)[w] \in Int
         /\ PaidIn'[w] <= PaidInBy(u)[w]
         /\ (Checks(u, w) /\ mine[u].journals # {}) \/ PaidIn'[w] <= PaidIn[w]
<1> DEFINE c == Work(u)
           R == On(RowsOf(c), w)
<1>1. /\ TxInv' /\ journals' = journals \cup mine[u].journals /\ postings' = postings \cup mine[u].postings
      /\ raw'[w] = RawIn(u, w) /\ w \in Accounts /\ state[u] = "running" /\ next[u] = 2
  BY CommitIs, PaidInType DEF RawIn
<1>2. Returned(w) \in Nat /\ ReturnedRows(w)' \in SUBSET PostingRows /\ IsFiniteSet(ReturnedRows(w)')
  <2>1. postings' \in SUBSET PostingRows /\ IsFiniteSet(postings')
    BY <1>1 DEF TxInv, IInv, TypeOK, PostingsAreOwned, PostingRows
  <2>2. ReturnedRows(w)' \in SUBSET postings'
    BY DEF ReturnedRows, Credits, On
  <2>3. IsFiniteSet(ReturnedRows(w)')
    BY <2>1, <2>2, FS_Subset
  <2> QED BY <2>1, <2>2, <2>3, ReturnedIs
<1>3. Returning(w)' = Returning(w)
  BY DEF Returning, Work, Checks, Credited
<1>4. ReturnedRows(w) \in SUBSET ReturnedRows(w)'
  BY <1>1, <1>3 DEF ReturnedRows, Credits, On
<1>5. Returned(w) <= Returned(w)' /\ Returned(w)' \in Nat
  BY <1>2, <1>4, MovedFewer DEF Returned
<1>6. /\ raw[w] \in Int /\ RawIn(u, w) \in Int /\ PaidIn[w] = - raw[w] - Returned(w)
      /\ PaidInBy(u)[w] = - RawIn(u, w) - Returned(w) /\ PaidIn'[w] = - raw'[w] - Returned(w)'
  BY PaidInType DEF PaidIn
<1>7. ASSUME ~ (Checks(u, w) /\ mine[u].journals # {}) PROVE - raw'[w] - Returned(w)' <= - raw[w] - Returned(w)
  <2>1. CASE mine[u].journals = {}
    <3>1. owner[<<"balance", w>>] = u => mine[u].raw[w] = raw[w]
      BY <1>1, <2>1, WritesAre
    <3> QED BY <1>1, <1>2, <1>5, <1>6, <3>1 DEF RawIn
  <2>2. CASE mine[u].journals # {}
    <3>1. /\ c.op \in {"post", "capture"} /\ c.journal \in JournalIds \ journals /\ c.legs \in Entries
          /\ mine[u].postings = RowsOf(c)
          /\ \A l \in c.legs : owner[<<"balance", l.account>>] = u
          /\ owner[<<"balance", w>>] = u => mine[u].raw[w] = raw[w] + Signed(On(RowsOf(c), w))
      BY <1>1, <2>2, WritesAre
    <3>2. RowsOf(c) \in SUBSET PostingRows /\ IsFiniteSet(RowsOf(c)) /\ R \in SUBSET RowsOf(c)
      BY <3>1, SubmittedRows DEF RowsOf, On
    <3> HIDE DEF c
    <3>3. IsFiniteSet(R) /\ R \in SUBSET PostingRows
      BY <3>2, FS_Subset
    <3>4. /\ Signed(R) = Moved(Debits(R)) - Moved(Credits(R))
          /\ Moved(Debits(R)) \in Nat /\ Moved(Credits(R)) \in Nat
      BY <3>3, SignedType DEF Signed
    <3>5. raw'[w] = raw[w] + Signed(R)
      <4>1. CASE owner[<<"balance", w>>] = u
        BY <1>1, <3>1, <4>1 DEF RawIn
      <4>2. CASE owner[<<"balance", w>>] # u
        <5>1. R = {}
          BY <3>1, <4>2 DEF On, RowsOf
        <5> QED BY <1>1, <1>6, <4>2, <5>1, SignedEmpty DEF RawIn
      <4> QED BY <4>1, <4>2
    <3>6. Returned(w)' = Returned(w) + Moved(Credits(R))
      <4>1. Credits(R) # {} => c.journal \in Returning(w)
        <5> SUFFICES ASSUME Credits(R) # {} PROVE c.journal \in Returning(w)
          OBVIOUS
        <5>1. Credited(c, w)
          BY DEF Credits, On, RowsOf, Credited
        <5> QED BY <1>7, <2>2, <3>1, <5>1 DEF Returning, c
      <4>2. ReturnedRows(w)' = ReturnedRows(w) \cup Credits(R)
        <5>1. \A p \in Credits(R) : p[1] = c.journal
          BY DEF Credits, On, RowsOf
        <5>2. \A p \in Credits(R) : p[1] \in Returning(w)
          BY <4>1, <5>1
        <5> QED BY <1>1, <1>3, <3>1, <5>2 DEF ReturnedRows, Credits, On
      <4>3. Credits(R) \in SUBSET R /\ ReturnedRows(w) \cap Credits(R) = {}
        <5>1. \A p \in ReturnedRows(w) : p[1] \in journals
          BY RowsTyped DEF ReturnedRows, Credits, On
        <5>2. \A p \in Credits(R) : p[1] \notin journals
          BY <3>1 DEF Credits, On, RowsOf
        <5> QED BY <5>1, <5>2 DEF Credits
      <4>4. Credits(R) \in SUBSET PostingRows /\ IsFiniteSet(Credits(R))
        BY <3>3, <4>3, FS_Subset
      <4>5. ReturnedRows(w) \in SUBSET PostingRows /\ IsFiniteSet(ReturnedRows(w))
        BY ReturnedIs
      <4> QED BY <4>2, <4>3, <4>4, <4>5, MovedUnion DEF Returned
    <3> HIDE DEF R
    <3> QED BY <1>2, <1>6, <3>4, <3>5, <3>6
  <2> QED BY <2>1, <2>2
<1> QED BY <1>1, <1>2, <1>5, <1>6, <1>7

-----------------------------------------------------------------------------
(* Sums over the wallets of a customer                                     *)

LEMMA AllOfFewer ==
  ASSUME NEW c, NEW X \in SUBSET PostingRows, IsFiniteSet(X), NEW f, NEW g,
         \A w \in WalletsOf(c) : f[w] \subseteq g[w] /\ g[w] \subseteq X
  PROVE  /\ Moved(AllOf(f, c)) \in Nat /\ Moved(AllOf(g, c)) \in Nat
         /\ Moved(AllOf(f, c)) <= Moved(AllOf(g, c))
         /\ Cardinality(AllOf(f, c)) \in Nat /\ Cardinality(AllOf(g, c)) \in Nat
         /\ Cardinality(AllOf(f, c)) <= Cardinality(AllOf(g, c))
<1>1. AllOf(f, c) \in SUBSET AllOf(g, c) /\ AllOf(g, c) \in SUBSET X
  BY DEF AllOf
<1>2. IsFiniteSet(AllOf(g, c)) /\ AllOf(g, c) \in SUBSET PostingRows
  BY <1>1, FS_Subset
<1> QED BY <1>1, <1>2, MovedFewer

LEMMA SumOverSmaller ==
  ASSUME NEW c, NEW f, NEW g, \A w \in WalletsOf(c) : f[w] \in Int /\ g[w] \in Int /\ f[w] <= g[w]
  PROVE  SumOver(f, c) \in Int /\ SumOver(g, c) \in Int /\ SumOver(f, c) <= SumOver(g, c)
<1>1. IsFiniteSet(WalletsOf(c))
  <2>1. WalletsOf(c) \in SUBSET Accounts
    BY WalletAssumption DEF WalletsOf
  <2> QED BY <2>1, LedgerAssumption, FS_Subset
<1> QED BY <1>1, SignedTotalSmaller, SignedTotalType DEF SumOver

\* The rows counted are rows.
LEMMA CountedRows ==
  ASSUME OneCallEach, TxInv
  PROVE  /\ postings \in SUBSET PostingRows /\ IsFiniteSet(postings)
         /\ \A w \in Wallets : LoadedNow[w] \subseteq postings /\ MadeNow[w] \subseteq postings
         /\ \A t \in Txs : mine[t].journals # {} =>
               /\ RowsIn(t) \in SUBSET PostingRows /\ IsFiniteSet(RowsIn(t))
               /\ \A w \in Wallets : LoadedIn(t)[w] \subseteq RowsIn(t) /\ MadeIn(t)[w] \subseteq RowsIn(t)
<1>1. \A w \in Wallets : LoadedNow[w] \subseteq postings /\ MadeNow[w] \subseteq postings
  BY DEF LoadedNow, MadeNow, Loaded, Withdrawn, Credits, Debits, On
<1>2. \A t \in Txs, w \in Wallets : LoadedIn(t)[w] \subseteq RowsIn(t) /\ MadeIn(t)[w] \subseteq RowsIn(t)
  BY DEF LoadedIn, MadeIn, Loaded, Withdrawn, Credits, Debits, On
<1> QED BY <1>1, <1>2, RowsTyped

\* What was found to fit still fits when there is less.
LEMMA FitsFewer ==
  ASSUME OneCallEach, TxInv, NEW t \in Txs, Fits(t), Rule[t].kind \in {"limits", "withdrawal"},
         mine[t].journals # {},
         LET c == OwnerOf[Rule[t].wallet] IN
         /\ owner'[<<"party", c>>] = t
         /\ \A w \in WalletsOf(c) : /\ PaidInBy(t)'[w] \in Int /\ PaidInBy(t)'[w] <= PaidInBy(t)[w]
                                    /\ LoadedIn(t)'[w] \subseteq LoadedIn(t)[w]
                                    /\ MadeIn(t)'[w] \subseteq MadeIn(t)[w]
  PROVE  Fits(t)'
<1> DEFINE w == Rule[t].wallet
           c == OwnerOf[w]
           X == RowsIn(t)
<1>1. w \in Wallets /\ w \in WalletsOf(c)
  BY RulesAre DEF WalletsOf
<1>2. /\ X \in SUBSET PostingRows /\ IsFiniteSet(X)
      /\ \A v \in WalletsOf(c) : LoadedIn(t)[v] \subseteq X /\ MadeIn(t)[v] \subseteq X
  BY CountedRows DEF WalletsOf
<1>3. /\ PaidInBy(t)[w] \in Int /\ SumOver(PaidInBy(t)', c) \in Int /\ SumOver(PaidInBy(t), c) \in Int
      /\ SumOver(PaidInBy(t)', c) <= SumOver(PaidInBy(t), c)
  <2>1. \A v \in WalletsOf(c) : PaidInBy(t)[v] \in Int
    BY PaidInType DEF WalletsOf
  <2> QED BY <1>1, <2>1, SumOverSmaller
<1>4. /\ Moved(LoadedIn(t)'[w]) \in Nat /\ Moved(LoadedIn(t)[w]) \in Nat
      /\ Moved(LoadedIn(t)'[w]) <= Moved(LoadedIn(t)[w])
      /\ Moved(AllOf(LoadedIn(t)', c)) \in Nat /\ Moved(AllOf(LoadedIn(t), c)) \in Nat
      /\ Moved(AllOf(LoadedIn(t)', c)) <= Moved(AllOf(LoadedIn(t), c))
  <2> DEFINE f == LoadedIn(t)'
             g == LoadedIn(t)
  <2>1. \A v \in WalletsOf(c) : f[v] \subseteq g[v] /\ g[v] \subseteq X
    BY <1>2
  <2>2. g[w] \in SUBSET PostingRows /\ IsFiniteSet(g[w]) /\ f[w] \in SUBSET g[w]
    BY <1>1, <1>2, <2>1, FS_Subset
  <2> HIDE DEF f, g, X
  <2>3. Moved(f[w]) \in Nat /\ Moved(g[w]) \in Nat /\ Moved(f[w]) <= Moved(g[w])
    BY <2>2, MovedFewer
  <2>4. Moved(AllOf(f, c)) \in Nat /\ Moved(AllOf(g, c)) \in Nat /\ Moved(AllOf(f, c)) <= Moved(AllOf(g, c))
    BY <1>2, <2>1, AllOfFewer
  <2> QED BY <2>3, <2>4 DEF f, g
<1>5. /\ Moved(MadeIn(t)'[w]) \in Nat /\ Moved(MadeIn(t)[w]) \in Nat
      /\ Moved(MadeIn(t)'[w]) <= Moved(MadeIn(t)[w])
      /\ Moved(AllOf(MadeIn(t)', c)) \in Nat /\ Moved(AllOf(MadeIn(t), c)) \in Nat
      /\ Moved(AllOf(MadeIn(t)', c)) <= Moved(AllOf(MadeIn(t), c))
      /\ Cardinality(AllOf(MadeIn(t)', c)) \in Nat /\ Cardinality(AllOf(MadeIn(t), c)) \in Nat
      /\ Cardinality(AllOf(MadeIn(t)', c)) <= Cardinality(AllOf(MadeIn(t), c))
  <2> DEFINE f == MadeIn(t)'
             g == MadeIn(t)
  <2>1. \A v \in WalletsOf(c) : f[v] \subseteq g[v] /\ g[v] \subseteq X
    BY <1>2
  <2>2. g[w] \in SUBSET PostingRows /\ IsFiniteSet(g[w]) /\ f[w] \in SUBSET g[w]
    BY <1>1, <1>2, <2>1, FS_Subset
  <2> HIDE DEF f, g, X
  <2>3. Moved(f[w]) \in Nat /\ Moved(g[w]) \in Nat /\ Moved(f[w]) <= Moved(g[w])
    BY <2>2, MovedFewer
  <2>4. /\ Moved(AllOf(f, c)) \in Nat /\ Moved(AllOf(g, c)) \in Nat /\ Moved(AllOf(f, c)) <= Moved(AllOf(g, c))
        /\ Cardinality(AllOf(f, c)) \in Nat /\ Cardinality(AllOf(g, c)) \in Nat
        /\ Cardinality(AllOf(f, c)) <= Cardinality(AllOf(g, c))
    BY <1>2, <2>1, AllOfFewer
  <2> QED BY <2>3, <2>4 DEF f, g
<1>6. /\ MaxBalance[w] \in Nat /\ DailyLoadLimit[w] \in Nat /\ DailyWithdrawalLimit[w] \in Nat
      /\ MaxCustomerBalance \in Nat /\ MaxCustomerDailyLoad \in Nat
      /\ MaxCustomerDailyWithdrawal \in Nat /\ MaxCustomerDailyWithdrawals \in Nat
  BY <1>1, WalletAssumption
<1>7. PaidInBy(t)'[w] \in Int /\ PaidInBy(t)'[w] <= PaidInBy(t)[w]
  BY <1>1
<1> QED BY <1>1, <1>3, <1>4, <1>5, <1>6, <1>7 DEF Fits

\* Nobody else credits, loads or withdraws under checks of the same customer:
\* the customer's row is taken.
LEMMA FitsStays ==
  ASSUME OneCallEach, TxInv, Dates, NEW u \in Txs, CommitOperation(u), Checked(u),
         NEW t \in Txs \ {u}, Checked(t)
  PROVE  Checked(t)'
<1> DEFINE w == Rule[t].wallet
           c == OwnerOf[w]
<1>1. /\ mine'[t] = mine[t] /\ \A row \in Rows : owner[row] = t <=> owner'[row] = t
      /\ TxInv' /\ state[u] = "running" /\ next[u] = 2
  BY CommitIs
<1> SUFFICES ASSUME Rule[t].kind \in {"limits", "withdrawal"}, mine[t].journals # {} PROVE Fits(t)'
  BY <1>1 DEF Checked
<1>2. Fits(t) /\ owner[<<"party", c>>] = t
  BY DEF Checked, Fits
<1>3. w \in Wallets /\ c \in Parties /\ <<"party", c>> \in Rows
  BY RulesAre DEF Rows
<1>4. ASSUME NEW v \in WalletsOf(c)
      PROVE  ~ (Rule[u].kind \in {"limits", "withdrawal"} /\ Rule[u].wallet = v /\ mine[u].journals # {})
  <2> SUFFICES ASSUME Rule[u].kind \in {"limits", "withdrawal"}, Rule[u].wallet = v, mine[u].journals # {}
               PROVE FALSE
    OBVIOUS
  <2>1. owner[<<"party", OwnerOf[v]>>] = u
    BY DEF Checked, Fits
  <2> QED BY <1>2, <2>1 DEF WalletsOf
<1>5. ASSUME NEW v \in WalletsOf(c)
      PROVE  LoadedIn(t)'[v] \subseteq LoadedIn(t)[v] /\ MadeIn(t)'[v] \subseteq MadeIn(t)[v]
  BY <1>4, <1>5, CommittedLoads, CommittedWithdrawals DEF WalletsOf, Checks
<1>6. ASSUME NEW v \in WalletsOf(c) PROVE PaidInBy(t)'[v] \in Int /\ PaidInBy(t)'[v] <= PaidInBy(t)[v]
  <2>1. v \in Wallets /\ v \in Accounts /\ <<"balance", v>> \in Rows
    BY WalletAssumption DEF WalletsOf, Rows
  <2>2. /\ Returned(v) \in Nat /\ Returned(v)' \in Nat /\ Returned(v) <= Returned(v)'
        /\ PaidIn[v] \in Int /\ PaidIn'[v] \in Int /\ PaidIn'[v] <= PaidIn[v]
    BY <1>4, <2>1, CommittedReturns DEF Checks
  <2>3. /\ PaidIn[v] = - raw[v] - Returned(v) /\ PaidIn'[v] = - raw'[v] - Returned(v)'
        /\ PaidInBy(t)[v] = - RawIn(t, v) - Returned(v) /\ PaidInBy(t)'[v] = - RawIn(t, v)' - Returned(v)'
        /\ RawIn(t, v) \in Int
    BY <2>1, PaidInType DEF PaidIn, PaidInBy
  <2>4. CASE owner[<<"balance", v>>] = t
    <3>1. RawIn(t, v)' = RawIn(t, v)
      BY <1>1, <2>1, <2>4 DEF RawIn
    <3> QED BY <2>2, <2>3, <3>1
  <2>5. CASE owner[<<"balance", v>>] # t
    <3>1. RawIn(t, v) = raw[v] /\ RawIn(t, v)' = raw'[v]
      BY <1>1, <2>1, <2>5 DEF RawIn
    <3> QED BY <2>2, <2>3, <3>1
  <2> QED BY <2>4, <2>5
<1>7. owner'[<<"party", c>>] = t
  BY <1>1, <1>2, <1>3
<1> QED BY <1>2, <1>5, <1>6, <1>7, FitsFewer

\* Nor does time, or what others do before they commit.
LEMMA QuietFits ==
  ASSUME OneCallEach, TxInv, Dates, Dates', NEW t \in Txs, Checked(t), today <= today',
         journals' = journals, postings' = postings, raw' = raw, dated' = dated,
         mine[t].journals # {} => began'[t] = began[t],
         mine'[t].journals = mine[t].journals, mine'[t].postings = mine[t].postings,
         mine'[t].raw = mine[t].raw,
         \A row \in Rows : row[1] \in {"balance", "party"} => (owner[row] = t <=> owner'[row] = t)
  PROVE  Checked(t)'
<1> DEFINE w == Rule[t].wallet
           c == OwnerOf[w]
<1> SUFFICES ASSUME Rule[t].kind \in {"limits", "withdrawal"}, mine[t].journals # {} PROVE Fits(t)'
  BY DEF Checked
<1>1. Fits(t) /\ owner[<<"party", c>>] = t
  BY DEF Checked, Fits
<1>2. c \in Parties /\ <<"party", c>> \in Rows
  BY RulesAre DEF Rows
<1>3. owner'[<<"party", c>>] = t
  BY <1>1, <1>2
<1>4. Created(t)' = Created(t) /\ RowsIn(t)' = RowsIn(t)
  BY DEF Created, RowsIn
<1>5. \A p \in RowsIn(t) : p[1] \in JournalIds
  BY RowsTyped DEF PostingRows
<1>6. Created(t) \in [JournalIds -> Nat]
  BY DEF Created, Dates
<1>7. ASSUME NEW v \in WalletsOf(c)
      PROVE  LoadedIn(t)'[v] \subseteq LoadedIn(t)[v] /\ MadeIn(t)'[v] \subseteq MadeIn(t)[v]
  <2>1. v \in Wallets /\ today \in Nat /\ today' \in Nat
    BY DEF WalletsOf, Dates
  <2>2. ASSUME NEW p \in LoadedIn(t)'[v] PROVE p \in LoadedIn(t)[v]
    <3>1. /\ p \in RowsIn(t) /\ p[2].account = v /\ p[2].direction = "credit" /\ p[1] \in Loading
          /\ Created(t)[p[1]] >= today'
      BY <1>4, <2>1, <2>2 DEF LoadedIn, Loaded, Credits, On
    <3>2. Created(t)[p[1]] >= today
      BY <1>5, <1>6, <2>1, <3>1
    <3> QED BY <2>1, <3>1, <3>2 DEF LoadedIn, Loaded, Credits, On
  <2>3. ASSUME NEW p \in MadeIn(t)'[v] PROVE p \in MadeIn(t)[v]
    <3>1. /\ p \in RowsIn(t) /\ p[2].account = v /\ p[2].direction = "debit" /\ p[1] \in Withdrawing
          /\ Created(t)[p[1]] >= today' /\ \A j \in journals : <<j, p[1]>> \notin Undoes
      BY <1>4, <2>1, <2>3 DEF MadeIn, Withdrawn, Debits, On
    <3>2. Created(t)[p[1]] >= today
      BY <1>5, <1>6, <2>1, <3>1
    <3> QED BY <2>1, <3>1, <3>2 DEF MadeIn, Withdrawn, Debits, On
  <2> QED BY <2>2, <2>3
<1>8. ASSUME NEW v \in WalletsOf(c) PROVE PaidInBy(t)'[v] \in Int /\ PaidInBy(t)'[v] <= PaidInBy(t)[v]
  <2>1. v \in Wallets /\ v \in Accounts /\ <<"balance", v>> \in Rows
    BY WalletAssumption DEF WalletsOf, Rows
  <2>2. RawIn(t, v)' = RawIn(t, v)
    BY <2>1 DEF RawIn
  <2>3. Returned(v)' = Returned(v)
    BY DEF Returned, ReturnedRows, Returning, Work, Checks, Credited, On, Credits
  <2>4. PaidInBy(t)'[v] = PaidInBy(t)[v] /\ PaidInBy(t)[v] \in Int
    BY <2>1, <2>2, <2>3, PaidInType DEF PaidInBy
  <2> QED BY <2>4
<1> QED BY <1>1, <1>3, <1>7, <1>8, FitsFewer

\* A check that passes finds what its transaction would commit within the
\* limits, and has the customer's row.
LEMMA FitsExecutes ==
  ASSUME OneCallEach, TxInv, Dates, NEW t \in Txs, ExecuteChecked(t)
  PROVE  Checked(t)'
<1> DEFINE w == Rule[t].wallet
           c == OwnerOf[w]
           k == Work(t)
           m == mine[t]
<1>1. Execute(t) /\ Passes(t) /\ UNCHANGED dayVars
  BY DEF ExecuteChecked
<1>2. /\ Shapes /\ m \in Copies /\ next[t] \in {1, 2} /\ owner' = owner /\ UNCHANGED vars
      /\ InCall(t) /\ ~ AlreadyDone(t) /\ ~ Refused(t) /\ Missing(t, This(t)) = {}
      /\ mine' = [mine EXCEPT ![t] = Written(m, This(t))]
  BY <1>1 DEF TxInv, Execute, Shapes
<1>3. This(t) = k /\ k \in Call /\ KnowsAccounts(t, k)
  BY <1>2, GoesOn
<1>4. /\ journals' = journals /\ postings' = postings /\ raw' = raw
      /\ today' = today /\ began' = began /\ dated' = dated
  BY <1>1, <1>2 DEF vars, dayVars
<1> SUFFICES ASSUME Rule[t].kind \in {"limits", "withdrawal"} PROVE Fits(t)'
  BY DEF Checked
<1>5. w \in Wallets /\ c \in Parties /\ k.op = "post" /\ k.party = c /\ c # NoParty
  BY RulesAre, TxAssumption
<1>6. \A row \in Needs(t, k) : owner[row] = t
  BY <1>2, <1>3, WantedIs
<1>7. owner'[<<"party", c>>] = t
  <2>1. <<"party", c>> \in Needs(t, k)
    BY <1>5 DEF Needs
  <2> QED BY <1>2, <1>6, <2>1
<1>8. \A l \in k.legs : owner[<<"balance", l.account>>] = t
  <2>1. \A l \in k.legs : <<"balance", l.account>> \in Needs(t, k)
    BY <1>5 DEF Needs
  <2> QED BY <1>6, <2>1
<1>9. mine'[t] = Written(m, k)
  BY <1>2, <1>3 DEF Shapes
<1> HIDE DEF m, k
<1>10. NewRows(k) = RowsOf(k) /\ k.journal \in JournalIds /\ k.legs \in Entries
  BY <1>3, <1>5, CallIs DEF NewRows
<1>11. /\ mine'[t].postings = m.postings \cup RowsOf(k)
       /\ \A a \in Accounts : mine'[t].raw[a] = m.raw[a] + Signed(On(RowsOf(k), a))
  <2>1. Written(m, k)
          = [journals |-> m.journals \cup Inserts(k), postings |-> m.postings \cup NewRows(k),
             raw |-> [a \in Accounts |-> m.raw[a] + Signed(On(NewRows(k), a))],
             held |-> [a \in Accounts |-> HeldAfter(m, k, a)],
             holds |-> [h \in HoldIds |-> HoldAfter(m, k, h)]]
    BY <1>2, <1>3, WrittenIs
  <2> QED BY <1>9, <1>10, <2>1
<1>12. RowsIn(t)' = Visible(t) /\ Created(t)' = Created(t)
  BY <1>3, <1>4, <1>11 DEF RowsIn, Visible, Created, m
<1>13. /\ LoadedIn(t)' = [v \in Wallets |-> Loaded(Visible(t), v, Created(t))]
       /\ MadeIn(t)' = [v \in Wallets |-> Withdrawn(Visible(t), v, Created(t))]
  BY <1>4, <1>12 DEF LoadedIn, MadeIn, Loaded, Withdrawn, Credits, Debits, On
<1>14. ASSUME NEW v \in Wallets
       PROVE  /\ PaidInBy(t)'[v] \in Int /\ NaturalBalance(t, v) \in Int
              /\ PaidInBy(t)'[v] <= NaturalBalance(t, v)
  <2>1. v \in Accounts /\ raw[v] \in Int /\ m.raw[v] \in Int
    BY <1>2, WalletAssumption DEF TxInv, IInv, TypeOK, Copies
  <2>2. Signed(On(RowsOf(k), v)) \in Int
    <3>1. RowsOf(k) \in SUBSET PostingRows /\ IsFiniteSet(RowsOf(k))
      BY <1>10, SubmittedRows DEF RowsOf
    <3>2. On(RowsOf(k), v) \in SUBSET RowsOf(k)
      BY DEF On
    <3>3. On(RowsOf(k), v) \in SUBSET PostingRows /\ IsFiniteSet(On(RowsOf(k), v))
      BY <3>1, <3>2, FS_Subset
    <3> QED BY <3>3, SignedType
  <2>3. Returned(v)' = Returned(v) /\ Returned(v) \in Nat
    <3>1. Returned(v)' = Returned(v)
      BY <1>4 DEF Returned, ReturnedRows, Returning, Work, Checks, Credited, On, Credits
    <3> QED BY <3>1, ReturnedIs
  <2>4. RawIn(t, v)' = - NaturalBalance(t, v) /\ NaturalBalance(t, v) \in Int
    <3>1. CASE owner[<<"balance", v>>] = t
      <4>1. RawIn(t, v)' = m.raw[v] + Signed(On(RowsOf(k), v))
        BY <1>2, <1>11, <2>1, <3>1 DEF RawIn
      <4>2. NaturalBalance(t, v) = - m.raw[v] - Signed(On(RowsOf(k), v))
        BY <1>3, <3>1 DEF NaturalBalance, m
      <4> QED BY <2>1, <2>2, <4>1, <4>2
    <3>2. CASE owner[<<"balance", v>>] # t
      <4>1. On(RowsOf(k), v) = {}
        BY <1>8, <3>2 DEF On, RowsOf
      <4>2. RawIn(t, v)' = raw[v]
        BY <1>2, <1>4, <3>2 DEF RawIn
      <4>3. NaturalBalance(t, v) = - raw[v] - 0
        BY <1>3, <3>2, <4>1, SignedEmpty DEF NaturalBalance
      <4> QED BY <2>1, <4>2, <4>3
    <3> QED BY <3>1, <3>2
  <2>5. PaidInBy(t)'[v] = - RawIn(t, v)' - Returned(v)'
    BY DEF PaidInBy
  <2> QED BY <2>3, <2>4, <2>5
<1>15. CASE Rule[t].kind = "limits"
  <2> DEFINE balance == [v \in Wallets |-> NaturalBalance(t, v)]
  <2>1. /\ NaturalBalance(t, w) <= MaxBalance[w] /\ SumOver(balance, c) <= MaxCustomerBalance
        /\ Rule[t].loads => /\ Moved(LoadedIn(t)'[w]) <= DailyLoadLimit[w]
                            /\ Moved(AllOf(LoadedIn(t)', c)) <= MaxCustomerDailyLoad
    <3>1. WithinWalletLimits(t, w) /\ WithinCustomerLimits(t, c)
      BY <1>1, <1>15 DEF Passes
    <3> QED BY <1>5, <1>13, <3>1 DEF WithinWalletLimits, WithinCustomerLimits
  <2>2. \A v \in WalletsOf(c) : PaidInBy(t)'[v] \in Int /\ balance[v] \in Int /\ PaidInBy(t)'[v] <= balance[v]
    BY <1>14 DEF WalletsOf
  <2> HIDE DEF balance
  <2>3. /\ SumOver(PaidInBy(t)', c) \in Int /\ SumOver(balance, c) \in Int
        /\ SumOver(PaidInBy(t)', c) <= SumOver(balance, c)
    BY <2>2, SumOverSmaller
  <2>4. SumOver(PaidInBy(t)', c) <= MaxCustomerBalance
    BY <2>1, <2>3, WalletAssumption
  <2>5. PaidInBy(t)'[w] <= MaxBalance[w]
    <3>1. MaxBalance[w] \in Nat
      BY <1>5, WalletAssumption
    <3> QED BY <1>5, <1>14, <2>1, <3>1
  <2> QED BY <1>7, <1>15, <2>1, <2>4, <2>5 DEF Fits
<1>16. CASE Rule[t].kind = "withdrawal"
  <2>1. WithinDailyLimits(t, w)
    BY <1>1, <1>16 DEF Passes
  <2>2. /\ Moved(MadeIn(t)'[w]) <= DailyWithdrawalLimit[w]
        /\ Moved(AllOf(MadeIn(t)', c)) <= MaxCustomerDailyWithdrawal
        /\ Cardinality(AllOf(MadeIn(t)', c)) <= MaxCustomerDailyWithdrawals
    BY <1>13, <2>1 DEF WithinDailyLimits
  <2> QED BY <1>7, <1>16, <2>2 DEF Fits
<1> QED BY <1>15, <1>16

\* Every step of a transaction keeps what the checks found.
LEMMA CheckedNext ==
  ASSUME OneCallEach, TxInv, Dates, Dates', \A t \in Txs : Checked(t), [WalletNext]_walletVars
  PROVE  \A t \in Txs : Checked(t)'
<1> SUFFICES ASSUME NEW t \in Txs PROVE Checked(t)'
  OBVIOUS
<1>1. Shapes /\ Checked(t) /\ Stage(t) /\ Free \notin Txs /\ mine[t] \in Copies /\ today \in Nat /\ today' \in Nat
  BY TxAssumption DEF TxInv, Shapes, Dates
<1>2. ASSUME mine'[t] = mine[t], owner' = owner, UNCHANGED vars, today <= today', dated' = dated,
             mine[t].journals # {} => began'[t] = began[t]
      PROVE  Checked(t)'
  <2>1. journals' = journals /\ postings' = postings /\ raw' = raw
    BY <1>2 DEF vars
  <2> QED BY <1>1, <1>2, <2>1, QuietFits
<1>3. ASSUME NEW u \in Txs, BeginOperation(u) PROVE Checked(t)'
  <2>1. /\ mine' = mine /\ owner' = owner /\ UNCHANGED vars /\ today' = today /\ dated' = dated
        /\ began' = [began EXCEPT ![u] = today] /\ state[u] # "running"
    BY <1>3 DEF BeginOperation, Begin
  <2>2. mine[t].journals # {} => began'[t] = began[t]
    BY <2>1, WrittenStage DEF Dates
  <2> QED BY <1>1, <1>2, <2>1, <2>2
<1>4. ASSUME NEW u \in Txs, Refer(u) \/ Skip(u), UNCHANGED dayVars PROVE Checked(t)'
  BY <1>1, <1>2, <1>4 DEF Refer, Skip, dayVars
<1>5. ASSUME NEW u \in Txs, ExecuteChecked(u) PROVE Checked(t)'
  <2>1. CASE u = t
    BY <1>5, <2>1, FitsExecutes
  <2>2. CASE u # t
    BY <1>1, <1>2, <1>5, <2>2 DEF ExecuteChecked, Execute, Shapes, dayVars
  <2> QED BY <2>1, <2>2
<1>6. ASSUME NEW u \in Txs, Acquire(u), UNCHANGED dayVars PROVE Checked(t)'
  <2> DEFINE row == Wanted(u, This(u))
  <2>1. /\ owner[row] = Free /\ owner' = [owner EXCEPT ![row] = u] /\ UNCHANGED vars
        /\ InCall(u) /\ ~ AlreadyDone(u) /\ ~ Refused(u) /\ Missing(u, This(u)) # {} /\ Takes(u, row)
    BY <1>6 DEF Acquire, Takes
  <2>2. mine[u] \in Copies /\ next[u] \in {1, 2}
    BY <1>1 DEF Shapes
  <2>3. next[u] = 1 /\ state[u] = "running" /\ This(u) = Work(u) /\ Work(u) \in Call /\ KnowsAccounts(u, Work(u))
    BY <2>1, <2>2, GoesOn
  <2>4. row \in Rows
    BY <2>1, <2>3, WantedIs, NeedsRows
  <2>5. /\ \A v \in Txs \ {u} : mine'[v] = mine[v]
        /\ mine'[u].journals = mine[u].journals
    BY <1>1, <2>1, <2>4, TakesReads DEF Shapes, TxInv, IInv
  <2> HIDE DEF row
  <2>6. CASE u = t
    <3>1. mine'[t].journals = {}
      BY <2>3, <2>5, <2>6, WrittenStage
    <3> QED BY <3>1 DEF Checked
  <2>7. CASE u # t
    <3>1. \A r \in Rows : owner[r] = t <=> owner'[r] = t
      BY <1>1, <2>1, <2>4, <2>7 DEF Shapes
    <3> QED BY <1>1, <1>6, <2>1, <2>5, <2>7, <3>1, QuietFits DEF vars, dayVars
  <2> QED BY <2>6, <2>7
<1>7. ASSUME NEW u \in Txs, Abort(u), UNCHANGED dayVars PROVE Checked(t)'
  <2>1. /\ UNCHANGED vars /\ Release(u) /\ state' = [state EXCEPT ![u] = "aborted"]
    BY <1>7 DEF Abort
  <2>2. CASE u = t
    <3>1. mine'[t].journals = {}
      BY <1>1, <2>1, <2>2 DEF Release, Shapes, Blank
    <3> QED BY <3>1 DEF Checked
  <2>3. CASE u # t
    <3>0. \A v \in Txs \ {u} : mine'[v] = mine[v] /\ \A row \in Rows : owner[row] = v <=> owner'[row] = v
      BY <1>1, <2>1, ReleaseFrees
    <3>1. mine'[t] = mine[t] /\ \A row \in Rows : owner[row] = t <=> owner'[row] = t
      BY <2>3, <3>0
    <3> QED BY <1>1, <1>7, <2>1, <3>1, QuietFits DEF vars, dayVars
  <2> QED BY <2>2, <2>3
<1>8. ASSUME NEW u \in Txs, CommitOperation(u) PROVE Checked(t)'
  <2>1. CASE u = t
    <3>1. mine'[t].journals = {}
      BY <1>8, <2>1, CommitIs
    <3> QED BY <3>1 DEF Checked
  <2>2. CASE u # t
    BY <1>8, <2>2, FitsStays
  <2> QED BY <2>1, <2>2
<1>9. ASSUME NEW h \in HoldIds, Elapse(h), UNCHANGED dayVars PROVE Checked(t)'
  <2>1. /\ journals' = journals /\ postings' = postings /\ raw' = raw /\ owner' = owner
        /\ mine' = [u \in Txs |-> IF owner[<<"hold", h>>] = u
                                  THEN [mine[u] EXCEPT !.holds[h].due = TRUE] ELSE mine[u]]
    BY <1>9 DEF Elapse, FallDue
  <2>2. /\ mine'[t].journals = mine[t].journals /\ mine'[t].postings = mine[t].postings
        /\ mine'[t].raw = mine[t].raw
    <3>1. mine'[t] = mine[t] \/ mine'[t] = [mine[t] EXCEPT !.holds[h].due = TRUE]
      BY <2>1
    <3> QED BY <1>1, <3>1 DEF Copies
  <2> QED BY <1>1, <1>9, <2>1, <2>2, QuietFits DEF dayVars
<1>10. CASE Midnight
  BY <1>1, <1>2, <1>10 DEF Midnight, allVars, txVars
<1>11. CASE UNCHANGED walletVars
  BY <1>1, <1>2, <1>11 DEF walletVars, allVars, txVars, dayVars
<1> QED BY <1>3, <1>4, <1>5, <1>6, <1>7, <1>8, <1>9, <1>10, <1>11 DEF WalletNext

-----------------------------------------------------------------------------
(* What is committed                                                       *)

LEMMA DaysAre ==
  DaysFit <=> /\ \A w \in Wallets : /\ Moved(LoadedNow[w]) <= DailyLoadLimit[w]
                                    /\ Moved(MadeNow[w]) <= DailyWithdrawalLimit[w]
              /\ \A c \in Parties : /\ Moved(AllOf(LoadedNow, c)) <= MaxCustomerDailyLoad
                                    /\ Moved(AllOf(MadeNow, c)) <= MaxCustomerDailyWithdrawal
                                    /\ Cardinality(AllOf(MadeNow, c)) <= MaxCustomerDailyWithdrawals
BY DEF DaysFit, LoadedNow, MadeNow

\* Fewer rows are within the limits that more are within.
LEMMA FewerFit ==
  ASSUME NEW n \in Nat, NEW R \in SUBSET PostingRows, IsFiniteSet(R), NEW T, T \subseteq R
  PROVE  /\ Moved(R) <= n => Moved(T) <= n
         /\ Cardinality(R) <= n => Cardinality(T) <= n
<1>1. T \in SUBSET R
  OBVIOUS
<1> QED BY <1>1, MovedFewer

LEMMA FewerOfAllFit ==
  ASSUME NEW n \in Nat, NEW c, NEW X \in SUBSET PostingRows, IsFiniteSet(X), NEW f, NEW g,
         \A w \in WalletsOf(c) : f[w] \subseteq g[w] /\ g[w] \subseteq X
  PROVE  /\ Moved(AllOf(g, c)) <= n => Moved(AllOf(f, c)) <= n
         /\ Cardinality(AllOf(g, c)) <= n => Cardinality(AllOf(f, c)) <= n
BY AllOfFewer

\* What is committed is within the limits when it was before, and when what
\* its transaction checked was.
LEMMA CommittedFits ==
  ASSUME OneCallEach, TxInv, Dates, NEW u \in Txs, CommitOperation(u), Checked(u), DaysFit
  PROVE  DaysFit'
<1> DEFINE w0 == Rule[u].wallet
           c0 == OwnerOf[w0]
           X == RowsIn(u)
           before == LoadedNow
           after == LoadedNow'
           checked == LoadedIn(u)
           wasMade == MadeNow
           isMade == MadeNow'
           checkedMade == MadeIn(u)
           loading(w) == Checks(u, w) /\ Rule[u].loads /\ mine[u].journals # {}
           making(w) == Rule[u].kind = "withdrawal" /\ Rule[u].wallet = w /\ mine[u].journals # {}
<1>1. /\ postings \in SUBSET PostingRows /\ IsFiniteSet(postings)
      /\ \A w \in Wallets : before[w] \subseteq postings /\ wasMade[w] \subseteq postings
      /\ mine[u].journals # {} =>
            /\ X \in SUBSET PostingRows /\ IsFiniteSet(X)
            /\ \A w \in Wallets : checked[w] \subseteq X /\ checkedMade[w] \subseteq X
  BY CountedRows
<1>2. \A w \in Wallets : after[w] \subseteq checked[w] /\ (loading(w) \/ after[w] \subseteq before[w])
  BY CommittedLoads
<1>3. \A w \in Wallets : isMade[w] \subseteq checkedMade[w] /\ (making(w) \/ isMade[w] \subseteq wasMade[w])
  BY CommittedWithdrawals
<1>4. /\ \A w \in Wallets : DailyLoadLimit[w] \in Nat /\ DailyWithdrawalLimit[w] \in Nat
      /\ MaxCustomerDailyLoad \in Nat /\ MaxCustomerDailyWithdrawal \in Nat
      /\ MaxCustomerDailyWithdrawals \in Nat
  BY WalletAssumption
<1>5. /\ \A w \in Wallets : /\ Moved(before[w]) <= DailyLoadLimit[w]
                            /\ Moved(wasMade[w]) <= DailyWithdrawalLimit[w]
      /\ \A c \in Parties : /\ Moved(AllOf(before, c)) <= MaxCustomerDailyLoad
                            /\ Moved(AllOf(wasMade, c)) <= MaxCustomerDailyWithdrawal
                            /\ Cardinality(AllOf(wasMade, c)) <= MaxCustomerDailyWithdrawals
  BY DaysAre
<1>6. \A w : loading(w) => /\ w = w0 /\ mine[u].journals # {}
                           /\ Moved(checked[w0]) <= DailyLoadLimit[w0]
                           /\ Moved(AllOf(checked, c0)) <= MaxCustomerDailyLoad
  BY DEF Checked, Fits, Checks
<1>7. \A w : making(w) => /\ w = w0 /\ mine[u].journals # {}
                          /\ Moved(checkedMade[w0]) <= DailyWithdrawalLimit[w0]
                          /\ Moved(AllOf(checkedMade, c0)) <= MaxCustomerDailyWithdrawal
                          /\ Cardinality(AllOf(checkedMade, c0)) <= MaxCustomerDailyWithdrawals
  BY DEF Checked, Fits
<1>8. DaysFit' <=> /\ \A w \in Wallets : /\ Moved(after[w]) <= DailyLoadLimit[w]
                                         /\ Moved(isMade[w]) <= DailyWithdrawalLimit[w]
                   /\ \A c \in Parties : /\ Moved(AllOf(after, c)) <= MaxCustomerDailyLoad
                                         /\ Moved(AllOf(isMade, c)) <= MaxCustomerDailyWithdrawal
                                         /\ Cardinality(AllOf(isMade, c)) <= MaxCustomerDailyWithdrawals
  BY DEF DaysFit, LoadedNow, MadeNow, AllOf, WalletsOf
<1> HIDE DEF before, after, checked, wasMade, isMade, checkedMade, loading, making, w0, c0, X
<1>9. ASSUME NEW w \in Wallets PROVE Moved(after[w]) <= DailyLoadLimit[w]
  <2>1. CASE loading(w)
    <3>1. checked[w] \in SUBSET PostingRows /\ IsFiniteSet(checked[w])
      BY <1>1, <1>6, <2>1, FS_Subset
    <3> QED BY <1>2, <1>4, <1>6, <2>1, <3>1, FewerFit
  <2>2. CASE ~ loading(w)
    <3>1. before[w] \in SUBSET PostingRows /\ IsFiniteSet(before[w])
      BY <1>1, FS_Subset
    <3> QED BY <1>2, <1>4, <1>5, <2>2, <3>1, FewerFit
  <2> QED BY <2>1, <2>2
<1>10. ASSUME NEW w \in Wallets PROVE Moved(isMade[w]) <= DailyWithdrawalLimit[w]
  <2>1. CASE making(w)
    <3>1. checkedMade[w] \in SUBSET PostingRows /\ IsFiniteSet(checkedMade[w])
      BY <1>1, <1>7, <2>1, FS_Subset
    <3> QED BY <1>3, <1>4, <1>7, <2>1, <3>1, FewerFit
  <2>2. CASE ~ making(w)
    <3>1. wasMade[w] \in SUBSET PostingRows /\ IsFiniteSet(wasMade[w])
      BY <1>1, FS_Subset
    <3> QED BY <1>3, <1>4, <1>5, <2>2, <3>1, FewerFit
  <2> QED BY <2>1, <2>2
<1>11. ASSUME NEW c \in Parties PROVE Moved(AllOf(after, c)) <= MaxCustomerDailyLoad
  <2>1. \A w \in WalletsOf(c) : w \in Wallets /\ OwnerOf[w] = c
    BY DEF WalletsOf
  <2>2. CASE \E w \in WalletsOf(c) : loading(w)
    <3>1. c = c0 /\ X \in SUBSET PostingRows /\ IsFiniteSet(X)
          /\ Moved(AllOf(checked, c0)) <= MaxCustomerDailyLoad
      BY <1>1, <1>6, <2>1, <2>2 DEF c0
    <3>2. \A w \in WalletsOf(c) : after[w] \subseteq checked[w] /\ checked[w] \subseteq X
      BY <1>1, <1>2, <1>6, <2>1, <2>2
    <3> QED BY <1>4, <3>1, <3>2, FewerOfAllFit
  <2>3. CASE ~ \E w \in WalletsOf(c) : loading(w)
    <3>1. \A w \in WalletsOf(c) : after[w] \subseteq before[w] /\ before[w] \subseteq postings
      BY <1>1, <1>2, <2>1, <2>3
    <3> QED BY <1>1, <1>4, <1>5, <3>1, FewerOfAllFit
  <2> QED BY <2>2, <2>3
<1>12. ASSUME NEW c \in Parties
       PROVE  /\ Moved(AllOf(isMade, c)) <= MaxCustomerDailyWithdrawal
              /\ Cardinality(AllOf(isMade, c)) <= MaxCustomerDailyWithdrawals
  <2>1. \A w \in WalletsOf(c) : w \in Wallets /\ OwnerOf[w] = c
    BY DEF WalletsOf
  <2>2. CASE \E w \in WalletsOf(c) : making(w)
    <3>1. c = c0 /\ X \in SUBSET PostingRows /\ IsFiniteSet(X)
          /\ Moved(AllOf(checkedMade, c0)) <= MaxCustomerDailyWithdrawal
          /\ Cardinality(AllOf(checkedMade, c0)) <= MaxCustomerDailyWithdrawals
      BY <1>1, <1>7, <2>1, <2>2 DEF c0
    <3>2. \A w \in WalletsOf(c) : isMade[w] \subseteq checkedMade[w] /\ checkedMade[w] \subseteq X
      BY <1>1, <1>3, <1>7, <2>1, <2>2
    <3> QED BY <1>4, <3>1, <3>2, FewerOfAllFit
  <2>3. CASE ~ \E w \in WalletsOf(c) : making(w)
    <3>1. \A w \in WalletsOf(c) : isMade[w] \subseteq wasMade[w] /\ wasMade[w] \subseteq postings
      BY <1>1, <1>3, <2>1, <2>3
    <3> QED BY <1>1, <1>4, <1>5, <3>1, FewerOfAllFit
  <2> QED BY <2>2, <2>3
<1> QED BY <1>8, <1>9, <1>10, <1>11, <1>12

LEMMA ExcessAre ==
  ASSUME OneCallEach, TxInv
  PROVE  ExcessIsReturned <=> /\ \A w \in Wallets : PaidIn[w] <= MaxBalance[w]
                              /\ \A c \in Parties : SumOver(PaidIn, c) <= MaxCustomerBalance
<1>1. \A w \in Wallets : MaxBalance[w] \in Nat
  BY WalletAssumption
<1>2. \A w \in Wallets : - raw[w] <= MaxBalance[w] + Returned(w) <=> PaidIn[w] <= MaxBalance[w]
  BY <1>1, PaidInType
<1> QED BY <1>2 DEF ExcessIsReturned

LEMMA CommittedBalances ==
  ASSUME OneCallEach, TxInv, Dates, NEW u \in Txs, CommitOperation(u), Checked(u), ExcessIsReturned
  PROVE  ExcessIsReturned'
<1> DEFINE w0 == Rule[u].wallet
           c0 == OwnerOf[w0]
           before == PaidIn
           after == PaidIn'
           checked == PaidInBy(u)
           paying(w) == Checks(u, w) /\ mine[u].journals # {}
<1>1. \A w \in Wallets : /\ before[w] \in Int /\ after[w] \in Int /\ checked[w] \in Int
                         /\ after[w] <= checked[w] /\ (paying(w) \/ after[w] <= before[w])
  BY CommittedReturns
<1>2. MaxCustomerBalance \in Nat /\ \A w \in Wallets : MaxBalance[w] \in Nat
  BY WalletAssumption
<1>3. /\ \A w \in Wallets : before[w] <= MaxBalance[w]
      /\ \A c \in Parties : SumOver(before, c) <= MaxCustomerBalance
  BY ExcessAre
<1>4. \A w : paying(w) => /\ w = w0 /\ checked[w0] <= MaxBalance[w0]
                          /\ SumOver(checked, c0) <= MaxCustomerBalance
  BY DEF Checked, Fits, Checks
<1>5. /\ \A w \in Wallets : raw'[w] \in Int /\ Returned(w)' \in Nat /\ after[w] = - raw'[w] - Returned(w)'
      /\ ExcessIsReturned' <=> /\ \A w \in Wallets : - raw'[w] <= MaxBalance[w] + Returned(w)'
                               /\ \A c \in Parties : SumOver(after, c) <= MaxCustomerBalance
  <2>1. \A w \in Wallets : Returned(w)' \in Nat /\ after[w] = - raw'[w] - Returned(w)'
    BY CommittedReturns DEF PaidIn
  <2>2. \A w \in Wallets : raw'[w] \in Int
    <3>1. TxInv'
      BY CommitIs
    <3> QED BY <3>1, WalletAssumption DEF TxInv, IInv, TypeOK
  <2>3. ExcessIsReturned' <=> /\ \A w \in Wallets : - raw'[w] <= MaxBalance[w] + Returned(w)'
                              /\ \A c \in Parties : SumOver(after, c) <= MaxCustomerBalance
    BY DEF ExcessIsReturned, SumOver, WalletsOf
  <2> QED BY <2>1, <2>2, <2>3
<1> HIDE DEF before, after, checked, paying, w0, c0
<1>6. ASSUME NEW w \in Wallets PROVE - raw'[w] <= MaxBalance[w] + Returned(w)'
  <2>1. after[w] <= MaxBalance[w]
    BY <1>1, <1>2, <1>3, <1>4
  <2> QED BY <1>2, <1>5, <2>1
<1>7. ASSUME NEW c \in Parties PROVE SumOver(after, c) <= MaxCustomerBalance
  <2>1. \A w \in WalletsOf(c) : w \in Wallets /\ OwnerOf[w] = c
    BY DEF WalletsOf
  <2>2. CASE \E w \in WalletsOf(c) : paying(w)
    <3>1. c = c0 /\ SumOver(checked, c) <= MaxCustomerBalance
      BY <1>4, <2>1, <2>2 DEF c0
    <3>2. SumOver(after, c) \in Int /\ SumOver(checked, c) \in Int /\ SumOver(after, c) <= SumOver(checked, c)
      BY <1>1, <2>1, SumOverSmaller
    <3> QED BY <1>2, <3>1, <3>2
  <2>3. CASE ~ \E w \in WalletsOf(c) : paying(w)
    <3>1. SumOver(after, c) \in Int /\ SumOver(before, c) \in Int /\ SumOver(after, c) <= SumOver(before, c)
      BY <1>1, <2>1, <2>3, SumOverSmaller
    <3> QED BY <1>2, <1>3, <3>1
  <2> QED BY <2>2, <2>3
<1> QED BY <1>5, <1>6, <1>7

\* The next day begins with nothing loaded or withdrawn; the rest of what is
\* committed only a commit changes.
LEMMA QuietDays ==
  ASSUME OneCallEach, TxInv, Dates, Dates', DaysFit, ExcessIsReturned, today <= today',
         journals' = journals, postings' = postings, raw' = raw, dated' = dated
  PROVE  DaysFit' /\ ExcessIsReturned'
<1> DEFINE X == postings
           before == LoadedNow
           after == LoadedNow'
           wasMade == MadeNow
           isMade == MadeNow'
<1>1. /\ X \in SUBSET PostingRows /\ IsFiniteSet(X)
      /\ \A w \in Wallets : before[w] \subseteq X /\ wasMade[w] \subseteq X
  BY CountedRows
<1>2. \A p \in postings : p[1] \in JournalIds
  BY RowsTyped
<1>3. \A p \in postings : dated[p[1]] >= today' => dated[p[1]] >= today
  BY <1>2 DEF Dates
<1>4. \A w \in Wallets : after[w] \subseteq before[w] /\ isMade[w] \subseteq wasMade[w]
  BY <1>3 DEF LoadedNow, MadeNow, Loaded, Withdrawn, Credits, Debits, On
<1>5. /\ \A w \in Wallets : DailyLoadLimit[w] \in Nat /\ DailyWithdrawalLimit[w] \in Nat
      /\ MaxCustomerDailyLoad \in Nat /\ MaxCustomerDailyWithdrawal \in Nat
      /\ MaxCustomerDailyWithdrawals \in Nat
  BY WalletAssumption
<1>6. /\ \A w \in Wallets : /\ Moved(before[w]) <= DailyLoadLimit[w]
                            /\ Moved(wasMade[w]) <= DailyWithdrawalLimit[w]
      /\ \A c \in Parties : /\ Moved(AllOf(before, c)) <= MaxCustomerDailyLoad
                            /\ Moved(AllOf(wasMade, c)) <= MaxCustomerDailyWithdrawal
                            /\ Cardinality(AllOf(wasMade, c)) <= MaxCustomerDailyWithdrawals
  BY DaysAre
<1>7. DaysFit' <=> /\ \A w \in Wallets : /\ Moved(after[w]) <= DailyLoadLimit[w]
                                         /\ Moved(isMade[w]) <= DailyWithdrawalLimit[w]
                   /\ \A c \in Parties : /\ Moved(AllOf(after, c)) <= MaxCustomerDailyLoad
                                         /\ Moved(AllOf(isMade, c)) <= MaxCustomerDailyWithdrawal
                                         /\ Cardinality(AllOf(isMade, c)) <= MaxCustomerDailyWithdrawals
  BY DEF DaysFit, LoadedNow, MadeNow, AllOf, WalletsOf
<1>8. ExcessIsReturned'
  <2>1. \A w \in Wallets : Returned(w)' = Returned(w)
    BY DEF Returned, ReturnedRows, Returning, Work, Checks, Credited, On, Credits
  <2>2. PaidIn' = PaidIn
    BY <2>1 DEF PaidIn
  <2>3. \A c \in Parties : SumOver(PaidIn', c) <= MaxCustomerBalance
    BY <2>2 DEF ExcessIsReturned
  <2>4. ExcessIsReturned' <=> /\ \A w \in Wallets : - raw'[w] <= MaxBalance[w] + Returned(w)'
                              /\ \A c \in Parties : SumOver(PaidIn', c) <= MaxCustomerBalance
    BY DEF ExcessIsReturned, SumOver, WalletsOf
  <2> QED BY <2>1, <2>3, <2>4 DEF ExcessIsReturned
<1> HIDE DEF X, before, after, wasMade, isMade
<1>9. ASSUME NEW w \in Wallets
      PROVE  Moved(after[w]) <= DailyLoadLimit[w] /\ Moved(isMade[w]) <= DailyWithdrawalLimit[w]
  <2>1. /\ before[w] \in SUBSET PostingRows /\ IsFiniteSet(before[w])
        /\ wasMade[w] \in SUBSET PostingRows /\ IsFiniteSet(wasMade[w])
    BY <1>1, FS_Subset
  <2>2. Moved(after[w]) <= DailyLoadLimit[w]
    BY <1>4, <1>5, <1>6, <2>1, FewerFit
  <2>3. Moved(isMade[w]) <= DailyWithdrawalLimit[w]
    BY <1>4, <1>5, <1>6, <2>1, FewerFit
  <2> QED BY <2>2, <2>3
<1>10. ASSUME NEW c \in Parties
       PROVE  /\ Moved(AllOf(after, c)) <= MaxCustomerDailyLoad
              /\ Moved(AllOf(isMade, c)) <= MaxCustomerDailyWithdrawal
              /\ Cardinality(AllOf(isMade, c)) <= MaxCustomerDailyWithdrawals
  <2>1. \A w \in WalletsOf(c) : w \in Wallets
    BY DEF WalletsOf
  <2>2. \A w \in WalletsOf(c) : after[w] \subseteq before[w] /\ before[w] \subseteq X
    BY <1>1, <1>4, <2>1
  <2>3. \A w \in WalletsOf(c) : isMade[w] \subseteq wasMade[w] /\ wasMade[w] \subseteq X
    BY <1>1, <1>4, <2>1
  <2>4. Moved(AllOf(after, c)) <= MaxCustomerDailyLoad
    BY <1>1, <1>5, <1>6, <2>2, FewerOfAllFit
  <2>5. /\ Moved(AllOf(isMade, c)) <= MaxCustomerDailyWithdrawal
        /\ Cardinality(AllOf(isMade, c)) <= MaxCustomerDailyWithdrawals
    BY <1>1, <1>5, <1>6, <2>3, FewerOfAllFit
  <2> QED BY <2>4, <2>5
<1> QED BY <1>7, <1>8, <1>9, <1>10

-----------------------------------------------------------------------------
\* The invariant: what is committed is within the limits, and so is what each
\* transaction that has passed its check would commit.
LimitsInv ==
    /\ TxInv
    /\ Dates
    /\ ExcessIsReturned
    /\ DaysFit
    /\ \A t \in Txs : Checked(t)

LEMMA LimitsInitInv == ASSUME OneCallEach PROVE WalletInit => LimitsInv
<1> SUFFICES ASSUME WalletInit PROVE LimitsInv
  OBVIOUS
<1>1. TxInv
  BY TxInitInv DEF WalletInit
<1>2. Dates
  BY WalletAssumption DEF WalletInit, Dates
<1>3. postings = {} /\ raw = [a \in Accounts |-> 0] /\ \A t \in Txs : mine[t].journals = {}
  BY DEF WalletInit, TxInit, Init, Blank
<1>4. \A t \in Txs : Checked(t)
  BY <1>3 DEF Checked
<1>5. Moved({}) = 0 /\ Cardinality({}) = 0
  BY TotalEmpty, FS_EmptySet DEF Moved
<1>6. /\ MaxBalance \in [Wallets -> Nat] /\ DailyLoadLimit \in [Wallets -> Nat]
      /\ DailyWithdrawalLimit \in [Wallets -> Nat]
      /\ MaxCustomerBalance \in Nat /\ MaxCustomerDailyLoad \in Nat
      /\ MaxCustomerDailyWithdrawal \in Nat /\ MaxCustomerDailyWithdrawals \in Nat
  BY WalletAssumption
<1>7. DaysFit
  <2>1. \A w \in Wallets : LoadedNow[w] = {} /\ MadeNow[w] = {}
    BY <1>3 DEF LoadedNow, MadeNow, Loaded, Withdrawn, Credits, Debits, On
  <2>2. \A c : AllOf(LoadedNow, c) = {} /\ AllOf(MadeNow, c) = {}
    BY <2>1 DEF AllOf, WalletsOf
  <2>3. \A w \in Wallets : Moved(LoadedNow[w]) <= DailyLoadLimit[w] /\ Moved(MadeNow[w]) <= DailyWithdrawalLimit[w]
    BY <1>5, <1>6, <2>1
  <2>4. \A c \in Parties : /\ Moved(AllOf(LoadedNow, c)) <= MaxCustomerDailyLoad
                           /\ Moved(AllOf(MadeNow, c)) <= MaxCustomerDailyWithdrawal
                           /\ Cardinality(AllOf(MadeNow, c)) <= MaxCustomerDailyWithdrawals
    BY <1>5, <1>6, <2>2
  <2> QED BY <2>3, <2>4, DaysAre
<1>8. ExcessIsReturned
  <2>1. \A w \in Wallets : Returned(w) = 0 /\ raw[w] = 0
    <3>1. \A w : ReturnedRows(w) = {}
      BY <1>3 DEF ReturnedRows, Credits, On
    <3> QED BY <1>3, <1>5, <3>1, WalletAssumption DEF Returned
  <2>2. \A w \in Wallets : PaidIn[w] = 0
    BY <2>1 DEF PaidIn
  <2>3. \A c : SumOver(PaidIn, c) = 0
    <3>1. \A c : \A w \in WalletsOf(c) : PaidIn[w] = 0
      BY <2>2 DEF WalletsOf
    <3> QED BY <3>1, SignedTotalZero DEF SumOver
  <2> QED BY <1>6, <2>1, <2>3 DEF ExcessIsReturned
<1> QED BY <1>1, <1>2, <1>4, <1>7, <1>8 DEF LimitsInv

LEMMA LimitsNextInv ==
  ASSUME OneCallEach, LimitsInv, [WalletNext]_walletVars
  PROVE  LimitsInv'
<1>1. TxInv /\ Dates /\ ExcessIsReturned /\ DaysFit /\ \A t \in Txs : Checked(t)
  BY DEF LimitsInv
<1>2. TxInv'
  BY <1>1, WalletSteps, TxNextInv
<1>3. Dates' /\ today <= today'
  <2>1. ASSUME UNCHANGED dayVars PROVE Dates' /\ today <= today'
    BY <1>1, <2>1 DEF Dates, dayVars
  <2>2. ASSUME NEW t \in Txs, BeginOperation(t) PROVE Dates' /\ today <= today'
    BY <1>1, <2>2 DEF BeginOperation, Dates
  <2>3. ASSUME NEW t \in Txs, CommitOperation(t) PROVE Dates' /\ today <= today'
    BY <1>1, <2>3 DEF CommitOperation, Dates
  <2>4. ASSUME Midnight PROVE Dates' /\ today <= today'
    BY <1>1, <2>4 DEF Midnight, Dates
  <2> QED BY <2>1, <2>2, <2>3, <2>4 DEF WalletNext, ExecuteChecked, walletVars
<1>4. \A t \in Txs : Checked(t)'
  BY <1>1, <1>3, CheckedNext
<1>5. DaysFit' /\ ExcessIsReturned'
  <2>1. CASE \E u \in Txs : CommitOperation(u)
    BY <1>1, <2>1, CommittedFits, CommittedBalances
  <2>2. CASE ~ \E u \in Txs : CommitOperation(u)
    <3>1. journals' = journals /\ postings' = postings /\ raw' = raw /\ dated' = dated
      BY <2>2 DEF WalletNext, walletVars, allVars, vars, txVars, dayVars, BeginOperation, Begin,
                  ExecuteChecked, Execute, Refer, Acquire, Skip, Abort, Elapse, FallDue, Midnight
    <3> QED BY <1>1, <1>3, <3>1, QuietDays
  <2> QED BY <2>1, <2>2
<1> QED BY <1>2, <1>3, <1>4, <1>5 DEF LimitsInv

\* checkDailyLimits and the daily half of checkLimitsAfterPosting and
\* checkCustomerLimits: today's loads and withdrawals of every wallet and every
\* customer are within their limits at every moment, whatever runs beside what:
\* a check sees what its transaction would commit, and the customer's row keeps
\* the others' checks away until it has.
THEOREM DailyLimitsKept == ASSUME OneCallEach PROVE WalletSpec => []DaysFit
<1>1. WalletInit => LimitsInv
  BY LimitsInitInv
<1>2. LimitsInv /\ [WalletNext]_walletVars => LimitsInv'
  BY LimitsNextInv
<1>3. LimitsInv => DaysFit
  BY DEF LimitsInv
<1> QED BY <1>1, <1>2, <1>3, PTL DEF WalletSpec

\* checkLimitsAfterPosting and checkCustomerLimits, the balances: a wallet, or
\* the wallets of a customer, hold more than their limits only by money that
\* came back to them unchecked (returnFunds of a withdrawal, a refund), never
\* by what topups, grants and transfers add.
THEOREM ExcessOnlyReturned == ASSUME OneCallEach PROVE WalletSpec => []ExcessIsReturned
<1>1. WalletInit => LimitsInv
  BY LimitsInitInv
<1>2. LimitsInv /\ [WalletNext]_walletVars => LimitsInv'
  BY LimitsNextInv
<1>3. LimitsInv => ExcessIsReturned
  BY DEF LimitsInv
<1> QED BY <1>1, <1>2, <1>3, PTL DEF WalletSpec

\* Nothing that came back to a wallet is on it.
NothingReturned == \A w \in Wallets : ReturnedRows(w) = {}

\* checkLimitsAfterPosting, checkCustomerLimits and checkDailyLimits: until
\* money comes back unchecked, every limit of every wallet and customer holds,
\* however many operations run beside each other.
THEOREM LimitsAreKept == ASSUME OneCallEach PROVE WalletSpec => [](NothingReturned => LimitsHold)
<1>1. WalletInit => LimitsInv
  BY LimitsInitInv
<1>2. LimitsInv /\ [WalletNext]_walletVars => LimitsInv'
  BY LimitsNextInv
<1>3. LimitsInv => (NothingReturned => LimitsHold)
  <2> SUFFICES ASSUME LimitsInv, NothingReturned PROVE LimitsHold
    OBVIOUS
  <2>1. TxInv /\ DaysFit /\ ExcessIsReturned
    BY DEF LimitsInv
  <2>2. Moved({}) = 0
    BY TotalEmpty DEF Moved
  <2>3. \A w \in Wallets : Returned(w) = 0
    BY <2>2 DEF NothingReturned, Returned
  <2>4. \A w \in Wallets : PaidIn[w] = - raw[w] /\ PaidIn[w] <= MaxBalance[w]
    BY <2>1, <2>3, PaidInType, ExcessAre
  <2>5. PaidIn = [w \in Wallets |-> - raw[w]]
    BY <2>4 DEF PaidIn
  <2>6. BalancesFit
    BY <2>1, <2>4, <2>5 DEF BalancesFit, ExcessIsReturned
  <2> QED BY <2>1, <2>6 DEF LimitsHold
<1> QED BY <1>1, <1>2, <1>3, PTL DEF WalletSpec
=============================================================================
