----------------------------- MODULE OrderProofs -----------------------------
(***************************************************************************)
(* That each wallet pays its share of an order once, that what is held for *)
(* an order is there to be captured, and that an order, its holds and its  *)
(* card payment never disagree, for any orders, wallets and limits.        *)
(*                                                                         *)
(* A step moves one order.  What the holds on a wallet add up to changes   *)
(* by that order's share and nothing else (ReservedMoves), so each action  *)
(* only has to say what becomes of its own order.                          *)
(***************************************************************************)
EXTENDS Order, AmountTheorems

HoldStatus == {"absent", "active", "captured", "released", "expired"}

OrderRow == [status : {"absent", "pending_payment"} \cup Over,
             share : [Wallets -> Nat], card : Nat,
             tender : {"none", "held", "captured", "released"},
             payment : {"none", "open", "ended", "captured"}]

\* What the holds h reserve on w, if f says the orders' shares.
Active(h, w) == {o \in Orders : h[o][w] = "active"}
Reserved(f, h, w) == Total([o \in Active(h, w) |-> f[o].share[w]], Active(h, w))

\* What w paid of the orders in S.
PaidOf(f, S, w) == Total([o \in S |-> f[o].share[w]], S)

\* What a capture in progress has read of an order it holds the lock of: the
\* holds can only have gone away since.
ReadFits(read, o) ==
    read.reading =>
        /\ orders[o].payment \in {"open", "ended"}
        /\ \A w \in Wallets : holds[o][w] = "active" => w \in read.active

\* What is true of an order whatever the others do.
Fits(o) ==
    LET order == orders[o]
    IN  /\ \A w \in Wallets : holds[o][w] = "active" =>
              order.status = "pending_payment" /\ order.share[w] > 0
        /\ order.status = "absent" =>
              order.payment = "none" /\ order.tender = "none" /\ o \notin settled /\ o \notin owed
        /\ order.status = "pending_payment" =>
              order.payment = "open" /\ order.tender = "held" /\ o \notin settled /\ o \notin owed
        /\ order.status = "paid" =>
              order.payment \in {"none", "captured"} /\ order.tender = "captured" /\ o \in settled /\ o \notin owed
        /\ order.status \in {"failed", "cancelled"} =>
              /\ order.tender = "released" /\ o \notin settled
              /\ order.payment \in {"ended", "captured"} /\ (o \in owed <=> order.payment = "captured")
        /\ ReadFits(seen[o], o)

Created(f) == {o \in Orders : f[o].status # "absent"}

OrdInv ==
    /\ OrdTypeOK
    /\ IsFiniteSet(Created(orders))
    /\ \A o \in Orders : Fits(o)
    /\ EachPaysItsShare
    /\ HeldMoneyIsThere

-----------------------------------------------------------------------------
(* Sums                                                                    *)

LEMMA WalletsAreFinite == IsFiniteSet(Wallets)
<1>1. DrawOrder \in Seq(Wallets) /\ {DrawOrder[i] : i \in DOMAIN DrawOrder} = Wallets
    BY OrderAssumption
<1>2. Len(DrawOrder) \in Nat /\ DrawOrder \in [1 .. Len(DrawOrder) -> Wallets]
    BY <1>1
<1>3. IsFiniteSet(1 .. Len(DrawOrder))
    BY <1>2, FS_Interval
<1>4. DrawOrder \in Surjection(1 .. Len(DrawOrder), Wallets)
    <2>1. \A w \in Wallets : \E i \in 1 .. Len(DrawOrder) : DrawOrder[i] = w
        BY <1>1, <1>2
    <2> QED BY <1>2, <2>1 DEF Surjection
<1> QED BY <1>3, <1>4, FS_Surjection

\* An order that changes its shares or its hold on w.
LEMMA ReservedMoves ==
  ASSUME orders \in [Orders -> OrderRow], orders' \in [Orders -> OrderRow],
         NEW o \in Orders, NEW w \in Wallets,
         \A x \in Orders \ {o} : orders'[x] = orders[x] /\ holds'[x] = holds[x],
         IsFiniteSet(Active(holds, w))
  PROVE  Reserved(orders', holds', w) = Reserved(orders, holds, w)
           + (IF holds'[o][w] = "active" THEN orders'[o].share[w] ELSE 0)
           - (IF holds[o][w] = "active" THEN orders[o].share[w] ELSE 0)
<1> DEFINE Rest == Active(holds, w) \ {o}
           All == Rest \cup {o}
           F == [x \in All |-> orders[x].share[w]]
           G == [x \in All |-> orders'[x].share[w]]
<1>1. IsFiniteSet(Rest) /\ o \notin Rest
    BY FS_Subset
<1>2. /\ \A x \in Rest : G[x] = F[x] /\ F[x] \in Nat
      /\ F[o] = orders[o].share[w] /\ G[o] = orders'[o].share[w] /\ F[o] \in Nat /\ G[o] \in Nat
    BY DEF Active, OrderRow
<1>3. Active(holds, w) = IF holds[o][w] = "active" THEN All ELSE Rest
    BY DEF Active
<1>4. Active(holds', w) = IF holds'[o][w] = "active" THEN All ELSE Rest
    BY DEF Active
<1>5. Reserved(orders, holds, w) = Total(F, Active(holds, w)) /\ Reserved(orders', holds', w) = Total(G, Active(holds', w))
    <2>1. Active(holds, w) \subseteq All /\ Active(holds', w) \subseteq All
        BY <1>3, <1>4
    <2>2. Reserved(orders, holds, w) = Total(F, Active(holds, w))
        BY <2>1, TotalCongruence DEF Reserved
    <2>3. Reserved(orders', holds', w) = Total(G, Active(holds', w))
        BY <2>1, TotalCongruence DEF Reserved
    <2> QED BY <2>2, <2>3
<1> HIDE DEF Rest, F, G
<1>6. Total(F, Rest) \in Nat /\ Total(G, Rest) = Total(F, Rest) /\ Total(G, All) = Total(F, Rest) + G[o]
    <2>1. Total(F, Rest) \in Nat
        BY <1>1, <1>2, TotalType
    <2>2. Total(G, Rest) = Total(F, Rest)
        BY <1>2, TotalCongruence
    <2>3. \A x \in Rest \cup {o} : G[x] \in Nat
        BY <1>2
    <2>4. Total(G, Rest \cup {o}) = Total(G, Rest) + G[o]
        BY <1>1, <2>3, TotalAdd
    <2> QED BY <2>1, <2>2, <2>4
<1>7. Total(F, All) = Total(F, Rest) + F[o]
    <2>1. \A x \in Rest \cup {o} : F[x] \in Nat
        BY <1>2
    <2>2. Total(F, Rest \cup {o}) = Total(F, Rest) + F[o]
        BY <1>1, <2>1, TotalAdd
    <2> QED BY <2>2
<1> HIDE DEF All
<1>8. Total(F, Active(holds, w)) = Total(F, Rest) + (IF holds[o][w] = "active" THEN F[o] ELSE 0)
    <2>1. CASE holds[o][w] = "active"
        BY <1>3, <1>7, <2>1
    <2>2. CASE holds[o][w] # "active"
        <3>1. Total(F, Active(holds, w)) = Total(F, Rest)
            BY <1>3, <2>2
        <3> QED BY <1>6, <2>2, <3>1
    <2> QED BY <2>1, <2>2
<1>9. Total(G, Active(holds', w)) = Total(F, Rest) + (IF holds'[o][w] = "active" THEN G[o] ELSE 0)
    <2>1. CASE holds'[o][w] = "active"
        BY <1>4, <1>6, <2>1
    <2>2. CASE holds'[o][w] # "active"
        <3>1. Total(G, Active(holds', w)) = Total(F, Rest)
            BY <1>4, <1>6, <2>2
        <3> QED BY <1>6, <2>2, <3>1
    <2> QED BY <2>1, <2>2
<1> QED BY <1>2, <1>5, <1>6, <1>8, <1>9

LEMMA PaidMoves ==
  ASSUME orders \in [Orders -> OrderRow], orders' \in [Orders -> OrderRow],
         NEW o \in Orders, NEW w \in Wallets, \A x \in Orders \ {o} : orders'[x] = orders[x],
         NEW S \in SUBSET Orders, IsFiniteSet(S), o \notin S
  PROVE  /\ PaidOf(orders, S, w) \in Nat
         /\ PaidOf(orders', S, w) = PaidOf(orders, S, w)
         /\ PaidOf(orders', S \cup {o}, w) = PaidOf(orders, S, w) + orders'[o].share[w]
<1> DEFINE All == S \cup {o}
           F == [x \in All |-> orders[x].share[w]]
           G == [x \in All |-> orders'[x].share[w]]
<1>1. /\ \A x \in S : G[x] = F[x] /\ F[x] \in Nat
      /\ G[o] = orders'[o].share[w] /\ G[o] \in Nat
    BY DEF OrderRow
<1>2. PaidOf(orders, S, w) = Total(F, S)
    BY TotalCongruence DEF PaidOf
<1>3. PaidOf(orders', S, w) = Total(G, S)
    BY TotalCongruence DEF PaidOf
<1>4. PaidOf(orders', All, w) = Total(G, All)
    BY DEF PaidOf
<1> HIDE DEF F, G
<1>5. Total(F, S) \in Nat /\ Total(G, S) = Total(F, S) /\ Total(G, All) = Total(F, S) + G[o]
    <2>1. Total(F, S) \in Nat
        BY <1>1, TotalType
    <2>2. Total(G, S) = Total(F, S)
        BY <1>1, TotalCongruence
    <2>3. \A x \in S \cup {o} : G[x] \in Nat
        BY <1>1
    <2>4. Total(G, S \cup {o}) = Total(G, S) + G[o]
        BY <2>3, TotalAdd
    <2> QED BY <2>1, <2>2, <2>4
<1> QED BY <1>1, <1>2, <1>3, <1>4, <1>5

-----------------------------------------------------------------------------
(* The invariant                                                           *)

LEMMA InvFacts ==
  ASSUME OrdInv
  PROVE  /\ orders \in [Orders -> OrderRow]
         /\ holds \in [Orders -> [Wallets -> HoldStatus]]
         /\ balance \in [Wallets -> Int] /\ spent \in [Wallets -> Nat]
         /\ settled \in SUBSET Orders /\ owed \in SUBSET Orders
         /\ seen \in [Orders -> [reading : BOOLEAN, active : SUBSET Wallets]]
         /\ \A o \in Orders : Fits(o)
         /\ \A w \in Wallets : balance[w] = Fund[w] - spent[w] - PaidOf(orders, settled, w)
         /\ \A w \in Wallets : balance[w] - Reserved(orders, holds, w) >= 0
BY DEF OrdInv, OrdTypeOK, OrderRow, HoldStatus, EachPaysItsShare, PaidOf, HeldMoneyIsThere, Available,
       HeldBy, Reserved, Active

LEMMA SumsAreFinite ==
  ASSUME OrdInv
  PROVE  IsFiniteSet(settled) /\ \A w \in Wallets : IsFiniteSet(Active(holds, w))
<1>1. IsFiniteSet(Created(orders))
    BY DEF OrdInv
<1>2. settled \in SUBSET Created(orders)
    BY InvFacts DEF Fits, ReadFits, Created
<1>3. \A w \in Wallets : Active(holds, w) \in SUBSET Created(orders)
    BY InvFacts DEF Fits, ReadFits, Created, Active
<1> QED BY <1>1, <1>2, <1>3, FS_Subset

LEMMA ReservedType ==
  ASSUME OrdInv, NEW w \in Wallets
  PROVE  Reserved(orders, holds, w) \in Nat
<1>1. IsFiniteSet(Active(holds, w))
    BY SumsAreFinite
<1>2. \A o \in Active(holds, w) : [x \in Active(holds, w) |-> orders[x].share[w]][o] \in Nat
    BY InvFacts DEF Active, OrderRow
<1> QED BY <1>1, <1>2, TotalType DEF Reserved

\* What a step that moves the order o, which is not settled yet, has to show.
LEMMA OrderStep ==
  ASSUME OrdInv, NEW o \in Orders, o \notin settled,
         orders' \in [Orders -> OrderRow], holds' \in [Orders -> [Wallets -> HoldStatus]],
         seen' \in [Orders -> [reading : BOOLEAN, active : SUBSET Wallets]],
         \A x \in Orders \ {o} : orders'[x] = orders[x] /\ holds'[x] = holds[x] /\ seen'[x] = seen[x],
         settled' \in {settled, settled \cup {o}}, owed' \in {owed, owed \cup {o}}, spent' = spent,
         Fits(o)',
         balance' \in [Wallets -> Int],
         \A w \in Wallets : balance'[w] = balance[w] - (IF o \in settled' THEN orders'[o].share[w] ELSE 0),
         \A w \in Wallets : balance'[w] >= Reserved(orders, holds, w)
             + (IF holds'[o][w] = "active" THEN orders'[o].share[w] ELSE 0)
             - (IF holds[o][w] = "active" THEN orders[o].share[w] ELSE 0)
  PROVE  OrdInv'
<1>1. /\ orders \in [Orders -> OrderRow] /\ holds \in [Orders -> [Wallets -> HoldStatus]]
      /\ settled \in SUBSET Orders /\ owed \in SUBSET Orders /\ spent \in [Wallets -> Nat]
      /\ balance \in [Wallets -> Int] /\ Fund \in [Wallets -> Nat]
      /\ \A x \in Orders : Fits(x)
      /\ \A w \in Wallets : balance[w] = Fund[w] - spent[w] - PaidOf(orders, settled, w)
    BY InvFacts, OrderAssumption
<1>2. OrdTypeOK'
    BY <1>1 DEF OrdTypeOK, OrderRow, HoldStatus
<1>3. IsFiniteSet(Created(orders'))
    <2>1. Created(orders') \in SUBSET (Created(orders) \cup {o})
        BY DEF Created
    <2>2. IsFiniteSet(Created(orders) \cup {o})
        BY FS_AddElement DEF OrdInv
    <2> QED BY <2>1, <2>2, FS_Subset
<1>4. ASSUME NEW x \in Orders PROVE Fits(x)'
    <2>1. CASE x = o
        BY <2>1
    <2>2. CASE x # o
        <3>1. /\ orders'[x] = orders[x] /\ holds'[x] = holds[x] /\ seen'[x] = seen[x]
              /\ x \in settled' <=> x \in settled
              /\ x \in owed' <=> x \in owed
            BY <2>2
        <3> QED BY <1>1, <3>1 DEF Fits, ReadFits
    <2> QED BY <2>1, <2>2
<1>5. ASSUME NEW w \in Wallets PROVE balance'[w] = Fund[w] - spent'[w] - PaidOf(orders', settled', w)
    <2>1. /\ PaidOf(orders, settled, w) \in Nat
          /\ PaidOf(orders', settled, w) = PaidOf(orders, settled, w)
          /\ PaidOf(orders', settled \cup {o}, w) = PaidOf(orders, settled, w) + orders'[o].share[w]
        BY <1>1, SumsAreFinite, PaidMoves
    <2>2. orders'[o].share[w] \in Nat /\ Fund[w] \in Nat /\ spent[w] \in Nat
        BY <1>1 DEF OrderRow
    <2>3. CASE settled' = settled
        BY <1>1, <2>1, <2>2, <2>3
    <2>4. CASE settled' = settled \cup {o}
        BY <1>1, <2>1, <2>2, <2>4
    <2> QED BY <2>3, <2>4
<1>6. ASSUME NEW w \in Wallets PROVE balance'[w] - Reserved(orders', holds', w) >= 0
    <2>1. Reserved(orders', holds', w) = Reserved(orders, holds, w)
             + (IF holds'[o][w] = "active" THEN orders'[o].share[w] ELSE 0)
             - (IF holds[o][w] = "active" THEN orders[o].share[w] ELSE 0)
        BY <1>1, SumsAreFinite, ReservedMoves
    <2>2. Reserved(orders, holds, w) \in Nat
        BY ReservedType
    <2>3. orders'[o].share[w] \in Nat /\ orders[o].share[w] \in Nat /\ balance'[w] \in Int
        BY <1>1 DEF OrderRow
    <2> QED BY <2>1, <2>2, <2>3
<1>7. EachPaysItsShare'
    BY <1>5 DEF EachPaysItsShare, PaidOf
<1>8. HeldMoneyIsThere'
    BY <1>6 DEF HeldMoneyIsThere, Available, HeldBy, Reserved, Active
<1> QED BY <1>2, <1>3, <1>4, <1>7, <1>8 DEF OrdInv

\* A step that moves no order.
LEMMA OthersStep ==
  ASSUME OrdInv, UNCHANGED <<orders, holds, settled, owed>>,
         seen' \in [Orders -> [reading : BOOLEAN, active : SUBSET Wallets]],
         \A o \in Orders : ReadFits(seen'[o], o),
         balance' \in [Wallets -> Int], spent' \in [Wallets -> Nat],
         \A w \in Wallets : balance'[w] + spent'[w] = balance[w] + spent[w],
         \A w \in Wallets : balance'[w] >= Reserved(orders, holds, w)
  PROVE  OrdInv'
<1>1. /\ Fund \in [Wallets -> Nat] /\ balance \in [Wallets -> Int] /\ spent \in [Wallets -> Nat]
      /\ orders \in [Orders -> OrderRow]
      /\ \A o \in Orders : Fits(o)
      /\ \A w \in Wallets : balance[w] = Fund[w] - spent[w] - PaidOf(orders, settled, w)
    BY InvFacts, OrderAssumption
<1>2. OrdTypeOK'
    BY DEF OrdInv, OrdTypeOK
<1>3. IsFiniteSet(Created(orders'))
    BY DEF OrdInv
<1>4. \A o \in Orders : Fits(o)'
    BY <1>1 DEF Fits, ReadFits
<1>5. ASSUME NEW w \in Wallets
      PROVE  balance'[w] = Fund[w] - spent'[w] - PaidOf(orders, settled, w)
    <2>1. PaidOf(orders, settled, w) \in Nat
        <3>1. \A o \in settled : [x \in settled |-> orders[x].share[w]][o] \in Nat
            BY <1>1, InvFacts DEF OrderRow
        <3> QED BY <3>1, SumsAreFinite, TotalType DEF PaidOf
    <2>2. /\ balance[w] \in Int /\ balance'[w] \in Int /\ spent[w] \in Nat /\ spent'[w] \in Nat
          /\ Fund[w] \in Nat
        BY <1>1
    <2>3. balance[w] = Fund[w] - spent[w] - PaidOf(orders, settled, w)
        BY <1>1
    <2>4. balance'[w] + spent'[w] = balance[w] + spent[w]
        OBVIOUS
    <2> DEFINE paid == PaidOf(orders, settled, w)
    <2>5. paid \in Nat /\ balance[w] = Fund[w] - spent[w] - paid
        BY <2>1, <2>3
    <2> HIDE DEF paid
    <2>6. balance'[w] = Fund[w] - spent'[w] - paid
        BY <2>2, <2>4, <2>5
    <2> QED BY <2>6 DEF paid
<1>6. EachPaysItsShare'
    BY <1>5 DEF EachPaysItsShare, PaidOf
<1>7. ASSUME NEW w \in Wallets PROVE balance'[w] - Reserved(orders, holds, w) >= 0
    BY ReservedType
<1>8. HeldMoneyIsThere'
    BY <1>7 DEF HeldMoneyIsThere, Available, HeldBy, Reserved, Active
<1> QED BY <1>2, <1>3, <1>4, <1>6, <1>8 DEF OrdInv

LEMMA InitIsSound == OrdInit => OrdInv
<1> SUFFICES ASSUME OrdInit PROVE OrdInv
    OBVIOUS
<1> DEFINE row == [status |-> "absent", share |-> [w \in Wallets |-> 0], card |-> 0,
                   tender |-> "none", payment |-> "none"]
<1>1. row \in OrderRow /\ row.status = "absent"
    BY DEF OrderRow
<1>2. /\ orders = [o \in Orders |-> row] /\ holds = [o \in Orders |-> [w \in Wallets |-> "absent"]]
      /\ balance = Fund /\ spent = [w \in Wallets |-> 0] /\ settled = {} /\ owed = {}
      /\ seen = [o \in Orders |-> NotReading]
    BY DEF OrdInit
<1>3. OrdTypeOK
    BY <1>1, <1>2, OrderAssumption DEF OrdTypeOK, OrderRow, NotReading
<1>4. Created(orders) = {}
    BY <1>1, <1>2 DEF Created
<1>5. IsFiniteSet(Created(orders))
    BY <1>4, FS_EmptySet
<1>6. \A o \in Orders : Fits(o)
    BY <1>2 DEF Fits, ReadFits, NotReading
<1>7. EachPaysItsShare
    <2>1. ASSUME NEW w \in Wallets
          PROVE  balance[w] = Fund[w] - spent[w] - Total([o \in settled |-> orders[o].share[w]], settled)
        <3>1. Total([o \in {} |-> orders[o].share[w]], {}) = 0
            BY TotalEmpty
        <3>2. Total([o \in settled |-> orders[o].share[w]], settled) = 0
            BY <1>2, <3>1
        <3>3. Fund[w] \in Nat
            BY OrderAssumption
        <3> QED BY <1>2, <3>2, <3>3
    <2> QED BY <2>1 DEF EachPaysItsShare
<1>8. HeldMoneyIsThere
    <2>1. ASSUME NEW w \in Wallets PROVE balance[w] - Reserved(orders, holds, w) >= 0
        <3>1. Active(holds, w) = {}
            BY <1>2 DEF Active
        <3>2. Reserved(orders, holds, w) = Total([o \in {} |-> orders[o].share[w]], {})
            BY <3>1 DEF Reserved
        <3>3. Reserved(orders, holds, w) = 0
            BY <3>2, TotalEmpty
        <3>4. Fund[w] \in Nat
            BY OrderAssumption
        <3> QED BY <1>2, <3>3, <3>4
    <2> QED BY <2>1 DEF HeldMoneyIsThere, Available, HeldBy, Reserved, Active
<1> QED BY <1>3, <1>5, <1>6, <1>7, <1>8 DEF OrdInv

LEMMA CreateStep ==
  ASSUME OrdInv, NEW o \in Orders, NEW plan \in [Wallets -> Nat], Create(o, plan)
  PROVE  OrdInv'
<1> DEFINE card == Price[o] - SumShares(plan)
           row(status, tender, payment) == [status |-> status, share |-> plan, card |-> card,
                                            tender |-> tender, payment |-> payment]
           hold(status) == [w \in Wallets |-> IF plan[w] > 0 THEN status ELSE "absent"]
<1>1. /\ orders \in [Orders -> OrderRow] /\ holds \in [Orders -> [Wallets -> HoldStatus]]
      /\ balance \in [Wallets -> Int]
      /\ seen \in [Orders -> [reading : BOOLEAN, active : SUBSET Wallets]]
      /\ \A w \in Wallets : balance[w] - Reserved(orders, holds, w) >= 0
    BY InvFacts
<1>2. /\ orders[o].status = "absent" /\ UNCHANGED <<spent, owed, seen>>
      /\ SumShares(plan) <= Price[o]
      /\ \A w \in Wallets : plan[w] > 0 => balance[w] - Reserved(orders, holds, w) >= plan[w]
    BY DEF Create, MayPay, Available, HeldBy, Reserved, Active
<1>3. o \notin settled /\ o \notin owed /\ ~ seen[o].reading /\ \A w \in Wallets : holds[o][w] # "active"
    <2>1. Fits(o)
        BY InvFacts
    <2> QED BY <1>2, <2>1 DEF Fits, ReadFits
<1>4. SumShares(plan) \in Nat /\ Price[o] \in Nat /\ card \in Nat
    <2>1. SumShares(plan) \in Nat
        BY WalletsAreFinite, TotalType DEF SumShares
    <2> QED BY <1>2, <2>1, OrderAssumption
<1>5. \/ /\ orders' = [orders EXCEPT ![o] = row("paid", "captured", "none")]
         /\ balance' = [w \in Wallets |-> balance[w] - plan[w]]
         /\ settled' = settled \cup {o} /\ holds' = holds
      \/ /\ orders' = [orders EXCEPT ![o] = row("pending_payment", "held", "open")]
         /\ holds' = [holds EXCEPT ![o] = hold("active")]
         /\ balance' = balance /\ settled' = settled
      \/ /\ orders' = [orders EXCEPT ![o] = row("failed", "released", "ended")]
         /\ holds' = [holds EXCEPT ![o] = hold("released")]
         /\ balance' = balance /\ settled' = settled
    BY DEF Create
<1> HIDE DEF card
<1>6. ASSUME NEW w \in Wallets PROVE Reserved(orders, holds, w) \in Nat
    BY ReservedType
<1>7. CASE /\ orders' = [orders EXCEPT ![o] = row("paid", "captured", "none")]
           /\ balance' = [w \in Wallets |-> balance[w] - plan[w]]
           /\ settled' = settled \cup {o} /\ holds' = holds
    <2>1. row("paid", "captured", "none") \in OrderRow
        BY <1>4 DEF OrderRow, Over
    <2>2. orders' \in [Orders -> OrderRow] /\ orders'[o] = row("paid", "captured", "none")
        BY <1>1, <1>7, <2>1
    <2>3. \A x \in Orders \ {o} : orders'[x] = orders[x] /\ holds'[x] = holds[x] /\ seen'[x] = seen[x]
        BY <1>1, <1>2, <1>7
    <2>4. Fits(o)'
        BY <1>2, <1>3, <1>7, <2>2 DEF Fits, ReadFits
    <2>5. ASSUME NEW w \in Wallets
          PROVE  /\ balance'[w] = balance[w] - (IF o \in settled' THEN orders'[o].share[w] ELSE 0)
                 /\ balance'[w] >= Reserved(orders, holds, w)
                      + (IF holds'[o][w] = "active" THEN orders'[o].share[w] ELSE 0)
                      - (IF holds[o][w] = "active" THEN orders[o].share[w] ELSE 0)
        BY <1>1, <1>2, <1>3, <1>6, <1>7, <2>2
    <2>6. balance' \in [Wallets -> Int]
        BY <1>1, <1>7
    <2> QED BY <1>1, <1>2, <1>3, <1>7, <2>2, <2>3, <2>4, <2>5, <2>6, OrderStep
<1>8. CASE /\ orders' = [orders EXCEPT ![o] = row("pending_payment", "held", "open")]
           /\ holds' = [holds EXCEPT ![o] = hold("active")]
           /\ balance' = balance /\ settled' = settled
    <2>1. row("pending_payment", "held", "open") \in OrderRow /\ hold("active") \in [Wallets -> HoldStatus]
        BY <1>4 DEF OrderRow, Over, HoldStatus
    <2>2. /\ orders' \in [Orders -> OrderRow] /\ orders'[o] = row("pending_payment", "held", "open")
          /\ holds' \in [Orders -> [Wallets -> HoldStatus]] /\ holds'[o] = hold("active")
        BY <1>1, <1>8, <2>1
    <2>3. \A x \in Orders \ {o} : orders'[x] = orders[x] /\ holds'[x] = holds[x] /\ seen'[x] = seen[x]
        BY <1>1, <1>2, <1>8
    <2>4. Fits(o)'
        BY <1>2, <1>3, <1>8, <2>2 DEF Fits, ReadFits
    <2>5. ASSUME NEW w \in Wallets
          PROVE  /\ balance'[w] = balance[w] - (IF o \in settled' THEN orders'[o].share[w] ELSE 0)
                 /\ balance'[w] >= Reserved(orders, holds, w)
                      + (IF holds'[o][w] = "active" THEN orders'[o].share[w] ELSE 0)
                      - (IF holds[o][w] = "active" THEN orders[o].share[w] ELSE 0)
        BY <1>1, <1>2, <1>3, <1>6, <1>8, <2>2
    <2> QED BY <1>1, <1>2, <1>3, <1>8, <2>2, <2>3, <2>4, <2>5, OrderStep
<1>9. CASE /\ orders' = [orders EXCEPT ![o] = row("failed", "released", "ended")]
           /\ holds' = [holds EXCEPT ![o] = hold("released")]
           /\ balance' = balance /\ settled' = settled
    <2>1. row("failed", "released", "ended") \in OrderRow /\ hold("released") \in [Wallets -> HoldStatus]
        BY <1>4 DEF OrderRow, Over, HoldStatus
    <2>2. /\ orders' \in [Orders -> OrderRow] /\ orders'[o] = row("failed", "released", "ended")
          /\ holds' \in [Orders -> [Wallets -> HoldStatus]] /\ holds'[o] = hold("released")
        BY <1>1, <1>9, <2>1
    <2>3. \A x \in Orders \ {o} : orders'[x] = orders[x] /\ holds'[x] = holds[x] /\ seen'[x] = seen[x]
        BY <1>1, <1>2, <1>9
    <2>4. Fits(o)'
        BY <1>2, <1>3, <1>9, <2>2 DEF Fits, ReadFits
    <2>5. ASSUME NEW w \in Wallets
          PROVE  /\ balance'[w] = balance[w] - (IF o \in settled' THEN orders'[o].share[w] ELSE 0)
                 /\ balance'[w] >= Reserved(orders, holds, w)
                      + (IF holds'[o][w] = "active" THEN orders'[o].share[w] ELSE 0)
                      - (IF holds[o][w] = "active" THEN orders[o].share[w] ELSE 0)
        BY <1>1, <1>2, <1>3, <1>6, <1>9, <2>2
    <2> QED BY <1>1, <1>2, <1>3, <1>9, <2>2, <2>3, <2>4, <2>5, OrderStep
<1> QED BY <1>5, <1>7, <1>8, <1>9

-----------------------------------------------------------------------------
(* The other steps                                                         *)

\* What a payment's end, for better or worse, leaves of a pending order.
LEMMA EndsFits ==
  ASSUME OrdInv, NEW o \in Orders, NEW status \in {"failed", "cancelled"},
         NEW payment \in {"ended", "captured"}, Ends(o, status, payment)
  PROVE  /\ orders' \in [Orders -> OrderRow] /\ holds' \in [Orders -> [Wallets -> HoldStatus]]
         /\ \A x \in Orders \ {o} : orders'[x] = orders[x] /\ holds'[x] = holds[x]
         /\ orders'[o].status = status /\ orders'[o].tender = "released" /\ orders'[o].payment = payment
         /\ orders'[o].share = orders[o].share
         /\ \A w \in Wallets : holds'[o][w] # "active"
<1> DEFINE row == [orders[o] EXCEPT !.status = status, !.tender = "released", !.payment = payment]
<1>1. orders \in [Orders -> OrderRow] /\ holds \in [Orders -> [Wallets -> HoldStatus]]
    BY InvFacts
<1>2. orders' = [orders EXCEPT ![o] = row] /\ holds' = [holds EXCEPT ![o] = Released(o)]
    BY DEF Ends
<1>3. /\ row \in OrderRow /\ row.status = status /\ row.tender = "released" /\ row.payment = payment
      /\ row.share = orders[o].share
    <2>1. orders[o] \in OrderRow
        BY <1>1
    <2> QED BY <2>1 DEF OrderRow, Over
<1>4. Released(o) \in [Wallets -> HoldStatus] /\ \A w \in Wallets : Released(o)[w] # "active"
    BY <1>1 DEF Released, HoldStatus
<1> HIDE DEF row
<1> QED BY <1>1, <1>2, <1>3, <1>4

LEMMA PaymentEndedStep ==
  ASSUME OrdInv, NEW o \in Orders, NEW status \in {"failed", "cancelled"}, PaymentEnded(o, status)
  PROVE  OrdInv'
<1>1. /\ orders[o].payment = "open" /\ ~ seen[o].reading
      /\ orders[o].status = "pending_payment" => Ends(o, status, "ended")
      /\ UNCHANGED <<balance, spent, settled, owed, seen>>
    BY DEF PaymentEnded
<1>2. /\ orders \in [Orders -> OrderRow] /\ balance \in [Wallets -> Int]
      /\ seen \in [Orders -> [reading : BOOLEAN, active : SUBSET Wallets]]
      /\ Fits(o)
      /\ \A w \in Wallets : balance[w] - Reserved(orders, holds, w) >= 0
    BY InvFacts
<1>3. orders[o].status = "pending_payment" /\ o \notin settled /\ o \notin owed
    BY <1>1, <1>2 DEF Fits, ReadFits, OrderRow, Over
<1>4. /\ orders' \in [Orders -> OrderRow] /\ holds' \in [Orders -> [Wallets -> HoldStatus]]
      /\ \A x \in Orders \ {o} : orders'[x] = orders[x] /\ holds'[x] = holds[x]
      /\ orders'[o].status = status /\ orders'[o].tender = "released" /\ orders'[o].payment = "ended"
      /\ \A w \in Wallets : holds'[o][w] # "active"
    BY <1>1, <1>3, EndsFits
<1>5. Fits(o)'
    BY <1>1, <1>3, <1>4 DEF Fits, ReadFits
<1>6. ASSUME NEW w \in Wallets
      PROVE  /\ balance'[w] = balance[w] - (IF o \in settled' THEN orders'[o].share[w] ELSE 0)
             /\ balance'[w] >= Reserved(orders, holds, w)
                  + (IF holds'[o][w] = "active" THEN orders'[o].share[w] ELSE 0)
                  - (IF holds[o][w] = "active" THEN orders[o].share[w] ELSE 0)
    <2>1. Reserved(orders, holds, w) \in Nat /\ orders[o].share[w] \in Nat /\ balance[w] \in Int
        BY <1>2, ReservedType DEF OrderRow
    <2>2. balance[w] - Reserved(orders, holds, w) >= 0
        BY <1>2
    <2> QED BY <1>1, <1>3, <1>4, <2>1, <2>2
<1> QED BY <1>1, <1>2, <1>3, <1>4, <1>5, <1>6, OrderStep

LEMMA LateCaptureStep ==
  ASSUME OrdInv, NEW o \in Orders, seen[o].reading, seen' = [seen EXCEPT ![o] = NotReading],
         orders[o].status # "pending_payment",
         orders' = [orders EXCEPT ![o].payment = "captured"],
         owed' = owed \cup {o}, UNCHANGED <<holds, balance, settled, spent>>
  PROVE  OrdInv'
<1> DEFINE row == [orders[o] EXCEPT !.payment = "captured"]
<1>1. /\ orders \in [Orders -> OrderRow] /\ balance \in [Wallets -> Int]
      /\ holds \in [Orders -> [Wallets -> HoldStatus]]
      /\ seen \in [Orders -> [reading : BOOLEAN, active : SUBSET Wallets]]
      /\ Fits(o)
      /\ \A w \in Wallets : balance[w] - Reserved(orders, holds, w) >= 0
    BY InvFacts
<1>2. /\ orders[o].status \in {"failed", "cancelled"} /\ o \notin settled /\ orders[o].tender = "released"
      /\ \A w \in Wallets : holds[o][w] # "active"
    BY <1>1 DEF Fits, ReadFits, OrderRow, Over
<1>3. /\ row \in OrderRow /\ row.payment = "captured" /\ row.status = orders[o].status
      /\ row.tender = orders[o].tender
    <2>1. orders[o] \in OrderRow
        BY <1>1
    <2> QED BY <2>1 DEF OrderRow
<1> HIDE DEF row
<1>4. /\ orders' \in [Orders -> OrderRow] /\ orders'[o] = row
      /\ \A x \in Orders \ {o} : orders'[x] = orders[x] /\ holds'[x] = holds[x] /\ seen'[x] = seen[x]
    <2>1. orders' = [orders EXCEPT ![o] = row]
        BY DEF row
    <2> QED BY <1>1, <1>3, <2>1
<1>5. seen' \in [Orders -> [reading : BOOLEAN, active : SUBSET Wallets]] /\ ~ seen'[o].reading
    BY <1>1 DEF NotReading
<1>6. Fits(o)'
    BY <1>2, <1>3, <1>4, <1>5 DEF Fits, ReadFits
<1>7. ASSUME NEW w \in Wallets
      PROVE  /\ balance'[w] = balance[w] - (IF o \in settled' THEN orders'[o].share[w] ELSE 0)
             /\ balance'[w] >= Reserved(orders, holds, w)
                  + (IF holds'[o][w] = "active" THEN orders'[o].share[w] ELSE 0)
                  - (IF holds[o][w] = "active" THEN orders[o].share[w] ELSE 0)
    <2>1. Reserved(orders, holds, w) \in Nat /\ balance[w] \in Int
        BY <1>1, ReservedType
    <2>2. balance[w] - Reserved(orders, holds, w) >= 0
        BY <1>1
    <2> QED BY <1>2, <2>1, <2>2
<1> QED BY <1>1, <1>2, <1>4, <1>5, <1>6, <1>7, OrderStep

\* Covered is what makes the settlement safe: the reservation the capture
\* counts on is gone when the share is paid.
LEMMA SettleStep ==
  ASSUME OrdInv, NEW o \in Orders, seen[o].reading, seen' = [seen EXCEPT ![o] = NotReading],
         orders[o].status = "pending_payment",
         \A w \in seen[o].active : holds[o][w] = "active",
         Covered(o, seen[o].active),
         orders' = [orders EXCEPT ![o].status = "paid", ![o].tender = "captured", ![o].payment = "captured"],
         holds' = [holds EXCEPT ![o] = [w \in Wallets |-> IF w \in seen[o].active THEN "captured" ELSE @[w]]],
         balance' = [w \in Wallets |-> balance[w] - orders[o].share[w]],
         settled' = settled \cup {o}, UNCHANGED <<owed, spent>>
  PROVE  OrdInv'
<1> DEFINE row == [orders[o] EXCEPT !.status = "paid", !.tender = "captured", !.payment = "captured"]
           hold == [w \in Wallets |-> IF w \in seen[o].active THEN "captured" ELSE holds[o][w]]
<1>1. /\ orders \in [Orders -> OrderRow] /\ balance \in [Wallets -> Int]
      /\ holds \in [Orders -> [Wallets -> HoldStatus]]
      /\ seen \in [Orders -> [reading : BOOLEAN, active : SUBSET Wallets]]
      /\ Fits(o)
      /\ \A w \in Wallets : balance[w] - Reserved(orders, holds, w) >= 0
    BY InvFacts
<1>2. /\ o \notin settled /\ o \notin owed
      /\ \A w \in Wallets : holds[o][w] = "active" => w \in seen[o].active
    BY <1>1 DEF Fits, ReadFits
<1>3. /\ row \in OrderRow /\ row.payment = "captured" /\ row.status = "paid" /\ row.tender = "captured"
      /\ row.share = orders[o].share
    <2>1. orders[o] \in OrderRow
        BY <1>1
    <2> QED BY <2>1 DEF OrderRow, Over
<1>4. hold \in [Wallets -> HoldStatus] /\ \A w \in Wallets : hold[w] # "active"
    BY <1>1, <1>2 DEF HoldStatus
<1> HIDE DEF row
<1>5. /\ orders' \in [Orders -> OrderRow] /\ orders'[o] = row
      /\ holds' \in [Orders -> [Wallets -> HoldStatus]] /\ \A w \in Wallets : holds'[o][w] # "active"
      /\ \A x \in Orders \ {o} : orders'[x] = orders[x] /\ holds'[x] = holds[x] /\ seen'[x] = seen[x]
    <2>1. orders' = [orders EXCEPT ![o] = row]
        BY DEF row
    <2>2. holds' = [holds EXCEPT ![o] = hold]
        BY <1>1
    <2>3. orders' \in [Orders -> OrderRow] /\ orders'[o] = row
        <3> DEFINE moved == [orders EXCEPT ![o] = row]
        <3>1. moved \in [Orders -> OrderRow] /\ moved[o] = row
            BY <1>1, <1>3
        <3>2. orders' = moved
            BY <2>1
        <3> HIDE DEF moved
        <3> QED BY <3>1, <3>2
    <2>4. holds' \in [Orders -> [Wallets -> HoldStatus]] /\ holds'[o] = hold
        BY <1>1, <1>4, <2>2
    <2>5. \A x \in Orders \ {o} : orders'[x] = orders[x] /\ holds'[x] = holds[x] /\ seen'[x] = seen[x]
        BY <1>1, <2>1, <2>2
    <2> QED BY <1>4, <2>3, <2>4, <2>5
<1>6. seen' \in [Orders -> [reading : BOOLEAN, active : SUBSET Wallets]] /\ ~ seen'[o].reading
    BY <1>1 DEF NotReading
<1>7. Fits(o)'
    BY <1>2, <1>3, <1>5, <1>6 DEF Fits, ReadFits
<1>8. ASSUME NEW w \in Wallets
      PROVE  /\ balance'[w] = balance[w] - (IF o \in settled' THEN orders'[o].share[w] ELSE 0)
             /\ balance'[w] >= Reserved(orders, holds, w)
                  + (IF holds'[o][w] = "active" THEN orders'[o].share[w] ELSE 0)
                  - (IF holds[o][w] = "active" THEN orders[o].share[w] ELSE 0)
    <2>1. Reserved(orders, holds, w) \in Nat /\ orders[o].share[w] \in Nat /\ balance[w] \in Int
        BY <1>1, ReservedType DEF OrderRow
    <2>2. balance[w] - Reserved(orders, holds, w) >= 0
        BY <1>1
    <2>3. orders[o].share[w] > 0 =>
            balance[w] - orders[o].share[w]
              >= Reserved(orders, holds, w) - (IF holds[o][w] = "active" THEN orders[o].share[w] ELSE 0)
        BY <1>1, <1>2 DEF Covered, HeldBy, Reserved, Active
    <2>4. balance'[w] = balance[w] - orders[o].share[w] /\ orders'[o].share[w] = orders[o].share[w]
        BY <1>3, <1>5
    <2>5. o \in settled' /\ holds'[o][w] # "active"
        BY <1>5
    <2>6. CASE orders[o].share[w] > 0
        BY <2>1, <2>3, <2>4, <2>5, <2>6
    <2>7. CASE orders[o].share[w] = 0
        BY <2>1, <2>2, <2>4, <2>5, <2>7
    <2> QED BY <2>1, <2>6, <2>7
<1>9. balance' \in [Wallets -> Int]
    BY <1>1 DEF OrderRow
<1> QED BY <1>2, <1>5, <1>6, <1>7, <1>8, <1>9, OrderStep

LEMMA ShortfallStep ==
  ASSUME OrdInv, NEW o \in Orders, seen[o].reading, seen' = [seen EXCEPT ![o] = NotReading],
         orders[o].status = "pending_payment", Ends(o, "failed", "captured"),
         owed' = owed \cup {o}, UNCHANGED <<balance, settled, spent>>
  PROVE  OrdInv'
<1>1. /\ orders \in [Orders -> OrderRow] /\ balance \in [Wallets -> Int]
      /\ seen \in [Orders -> [reading : BOOLEAN, active : SUBSET Wallets]]
      /\ Fits(o)
      /\ \A w \in Wallets : balance[w] - Reserved(orders, holds, w) >= 0
    BY InvFacts
<1>2. o \notin settled
    BY <1>1 DEF Fits, ReadFits
<1>3. /\ orders' \in [Orders -> OrderRow] /\ holds' \in [Orders -> [Wallets -> HoldStatus]]
      /\ \A x \in Orders \ {o} : orders'[x] = orders[x] /\ holds'[x] = holds[x]
      /\ orders'[o].status = "failed" /\ orders'[o].tender = "released" /\ orders'[o].payment = "captured"
      /\ \A w \in Wallets : holds'[o][w] # "active"
    BY EndsFits
<1>4. /\ seen' \in [Orders -> [reading : BOOLEAN, active : SUBSET Wallets]] /\ ~ seen'[o].reading
      /\ \A x \in Orders \ {o} : seen'[x] = seen[x]
    BY <1>1 DEF NotReading
<1>5. Fits(o)'
    BY <1>2, <1>3, <1>4 DEF Fits, ReadFits
<1>6. ASSUME NEW w \in Wallets
      PROVE  /\ balance'[w] = balance[w] - (IF o \in settled' THEN orders'[o].share[w] ELSE 0)
             /\ balance'[w] >= Reserved(orders, holds, w)
                  + (IF holds'[o][w] = "active" THEN orders'[o].share[w] ELSE 0)
                  - (IF holds[o][w] = "active" THEN orders[o].share[w] ELSE 0)
    <2>1. Reserved(orders, holds, w) \in Nat /\ orders[o].share[w] \in Nat /\ balance[w] \in Int
        BY <1>1, ReservedType DEF OrderRow
    <2>2. balance[w] - Reserved(orders, holds, w) >= 0
        BY <1>1
    <2> QED BY <1>2, <1>3, <2>1, <2>2
<1> QED BY <1>1, <1>2, <1>3, <1>4, <1>5, <1>6, OrderStep

LEMMA FinishCaptureStep ==
  ASSUME OrdInv, NEW o \in Orders, FinishCapture(o)
  PROVE  OrdInv'
<1>1. seen[o].reading /\ seen' = [seen EXCEPT ![o] = NotReading] /\ spent' = spent
    BY DEF FinishCapture
<1>2. CASE /\ orders[o].status # "pending_payment"
           /\ orders' = [orders EXCEPT ![o].payment = "captured"]
           /\ owed' = owed \cup {o}
           /\ UNCHANGED <<holds, balance, settled>>
    BY <1>1, <1>2, LateCaptureStep
<1>3. CASE /\ orders[o].status = "pending_payment"
           /\ \A w \in seen[o].active : holds[o][w] = "active"
           /\ Covered(o, seen[o].active)
           /\ orders' = [orders EXCEPT ![o].status = "paid", ![o].tender = "captured", ![o].payment = "captured"]
           /\ holds' = [holds EXCEPT ![o] = [w \in Wallets |-> IF w \in seen[o].active THEN "captured" ELSE @[w]]]
           /\ balance' = [w \in Wallets |-> balance[w] - orders[o].share[w]]
           /\ settled' = settled \cup {o}
           /\ UNCHANGED owed
    BY <1>1, <1>3, SettleStep
<1>4. CASE /\ orders[o].status = "pending_payment"
           /\ Ends(o, "failed", "captured")
           /\ owed' = owed \cup {o}
           /\ UNCHANGED <<balance, settled>>
    BY <1>1, <1>4, ShortfallStep
<1> QED BY <1>2, <1>3, <1>4 DEF FinishCapture

LEMMA ExpireHoldStep ==
  ASSUME OrdInv, NEW o \in Orders, NEW v \in Wallets, ExpireHold(o, v)
  PROVE  OrdInv'
<1> DEFINE hold == [holds[o] EXCEPT ![v] = "expired"]
<1>1. /\ orders \in [Orders -> OrderRow] /\ balance \in [Wallets -> Int]
      /\ holds \in [Orders -> [Wallets -> HoldStatus]]
      /\ seen \in [Orders -> [reading : BOOLEAN, active : SUBSET Wallets]]
      /\ Fits(o)
      /\ \A w \in Wallets : balance[w] - Reserved(orders, holds, w) >= 0
    BY InvFacts
<1>2. holds[o][v] = "active" /\ UNCHANGED <<orders, balance, spent, settled, owed, seen>>
    BY DEF ExpireHold
<1>3. orders[o].status = "pending_payment" /\ o \notin settled
    BY <1>1, <1>2 DEF Fits, ReadFits
<1>4. /\ hold \in [Wallets -> HoldStatus] /\ hold[v] = "expired"
      /\ \A w \in Wallets \ {v} : hold[w] = holds[o][w]
    BY <1>1 DEF HoldStatus
<1>5. holds' = [holds EXCEPT ![o] = hold]
    BY DEF ExpireHold
<1> HIDE DEF hold
<1>6. holds' \in [Orders -> [Wallets -> HoldStatus]] /\ holds'[o] = hold
    BY <1>1, <1>4, <1>5
<1>7. \A x \in Orders \ {o} : orders'[x] = orders[x] /\ holds'[x] = holds[x] /\ seen'[x] = seen[x]
    BY <1>1, <1>2, <1>5
<1>8. \A w \in Wallets : holds'[o][w] = "active" => holds[o][w] = "active"
    BY <1>2, <1>4, <1>6
<1>9. Fits(o)'
    BY <1>1, <1>2, <1>8 DEF Fits, ReadFits
<1>10. ASSUME NEW w \in Wallets
       PROVE  /\ balance'[w] = balance[w] - (IF o \in settled' THEN orders'[o].share[w] ELSE 0)
              /\ balance'[w] >= Reserved(orders, holds, w)
                   + (IF holds'[o][w] = "active" THEN orders'[o].share[w] ELSE 0)
                   - (IF holds[o][w] = "active" THEN orders[o].share[w] ELSE 0)
    <2>1. Reserved(orders, holds, w) \in Nat /\ orders[o].share[w] \in Nat /\ balance[w] \in Int
        BY <1>1, ReservedType DEF OrderRow
    <2>2. balance[w] - Reserved(orders, holds, w) >= 0
        BY <1>1
    <2> QED BY <1>2, <1>3, <1>8, <2>1, <2>2
<1> QED BY <1>1, <1>2, <1>3, <1>6, <1>7, <1>9, <1>10, OrderStep

\* The steps that leave the orders and their holds alone.
LEMMA OtherStep ==
  ASSUME OrdInv,
         \/ \E o \in Orders : BeginCapture(o) \/ AbandonCapture(o)
         \/ \E w \in Wallets : Spend(w)
         \/ UNCHANGED ordVars
  PROVE  OrdInv'
<1>1. /\ balance \in [Wallets -> Int] /\ spent \in [Wallets -> Nat]
      /\ seen \in [Orders -> [reading : BOOLEAN, active : SUBSET Wallets]]
      /\ \A o \in Orders : Fits(o)
      /\ \A w \in Wallets : balance[w] - Reserved(orders, holds, w) >= 0
    BY InvFacts
<1>2. ASSUME NEW w \in Wallets PROVE Reserved(orders, holds, w) \in Nat /\ balance[w] >= Reserved(orders, holds, w)
    BY <1>1, ReservedType
<1>3. \A o \in Orders : ReadFits(seen[o], o)
    BY <1>1 DEF Fits, ReadFits
<1>4. CASE \E o \in Orders : BeginCapture(o) \/ AbandonCapture(o)
    <2>1. PICK o \in Orders : BeginCapture(o) \/ AbandonCapture(o)
        BY <1>4
    <2>2. UNCHANGED <<orders, holds, balance, spent, settled, owed>>
        BY <2>1 DEF BeginCapture, AbandonCapture
    <2>3. CASE BeginCapture(o)
        <3> DEFINE reads == [reading |-> TRUE, active |-> {w \in Wallets : holds[o][w] = "active"}]
        <3>1. seen' = [seen EXCEPT ![o] = reads] /\ orders[o].payment \in {"open", "ended"}
            BY <2>3 DEF BeginCapture
        <3>2. /\ seen' \in [Orders -> [reading : BOOLEAN, active : SUBSET Wallets]]
              /\ seen'[o] = reads /\ \A x \in Orders \ {o} : seen'[x] = seen[x]
            BY <1>1, <3>1
        <3>3. ASSUME NEW x \in Orders PROVE ReadFits(seen'[x], x)
            BY <1>3, <3>1, <3>2 DEF ReadFits
        <3> QED BY <1>1, <1>2, <2>2, <3>2, <3>3, OthersStep
    <2>4. CASE AbandonCapture(o)
        <3>1. /\ seen' \in [Orders -> [reading : BOOLEAN, active : SUBSET Wallets]]
              /\ ~ seen'[o].reading /\ \A x \in Orders \ {o} : seen'[x] = seen[x]
            BY <1>1, <2>4 DEF AbandonCapture, NotReading
        <3>2. ASSUME NEW x \in Orders PROVE ReadFits(seen'[x], x)
            BY <1>3, <3>1 DEF ReadFits
        <3> QED BY <1>1, <1>2, <2>2, <3>1, <3>2, OthersStep
    <2> QED BY <2>1, <2>3, <2>4
<1>5. CASE \E w \in Wallets : Spend(w)
    <2>1. PICK v \in Wallets : Spend(v)
        BY <1>5
    <2>2. /\ balance[v] - Reserved(orders, holds, v) >= 1
          /\ balance' = [balance EXCEPT ![v] = @ - 1] /\ spent' = [spent EXCEPT ![v] = @ + 1]
          /\ UNCHANGED <<orders, holds, settled, owed, seen>>
        BY <2>1 DEF Spend, Available, HeldBy, Reserved, Active
    <2>3. balance' \in [Wallets -> Int] /\ spent' \in [Wallets -> Nat]
        BY <1>1, <2>2
    <2>4. ASSUME NEW w \in Wallets
          PROVE  /\ balance'[w] + spent'[w] = balance[w] + spent[w]
                 /\ balance'[w] >= Reserved(orders, holds, w)
        BY <1>1, <1>2, <2>2
    <2> QED BY <1>1, <1>3, <2>2, <2>3, <2>4, OthersStep
<1>6. CASE UNCHANGED ordVars
    BY <1>1, <1>2, <1>3, <1>6, OthersStep DEF ordVars
<1> QED BY <1>4, <1>5, <1>6

LEMMA NextIsSound == OrdInv /\ [OrdNext]_ordVars => OrdInv'
<1> SUFFICES ASSUME OrdInv, [OrdNext]_ordVars PROVE OrdInv'
    OBVIOUS
<1>1. ASSUME NEW o \in Orders, NEW plan \in Plans[o], Create(o, plan) PROVE OrdInv'
    <2>1. plan \in [Wallets -> Nat]
        <3>1. plan \in [Wallets -> 0 .. Price[o]]
            BY OrderAssumption
        <3> QED BY <3>1
    <2> QED BY <1>1, <2>1, CreateStep
<1>2. ASSUME NEW o \in Orders, NEW plan \in [Wallets -> 0 .. Price[o]], Create(o, plan) PROVE OrdInv'
    <2>1. plan \in [Wallets -> Nat]
        OBVIOUS
    <2> QED BY <1>2, <2>1, CreateStep
<1>3. ASSUME NEW o \in Orders, Resolves(o) PROVE OrdInv'
    BY <1>3, PaymentEndedStep, FinishCaptureStep DEF Resolves
<1>4. ASSUME NEW o \in Orders, NEW w \in Wallets, ExpireHold(o, w) PROVE OrdInv'
    BY <1>4, ExpireHoldStep
<1> QED BY <1>1, <1>2, <1>3, <1>4, OtherStep DEF OrdNext

-----------------------------------------------------------------------------
(* The theorems                                                            *)

LEMMA OrdersAreSound == OrdSpec => []OrdInv
<1> QED BY InitIsSound, NextIsSound, PTL DEF OrdSpec

\* What Create, PaymentEnded, CaptureOrder and the hold sweeper leave behind
\* is always an order, a hold, a balance the code knows.
THEOREM OrdTypeAlways == OrdSpec => []OrdTypeOK
<1>1. OrdInv => OrdTypeOK
    BY DEF OrdInv
<1> QED BY <1>1, OrdersAreSound, PTL

\* Each wallet is charged its share of the orders that were paid, once, and
\* of no other, whatever holds expire while CaptureOrder is under way.
THEOREM EachAlwaysPaysItsShare == OrdSpec => []EachPaysItsShare
<1>1. OrdInv => EachPaysItsShare
    BY DEF OrdInv
<1> QED BY <1>1, OrdersAreSound, PTL

\* No wallet ever promises more than it has: what its active holds add up to
\* is there when CaptureHolds comes for it.
THEOREM HeldMoneyIsAlwaysThere == OrdSpec => []HeldMoneyIsThere
<1>1. OrdInv => HeldMoneyIsThere
    BY DEF OrdInv
<1> QED BY <1>1, OrdersAreSound, PTL

\* An order, its tenders, its holds and its card payment agree in every state
\* between two transactions.
THEOREM NothingIsStranded == OrdSpec => []NothingStranded
<1>1. OrdInv => NothingStranded
    <2> SUFFICES ASSUME OrdInv, NEW o \in Orders
                 PROVE  /\ orders[o].status \in Over => \A w \in Wallets : holds[o][w] # "active"
                        /\ orders[o].tender = CASE orders[o].status = "absent" -> "none"
                                                [] orders[o].status = "pending_payment" -> "held"
                                                [] orders[o].status = "paid" -> "captured"
                                                [] OTHER -> "released"
                        /\ o \in settled <=> orders[o].status = "paid"
                        /\ o \in owed <=> orders[o].payment = "captured" /\ orders[o].status # "paid"
                        /\ orders[o].status = "pending_payment" <=> orders[o].payment = "open"
        BY DEF NothingStranded
    <2>1. Fits(o) /\ orders[o] \in OrderRow
        BY InvFacts
    <2> QED BY <2>1 DEF Fits, ReadFits, OrderRow, Over
<1> QED BY <1>1, OrdersAreSound, PTL
=============================================================================
