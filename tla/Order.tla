------------------------------- MODULE Order --------------------------------
(***************************************************************************)
(* Paying for an order: internal/order/engine.go.                          *)
(*                                                                         *)
(* An order is paid from wallets, a card, or both.  With a card share, the *)
(* wallet shares are held until the card payment is captured, and one      *)
(* journal then settles everything; meanwhile holds expire, wallets are    *)
(* spent, and the payment may end instead.  How the card payment itself    *)
(* comes to be captured or ended is the subject of Payment.                *)
(***************************************************************************)
EXTENDS Amounts, Sequences

CONSTANTS
    Orders,
    Wallets,
    Price,     \* the total of each order
    Fund,      \* what each wallet starts with
    MaxTxn,    \* the per-transaction limit of each wallet
    DrawOrder, \* the wallets, granted and expiring ones first
    Plans      \* the explicit wallet shares each order may ask for

ASSUME OrderAssumption ==
    /\ Price \in [Orders -> Nat \ {0}] /\ Fund \in [Wallets -> Nat] /\ MaxTxn \in [Wallets -> Nat]
    /\ DrawOrder \in Seq(Wallets) /\ Len(DrawOrder) = Cardinality(Wallets)
    /\ {DrawOrder[i] : i \in DOMAIN DrawOrder} = Wallets
    /\ \A o \in Orders : Plans[o] \subseteq [Wallets -> 0 .. Price[o]]

VARIABLES
    orders,  \* the orders and their tenders
    holds,   \* the hold of each order on each wallet
    balance, \* the wallets' balances
    spent,   \* what each wallet has spent elsewhere
    settled, \* the orders whose settlement journal is posted
    owed,    \* the orders whose card share is in refunds_payable
    seen     \* the holds a capture in progress read as active

ordVars == <<orders, holds, balance, spent, settled, owed, seen>>

NotReading == [reading |-> FALSE, active |-> {}]

Over == {"paid", "failed", "cancelled"}

OrdTypeOK ==
    /\ orders \in [Orders -> [status : {"absent", "pending_payment"} \cup Over,
                              share : [Wallets -> Nat], card : Nat,
                              tender : {"none", "held", "captured", "released"},
                              payment : {"none", "open", "ended", "captured"}]]
    /\ holds \in [Orders -> [Wallets -> {"absent", "active", "captured", "released", "expired"}]]
    /\ balance \in [Wallets -> Int] /\ spent \in [Wallets -> Nat]
    /\ settled \subseteq Orders /\ owed \subseteq Orders
    /\ seen \in [Orders -> [reading : BOOLEAN, active : SUBSET Wallets]]

-----------------------------------------------------------------------------
Least(m, n) == IF m <= n THEN m ELSE n

\* What the holds of the orders O reserve on a wallet.
HeldBy(O, w) ==
    LET active == {o \in O : holds[o][w] = "active"}
    IN  Total([o \in active |-> orders[o].share[w]], active)

Available(w) == balance[w] - HeldBy(Orders, w)

SumShares(plan) == Total(plan, Wallets)

-----------------------------------------------------------------------------
(* Creating an order                                                       *)

\* autoTender draws the wallets in order, as much as each has and the order
\* still needs, skipping one whose share would exceed its limit; the card pays
\* the rest.
AutoDraws(o, plan) ==
    \A i \in DOMAIN DrawOrder :
        LET w == DrawOrder[i]
            left == Price[o] - Total(plan, {DrawOrder[k] : k \in 1 .. i - 1})
            take == Least(Available(w), left)
        IN  plan[w] = IF take > 0 /\ take <= MaxTxn[w] THEN take ELSE 0

\* planTenders and checkTender: no wallet above its limit, and no more than
\* the total.
MayPay(o, plan) ==
    /\ SumShares(plan) <= Price[o]
    /\ \A w \in Wallets : plan[w] <= MaxTxn[w]

\* The provider refuses the card payment: the order fails at once, and what
\* it held is released, in the transaction that creates it.
Create(o, plan) ==
    LET card == Price[o] - SumShares(plan)
        row(status, tender, payment) == [status |-> status, share |-> plan, card |-> card,
                                         tender |-> tender, payment |-> payment]
        hold(status) == [w \in Wallets |-> IF plan[w] > 0 THEN status ELSE "absent"]
    IN  /\ orders[o].status = "absent"
        /\ MayPay(o, plan)
        /\ \A w \in Wallets : plan[w] > 0 => Available(w) >= plan[w]
        /\ \/ /\ card = 0
              /\ orders' = [orders EXCEPT ![o] = row("paid", "captured", "none")]
              /\ balance' = [w \in Wallets |-> balance[w] - plan[w]]
              /\ settled' = settled \cup {o}
              /\ UNCHANGED holds
           \/ /\ card > 0
              /\ \/ /\ orders' = [orders EXCEPT ![o] = row("pending_payment", "held", "open")]
                    /\ holds' = [holds EXCEPT ![o] = hold("active")]
                 \/ /\ orders' = [orders EXCEPT ![o] = row("failed", "released", "ended")]
                    /\ holds' = [holds EXCEPT ![o] = hold("released")]
              /\ UNCHANGED <<balance, settled>>
        /\ UNCHANGED <<spent, owed, seen>>

-----------------------------------------------------------------------------
(* The order's end                                                         *)

\* Mutant: the holds are left to the sweeper.
ReleasedLater(o) == holds[o]

\* end lets go of every hold that is still active.
Released(o) == [w \in Wallets |-> IF holds[o][w] = "active" THEN "released" ELSE holds[o][w]]

Ends(o, status, payment) ==
    /\ orders' = [orders EXCEPT ![o].status = status, ![o].tender = "released", ![o].payment = payment]
    /\ holds' = [holds EXCEPT ![o] = Released(o)]

\* Mutant: a hold that has expired fails the whole call (ReleaseHold's
\* FailedPrecondition).
PaymentEndedStrictly(o, status) ==
    /\ orders[o].payment = "open" /\ ~ seen[o].reading
    /\ \A w \in Wallets : orders[o].share[w] > 0 => holds[o][w] = "active"
    /\ IF orders[o].status = "pending_payment"
       THEN Ends(o, status, "ended")
       ELSE orders' = [orders EXCEPT ![o].payment = "ended"] /\ UNCHANGED holds
    /\ UNCHANGED <<balance, spent, settled, owed, seen>>

\* PaymentEnded, in the payment's transaction.
PaymentEnded(o, status) ==
    /\ orders[o].payment = "open" /\ ~ seen[o].reading
    /\ IF orders[o].status = "pending_payment"
       THEN Ends(o, status, "ended")
       ELSE orders' = [orders EXCEPT ![o].payment = "ended"] /\ UNCHANGED holds
    /\ UNCHANGED <<balance, spent, settled, owed, seen>>

\* CaptureOrder locks the order and reads, without locking them, which of its
\* holds are active.  The card money may also come after the payment ended.
BeginCapture(o) ==
    /\ orders[o].payment \in {"open", "ended"} /\ ~ seen[o].reading
    /\ seen' = [seen EXCEPT ![o] = [reading |-> TRUE, active |-> {w \in Wallets : holds[o][w] = "active"}]]
    /\ UNCHANGED <<orders, holds, balance, spent, settled, owed>>

\* Mutant: the shares were held, so they must be there.
CoveredByHolds(o, freed) == TRUE

\* The wallets can pay their shares once the reservations in freed are gone.
Covered(o, freed) ==
    \A w \in Wallets :
        orders[o].share[w] > 0 =>
            balance[w] - orders[o].share[w]
              >= HeldBy(Orders, w) - (IF w \in freed THEN orders[o].share[w] ELSE 0)

\* Mutant: only the wallets whose holds are active are charged.
FinishHeldOnly(o) ==
    /\ seen[o].reading
    /\ seen' = [seen EXCEPT ![o] = NotReading]
    /\ \A w \in seen[o].active : holds[o][w] = "active"
    /\ orders[o].status = "pending_payment" /\ Covered(o, seen[o].active)
    /\ orders' = [orders EXCEPT ![o].status = "paid", ![o].tender = "captured", ![o].payment = "captured"]
    /\ holds' = [holds EXCEPT ![o] = [w \in Wallets |-> IF w \in seen[o].active THEN "captured" ELSE @[w]]]
    /\ balance' = [w \in Wallets |->
                    IF w \in seen[o].active THEN balance[w] - orders[o].share[w] ELSE balance[w]]
    /\ settled' = settled \cup {o}
    /\ UNCHANGED <<owed, spent>>

\* Then it settles the order, or fails it and the card money is owed back; the
\* code's refusal of another amount than the card share is one more reason to.
\* A hold that is no longer active when CaptureHolds locks it undoes the
\* transaction, and the payment is synced again later.
FinishCapture(o) ==
    /\ seen[o].reading
    /\ seen' = [seen EXCEPT ![o] = NotReading]
    /\ \/ /\ orders[o].status # "pending_payment"
          /\ orders' = [orders EXCEPT ![o].payment = "captured"]
          /\ owed' = owed \cup {o}
          /\ UNCHANGED <<holds, balance, settled>>
       \/ /\ orders[o].status = "pending_payment"
          /\ \A w \in seen[o].active : holds[o][w] = "active"
          /\ Covered(o, seen[o].active)
          /\ orders' = [orders EXCEPT ![o].status = "paid", ![o].tender = "captured", ![o].payment = "captured"]
          /\ holds' = [holds EXCEPT ![o] = [w \in Wallets |-> IF w \in seen[o].active THEN "captured" ELSE @[w]]]
          /\ balance' = [w \in Wallets |-> balance[w] - orders[o].share[w]]
          /\ settled' = settled \cup {o}
          /\ UNCHANGED owed
       \/ /\ orders[o].status = "pending_payment"
          /\ \A w \in seen[o].active : holds[o][w] = "active"
          /\ ~ Covered(o, seen[o].active)
          /\ Ends(o, "failed", "captured")
          /\ owed' = owed \cup {o}
          /\ UNCHANGED <<balance, settled>>
    /\ UNCHANGED spent

\* The transaction is lost to a crash, an outage or a hold that went away.
AbandonCapture(o) ==
    /\ seen[o].reading
    /\ seen' = [seen EXCEPT ![o] = NotReading]
    /\ UNCHANGED <<orders, holds, balance, spent, settled, owed>>

-----------------------------------------------------------------------------
(* Everyone else                                                           *)

\* The sweeper expires a hold some time after the order's own expiry, also
\* when nobody has heard from the provider.
ExpireHold(o, w) ==
    /\ holds[o][w] = "active"
    /\ holds' = [holds EXCEPT ![o][w] = "expired"]
    /\ UNCHANGED <<orders, balance, spent, settled, owed, seen>>

\* The customer spends what is available.
Spend(w) ==
    /\ Available(w) >= 1
    /\ balance' = [balance EXCEPT ![w] = @ - 1]
    /\ spent' = [spent EXCEPT ![w] = @ + 1]
    /\ UNCHANGED <<orders, holds, settled, owed, seen>>

-----------------------------------------------------------------------------
OrdInit ==
    /\ orders = [o \in Orders |-> [status |-> "absent", share |-> [w \in Wallets |-> 0], card |-> 0,
                                   tender |-> "none", payment |-> "none"]]
    /\ holds = [o \in Orders |-> [w \in Wallets |-> "absent"]]
    /\ balance = Fund
    /\ spent = [w \in Wallets |-> 0]
    /\ settled = {} /\ owed = {}
    /\ seen = [o \in Orders |-> NotReading]

\* Expire and Cancel ask the payment to end; it is captured instead if the
\* customer has paid.
Resolves(o) ==
    \/ \E status \in {"failed", "cancelled"} : PaymentEnded(o, status)
    \/ FinishCapture(o)

OrdNext ==
    \/ \E o \in Orders : \E plan \in Plans[o] : Create(o, plan)
    \/ \E o \in Orders : \E plan \in [Wallets -> 0 .. Price[o]] : AutoDraws(o, plan) /\ Create(o, plan)
    \/ \E o \in Orders : Resolves(o) \/ BeginCapture(o) \/ AbandonCapture(o)
    \/ \E o \in Orders, w \in Wallets : ExpireHold(o, w)
    \/ \E w \in Wallets : Spend(w)

OrdSpec == OrdInit /\ [][OrdNext]_ordVars

-----------------------------------------------------------------------------
(* Safety                                                                  *)

\* A wallet has paid its share of the orders that were paid, once each, and
\* nothing towards the ones that failed: a hold that expired under a capture
\* is charged neither twice nor not at all.
EachPaysItsShare ==
    \A w \in Wallets :
        balance[w] = Fund[w] - spent[w] - Total([o \in settled |-> orders[o].share[w]], settled)

\* Nothing promised is spent: every active hold, and so every pending order's
\* wallet share that is still reserved, is there to be captured.
HeldMoneyIsThere == \A w \in Wallets : Available(w) >= 0

\* "No crash can leave an order and its payment disagreeing, or a hold
\* stranded" (Create): an order that is over holds nothing and says what
\* became of its shares, and card money is either in the order or owed back.
NothingStranded ==
    \A o \in Orders :
        /\ orders[o].status \in Over => \A w \in Wallets : holds[o][w] # "active"
        /\ orders[o].tender = CASE orders[o].status = "absent" -> "none"
                                [] orders[o].status = "pending_payment" -> "held"
                                [] orders[o].status = "paid" -> "captured"
                                [] OTHER -> "released"
        /\ o \in settled <=> orders[o].status = "paid"
        /\ o \in owed <=> orders[o].payment = "captured" /\ orders[o].status # "paid"
        /\ orders[o].status = "pending_payment" <=> orders[o].payment = "open"

-----------------------------------------------------------------------------
(* Liveness                                                                *)

\* The sweepers come round, and a capture that keeps failing is tried again.
FairOrdSpec ==
    /\ OrdSpec
    /\ \A o \in Orders : /\ SF_ordVars(Resolves(o))
                         /\ WF_ordVars(FinishCapture(o) \/ AbandonCapture(o))

\* Every order is paid, failed or cancelled in the end (Expire).
OrdersEnd == \A o \in Orders : orders[o].status = "pending_payment" ~> orders[o].status \in Over
=============================================================================
