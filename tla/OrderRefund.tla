---------------------------- MODULE OrderRefund ----------------------------
(***************************************************************************)
(* Refunding an order that was paid by card and from wallets:              *)
(* internal/order/refund.go, on top of the refunds and chargebacks of its  *)
(* card payment (Reversal).                                                *)
(*                                                                         *)
(* One transaction, under the order's lock, raises the order's components  *)
(* and its tenders' refunded amounts, posts the reversing journal, and     *)
(* creates the refund of the card share, which asks the provider; it       *)
(* commits whole or not at all.                                            *)
(***************************************************************************)
EXTENDS Reversal

CONSTANTS
    Tenders,      \* how the order was paid: "card", "wallet" (purchased), "bonus" (granted)
    Paid,         \* the amount of each tender; the card's is what was captured
    Components,   \* the order's subtotal, discount and tax
    OrderRefunds, \* the order's refunds, by their public id
    Requests      \* what may be asked: an amount, a split of it, and a destination

ComponentsOf(S) == [subtotal : S, discount : S, tax : S]

Net(c) == c.subtotal - c.discount + c.tax

\* A request without a split: no refund of nothing is made, so none has this one.
NoSplit == [subtotal |-> 0, discount |-> 0, tax |-> 0]

ASSUME OrderRefundAssumption ==
    /\ Tenders \subseteq {"card", "wallet", "bonus"} /\ "card" \in Tenders
    /\ Paid \in [Tenders -> Nat \ {0}] /\ Paid["card"] = Captured
    /\ Components \in ComponentsOf(Nat) /\ Net(Components) = Total(Paid, Tenders)
    /\ \A req \in Requests : /\ req.amount \in Nat \ {0} /\ req.to \in {"source", "wallet"}
                             /\ req.split \in ComponentsOf(Nat)

VARIABLE order \* what has been given back of the order, and by which refunds

refVars == <<revVars, order>>

NotMade == [amount |-> 0, card |-> 0]

OrderRefundTypeOK ==
    /\ RevTypeOK
    /\ order.status \in {"paid", "partially_refunded", "refunded"}
    /\ order.back \in ComponentsOf(Nat)
    /\ order.tenders \in [Tenders -> Nat]
    /\ order.refunds \in [OrderRefunds -> [amount : Nat, card : Nat]]

-----------------------------------------------------------------------------
(* The split of a refund                                                   *)

\* splitRefund: the product's split, or one in proportion to the order, each
\* part of it rounded down.
SplitOf(req) ==
    LET share(n) == (req.amount * n) \div Net(Components)
    IN  IF req.split # NoSplit THEN req.split
        ELSE [subtotal |-> req.amount + share(Components.discount) - share(Components.tax),
              discount |-> share(Components.discount),
              tax      |-> share(Components.tax)]

Plus(b, c) == [subtotal |-> b.subtotal + c.subtotal, discount |-> b.discount + c.discount, tax |-> b.tax + c.tax]

\* Mutant: only the sum is limited.
FitsInTotal(c) == Net(c) <= Net(Components)

\* ck_orders_refunded: no component is given back beyond what was booked.
Fits(c) ==
    /\ c.subtotal <= Components.subtotal /\ c.discount <= Components.discount /\ c.tax <= Components.tax
    /\ Net(c) \in 0 .. Net(Components)

\* Mutant: in the order they were spent.
GrantedFirst(t) ==
    CASE t = "card" -> {"wallet", "bonus"} \cap Tenders
      [] t = "wallet" -> {"bonus"} \cap Tenders
      [] t = "bonus" -> {}

\* refundOrder: the card, then purchased wallets, then granted ones.
Before(t) ==
    CASE t = "card" -> {}
      [] t = "wallet" -> {"card"}
      [] t = "bonus" -> {"card", "wallet"} \cap Tenders

Left == [t \in Tenders |-> Paid[t] - order.tenders[t]]

\* What each tender gives back of an amount.
Takes(amount) ==
    [t \in Tenders |-> Least({Left[t], Most(amount - Total(Left, Before(t)), 0)})]

\* refundTenders: the customer's wallet is credited with all of it, or each
\* tender with its own share, the card's by way of refunds_payable.
Reversed(d, x, req, takes) ==
    LET split == SplitOf(req)
        credit(e, t, account) == Posted(e, <<"order", x, t>>, "order", account, takes[t])
        back == IF req.to = "wallet"
                THEN Posted(d, <<"order", x, "credit">>, "order", "wallet", req.amount)
                ELSE LET card == credit(d, "card", "refunds_payable")
                         main == IF "wallet" \in Tenders THEN credit(card, "wallet", "wallet") ELSE card
                     IN  IF "bonus" \in Tenders THEN credit(main, "bonus", "bonus") ELSE main
    IN  Posted(Posted(Posted(back,
            <<"order", x, "subtotal">>, "sales", "order", split.subtotal),
            <<"order", x, "tax">>, "gst_payable", "order", split.tax),
            <<"order", x, "discount">>, "order", "discounts", split.discount)

\* The order's row and its tenders' after a refund.
Given(x, req, takes, card) ==
    LET back == Plus(order.back, SplitOf(req))
    IN  [status |-> IF Net(back) = Net(Components) THEN "refunded" ELSE "partially_refunded",
         back |-> back,
         tenders |-> [t \in Tenders |-> order.tenders[t] + takes[t]],
         refunds |-> [order.refunds EXCEPT ![x] = [amount |-> req.amount, card |-> card]]]

\* Refund.  A card share that the payment or the provider refuses undoes it
\* all; what the provider accepted before that stays accepted (Submit).
RefundOrder(x, req) ==
    LET takes == Takes(req.amount)
        card  == IF req.to = "source" THEN takes["card"] ELSE 0
        d     == Reversed(db, x, req, takes)
    IN  /\ source = "order" /\ order.refunds[x] = NotMade
        /\ order.status \in {"paid", "partially_refunded"}
        /\ req.split # NoSplit => Net(req.split) = req.amount
        /\ Fits(Plus(order.back, SplitOf(req)))
        /\ req.amount <= Total(Left, Tenders)
        /\ IF card = 0 THEN db' = d /\ UNCHANGED psp
           ELSE \E r \in Refunds : /\ RefundAmount[r] = card
                                   /\ CanReserve(d, r) /\ Submit(Reserve(d, r), r)
        /\ order' = IF db' = db THEN order ELSE Given(x, req, takes, card)
        /\ UNCHANGED <<source, jobs>>

-----------------------------------------------------------------------------
OrderRefundInit ==
    /\ RevInit
    /\ order = [status |-> "paid", back |-> NoSplit,
                tenders |-> [t \in Tenders |-> 0],
                refunds |-> [x \in OrderRefunds |-> NotMade]]

OrderRefundNext ==
    \/ RevNext /\ UNCHANGED order
    \/ \E x \in OrderRefunds, req \in Requests : RefundOrder(x, req)

OrderRefundSpec == OrderRefundInit /\ [][OrderRefundNext]_refVars

-----------------------------------------------------------------------------
(* Safety                                                                  *)

\* However an order is refunded, piece by piece, with the product's splits or
\* proportional ones, to its source or as store credit: no component goes
\* back beyond what was booked, the tenders give back exactly what the
\* components do, and granted money only when all the real money is back
\* ("promotional credit is the last thing returned", Refund).
OrderGivesBack ==
    /\ \A c \in {"subtotal", "discount", "tax"} : order.back[c] <= Components[c]
    /\ Net(order.back) = Total(order.tenders, Tenders)
    /\ order.status = CASE Net(order.back) = 0 -> "paid"
                        [] Net(order.back) = Net(Components) -> "refunded"
                        [] OTHER -> "partially_refunded"
    /\ \A t \in Tenders \ {"card"} :
          order.tenders[t] > 0 => \A u \in Tenders \ {t, "bonus"} : order.tenders[u] = Paid[u]

\* The card share of an order's refunds is in refunds_payable until the
\* provider has sent it: a refund that fails leaves it there, "still owed to
\* the customer" (failRefund), and neither the order nor its tenders take it
\* back.
CardShareStaysOwed ==
    source = "order" =>
        LET card == [x \in OrderRefunds |-> order.refunds[x].card]
        IN  Balance(db.books, "refunds_payable") = Total(card, OrderRefunds) - SumRefunds(db, {"processed"})

\* "So a refund returns to the balance that paid: promotional credit can never
\* become real money through a refund" (plan.md:708): the real money that goes
\* back is real money that was paid.
PromotionStaysPromotion ==
    LET credited == {id \in DOMAIN db.books : id[1] = "order" /\ db.books[id].credit \in {"wallet", "refunds_payable"}}
    IN  SumOf(db.books, credited) <= Total(Paid, Tenders \ {"bonus"})

\* What is left of an order can be refunded without a split of its own.
RestCanBeRefunded ==
    LET rest == Total(Left, Tenders)
    IN  rest > 0 => Fits(Plus(order.back, SplitOf([amount |-> rest, split |-> NoSplit, to |-> "source"])))
=============================================================================
