----------------------------- MODULE Collection -----------------------------
(***************************************************************************)
(* What collecting money promises, without providers, webhooks or jobs.    *)
(*                                                                         *)
(* A payment is opened, and then closed or received, once; a closed one    *)
(* may still be received, late.  What is received is credited once, whole, *)
(* to whom it was paid, or set aside; an order learns of it in the same    *)
(* step.  Payment implements this.                                         *)
(***************************************************************************)
EXTENDS Naturals

CONSTANTS
    Payments,
    Purpose,    \* "wallet_topup" or "order"
    Amount,     \* what each payment asks for
    Sums        \* what providers may report

VARIABLES
    phase,    \* "none", "open", "closed" or "received"
    credited, \* what was booked for each payment: pairs of an account and a sum
    orders    \* the status of the order each order payment collects for

collectionVars == <<phase, credited, orders>>

ForOrder(p) == Purpose[p] = "order"

\* Whom the money of a payment is for.
Beneficiary(p) == IF ForOrder(p) THEN "sales" ELSE "wallet"

\* An order still waiting for a payment that is over fails or is cancelled.
OrderGivesUp(p) ==
    IF ForOrder(p) /\ orders[p] = "pending_payment"
    THEN \E to \in {"failed", "cancelled"} : orders' = [orders EXCEPT ![p] = to]
    ELSE UNCHANGED orders

OpenPayment(p) ==
    /\ phase[p] = "none"
    /\ phase' = [phase EXCEPT ![p] = "open"]
    /\ UNCHANGED <<credited, orders>>

ClosePayment(p) ==
    /\ phase[p] \in {"none", "open"}
    /\ phase' = [phase EXCEPT ![p] = "closed"]
    /\ OrderGivesUp(p)
    /\ UNCHANGED credited

\* The money arrives: an order takes it only while it waits for it; money it
\* does not take is owed back; a sum nobody asked for goes to suspense, and
\* the order is not told.
Receive(p) ==
    /\ phase[p] \in {"open", "closed"}
    /\ phase' = [phase EXCEPT ![p] = "received"]
    /\ \E sum \in Sums, account \in {Beneficiary(p), "refunds_payable", "suspense"} :
          /\ account = "suspense" <=> sum # Amount[p]
          /\ credited' = [credited EXCEPT ![p] = {<<account, sum>>}]
          /\ CASE account = "sales" -> /\ orders[p] = "pending_payment"
                                       /\ orders' = [orders EXCEPT ![p] = "paid"]
               [] account = "refunds_payable" -> OrderGivesUp(p)
               [] OTHER -> UNCHANGED orders

CollectionInit ==
    /\ phase = [p \in Payments |-> "none"]
    /\ credited = [p \in Payments |-> {}]
    /\ orders = [p \in Payments |-> "pending_payment"]

CollectionNext ==
    \E p \in Payments : OpenPayment(p) \/ ClosePayment(p) \/ Receive(p)

CollectionSpec == CollectionInit /\ [][CollectionNext]_collectionVars

-----------------------------------------------------------------------------
CollectionTypeOK ==
    /\ phase \in [Payments -> {"none", "open", "closed", "received"}]
    /\ credited \in [Payments -> SUBSET ({"wallet", "sales", "refunds_payable", "suspense"} \X Sums)]
    /\ orders \in [Payments -> {"pending_payment", "paid", "failed", "cancelled"}]

\* An order is paid exactly by the money booked as its sales, and an order
\* still waits only for a payment that may come, or whose sum is in suspense
\* (CaptureOrder and PaymentEnded run in the payment's transaction).
OrderFollowsMoney ==
    \A p \in Payments :
        ForOrder(p) =>
            /\ orders[p] = "paid" <=> \E sum \in Sums : credited[p] = {<<"sales", sum>>}
            /\ orders[p] = "pending_payment" =>
                  \/ phase[p] \in {"none", "open"}
                  \/ \E sum \in Sums : credited[p] = {<<"suspense", sum>>}

\* Received money stays received, for the same sum and where it went: no
\* stale news, late sweep or second sync moves a payment back.
ReceivedStaysStep ==
    \A p \in Payments :
        phase[p] = "received" =>
            phase'[p] = "received" /\ credited'[p] = credited[p] /\ orders'[p] = orders[p]

ReceivedStays == [][ReceivedStaysStep]_collectionVars
=============================================================================
