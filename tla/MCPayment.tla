----------------------------- MODULE MCPayment ------------------------------
(***************************************************************************)
(* A top-up and an order's card share, whose provider may report another   *)
(* amount than was asked for.                                              *)
(***************************************************************************)
EXTENDS Payment

CONSTANTS topup, card, w1, w2

MCPurpose == [p \in Payments |-> IF p = card THEN "order" ELSE "wallet_topup"]
MCAmount == [p \in Payments |-> 2]
MCReports == [p \in Payments |-> {1, 2}]
=============================================================================
