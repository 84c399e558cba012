--------------------------- MODULE MCOrderRefund ---------------------------
(* A payment of 2, refunded by 1, 1 and 2 and charged back for all of it;  *)
(* when an order took it, the order was of 4: 4 and 1 of tax, less 1.      *)
EXTENDS MCReversal, OrderRefund, TLC

CONSTANTS x1, x2, x3

Alike == Permutations({r1, r2}) \cup Permutations({w1, w2}) \cup Permutations({x1, x2})

MCPaid == [t \in Tenders |-> IF t = "card" THEN 2 ELSE 1]
MCComponents == [subtotal |-> 4, discount |-> 1, tax |-> 1]
Split(subtotal, discount, tax) == [subtotal |-> subtotal, discount |-> discount, tax |-> tax]
Ask(split, to) == [amount |-> Net(split), split |-> split, to |-> to]
\* An order of 3 and 1 of tax, for what the splits leave over.
MCTaxed == [subtotal |-> 3, discount |-> 0, tax |-> 1]
MCUnits == [amount : {1, 2}, split : {NoSplit}, to : {"source", "wallet"}]

MCRequests ==
    {Ask(Split(1, 0, 1), "source"), Ask(Split(2, 1, 1), "wallet")}
      \cup [amount : {1, 3}, split : {NoSplit}, to : {"source"}]
=============================================================================
