----------------------------- MODULE MCReversal -----------------------------
(* A payment of 2, refunded by 1, 1 and 2 and charged back for all of it:   *)
(* partial refunds, refunds that do not fit together, and a chargeback of   *)
(* more than is left.                                                       *)
EXTENDS Reversal

CONSTANTS r1, r2, r3, d1, d2, w1, w2

MCRefundAmount == [r \in Refunds |-> IF r = r3 THEN 2 ELSE 1]
MCDisputeAmount == [x \in Disputes |-> 2]
=============================================================================
