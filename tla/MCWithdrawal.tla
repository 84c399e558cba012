---------------------------- MODULE MCWithdrawal -----------------------------
(* A wallet of 3 and two requests: one of 2 that needs approval, and one of *)
(* 1 that is sent at once and may be repeated.                              *)
EXTENDS Withdrawal

CONSTANTS q1, q2, x1, x2, x3, w1, w2

MCRequestOf == [x \in Withdrawals |-> IF x = x1 THEN q1 ELSE q2]
MCAmount == [q \in Requests |-> IF q = q1 THEN 2 ELSE 1]
=============================================================================
