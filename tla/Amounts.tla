------------------------------ MODULE Amounts ------------------------------
(***************************************************************************)
(* Sums of amounts of money.                                               *)
(*                                                                         *)
(* Every amount in OpenPay is a whole number of minor units (an int64 of   *)
(* paise), so the sum of the amounts of a set of rows is the number of     *)
(* minor units those rows stand for.  Counting units, instead of folding   *)
(* over the rows, keeps the sum a first-order definition: what it returns  *)
(* is proved in AmountTheorems from the library's facts on Cardinality.    *)
(***************************************************************************)
EXTENDS Integers, FiniteSets

\* The minor units of the rows S: amount[x] units for each x in S.
UnitsOf(amount, S) == UNION {{x} \X (1 .. amount[x]) : x \in S}

\* The sum of amount[x] over the rows x in S.
Total(amount, S) == Cardinality(UnitsOf(amount, S))

\* The sum where amounts may be negative: what was gained less what was lost.
Gain(n) == IF n > 0 THEN n ELSE 0

SignedTotal(amount, S) ==
    Total([x \in S |-> Gain(amount[x])], S) - Total([x \in S |-> Gain(-amount[x])], S)
============================================================================
