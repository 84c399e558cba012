------------------------------ MODULE MCOrder -------------------------------
(* Two orders of 3 that draw on the same two wallets, a granted one of 1   *)
(* and a purchased one of 2: with the explicit shares below, or            *)
(* automatically.                                                          *)
EXTENDS Order, TLC

CONSTANTS o1, o2, bonus, main

MCPrice == [o \in Orders |-> 3]
MCFund == (bonus :> 1) @@ (main :> 3)
MCMaxTxn == (bonus :> 1) @@ (main :> 2)
MCDrawOrder == <<bonus, main>>
MCPlans == [o \in Orders |-> {(bonus :> 0) @@ (main :> 2), (bonus :> 1) @@ (main :> 1)}]
=============================================================================
