----------------------------- MODULE MCLedgerTx -----------------------------
(***************************************************************************)
(* Two orders that hold money in the same two wallets each.  Transactions  *)
(* of one call are the subject of MCWallet.                                *)
(***************************************************************************)
EXTENDS LedgerTx, TLC

CONSTANTS w1, w2, psp, h1, h2, h3, h4, j1, t0, t1, t2

MCSign == (w1 :> -1) @@ (w2 :> -1) @@ (psp :> 1)
MCAllow == (w1 :> FALSE) @@ (w2 :> FALSE) @@ (psp :> TRUE)
MCDenomination == [a \in {w1, w2, psp} |-> "INR"]
MCAccountId == (psp :> 1) @@ (w1 :> 2) @@ (w2 :> 3)
MCHoldOrder == [h \in HoldIds |-> CHOOSE i \in 1 .. 4 : <<h1, h2, h3, h4>>[i] = h]

MCLeg(s, a, d, n) ==
    [seq |-> s, account |-> a, currency |-> "INR", direction |-> d, amount |-> n]

FundBoth == {MCLeg(1, psp, "debit", 2), MCLeg(2, w1, "credit", 1), MCLeg(3, w2, "credit", 1)}

MCEntries == {FundBoth}

Post(j, legs, p) == [op |-> "post", journal |-> j, legs |-> legs, party |-> p]
Place(h, a, n) == [op |-> "place", hold |-> h, account |-> a, amount |-> n]

\* Two orders, each paid from both wallets, in the order their requests list
\* them (order.Create: planTenders keeps it, holdAndCharge places the holds).
Orders == (t0 :> <<Post(j1, FundBoth, NoParty)>>)
          @@ (t1 :> <<Place(h1, w1, 1), Place(h2, w2, 1)>>)
          @@ (t2 :> <<Place(h3, w2, 1), Place(h4, w1, 1)>>)

MCRefers == [t \in Txs |-> NoParty]

MCMaxRuns == [t \in Txs |-> 1]
=============================================================================
