------------------------------ MODULE MCWallet ------------------------------
(***************************************************************************)
(* Three wallets: w1 and w3 of one customer, w2 of another; the            *)
(* receivables of two providers, and an account of ours (income, breakage, *)
(* payouts in transit).  The casts of transactions race for one wallet,    *)
(* its hold and its balance; load two wallets of one customer beside a     *)
(* transfer; find a wallet dormant while it is used; load across midnight; *)
(* and withdraw.                                                           *)
(***************************************************************************)
EXTENDS Wallet, TLC

CONSTANTS w1, w2, w3, psp, psp2, ours, h1, j1, j2, j3, j4, j5, jx, p1, p2,
          load, place, capture, sweep, transfer, other, more, lapse, lapse2,
          o1, o2, out1, out2, out3, undo1

MCAccounts == {w1, w2, w3, psp, psp2, ours}
MCSign == (psp :> 1) @@ (psp2 :> 1) @@ (ours :> -1) @@ (w1 :> -1) @@ (w2 :> -1) @@ (w3 :> -1)
MCAllow == (psp :> TRUE) @@ (psp2 :> TRUE) @@ (ours :> TRUE)
           @@ (w1 :> FALSE) @@ (w2 :> FALSE) @@ (w3 :> FALSE)
MCDenomination == [a \in MCAccounts |-> "INR"]
MCAccountId == (psp :> 1) @@ (psp2 :> 2) @@ (ours :> 3) @@ (w1 :> 4) @@ (w2 :> 5) @@ (w3 :> 6)
MCHoldOrder == h1 :> 1

MCLeg(s, a, d, n) ==
    [seq |-> s, account |-> a, currency |-> "INR", direction |-> d, amount |-> n]

Moves(from, to, n) == {MCLeg(1, from, "debit", n), MCLeg(2, to, "credit", n)}

MCEntries == {Moves(psp, w1, 2), Moves(w1, ours, 1), Moves(w1, w2, 1),
              Moves(psp2, w3, 2), Moves(psp2, w1, 1), Moves(w1, ours, 2),
              Moves(w3, ours, 2), Moves(ours, w1, 1)}

Post(j, legs, p) == <<[op |-> "post", journal |-> j, legs |-> legs, party |-> p]>>

MCTxs == {load, place, capture, sweep, transfer, other, more, lapse, lapse2,
          out1, out2, out3, undo1}

\* A top-up of w1, a hold on it, its capture and its expiry; a transfer to w2;
\* top-ups of w3 and again of w1; two workers that find w1 dormant; two
\* withdrawals from w1 and one from w3, and the first of them undone.
MCCalls ==
    (load :> Post(j1, Moves(psp, w1, 2), p1))
    @@ (place :> <<[op |-> "place", hold |-> h1, account |-> w1, amount |-> 2]>>)
    @@ (capture :> <<[op |-> "capture", holds |-> {h1}, journal |-> j2, legs |-> Moves(w1, ours, 1)]>>)
    @@ (sweep :> <<[op |-> "resolve", hold |-> h1, to |-> "expired"]>>)
    @@ (transfer :> Post(j3, Moves(w1, w2, 1), p2))
    @@ (other :> Post(j4, Moves(psp2, w3, 2), p1))
    @@ (more :> Post(j5, Moves(psp2, w1, 1), p1))
    @@ (lapse :> Post(jx, Moves(w1, ours, 2), NoParty))
    @@ (lapse2 :> Post(jx, Moves(w1, ours, 2), NoParty))
    @@ (out1 :> Post(o1, Moves(w1, ours, 1), p1))
    @@ (out2 :> Post(o2, Moves(w1, ours, 1), p1))
    @@ (out3 :> Post(o2, Moves(w3, ours, 2), p1))
    @@ (undo1 :> Post(j2, Moves(ours, w1, 1), NoParty))

Limits(w) == [kind |-> "limits", wallet |-> w, loads |-> TRUE]
Leaves(w) == [kind |-> "withdrawal", wallet |-> w]
Expiry(S) == [kind |-> "expiry", wallet |-> w1, amount |-> 2, seen |-> S]

MCRule == (load :> Limits(w1)) @@ (more :> Limits(w1)) @@ (transfer :> Limits(w2))
          @@ (other :> Limits(w3)) @@ (lapse :> Expiry({j1})) @@ (lapse2 :> Expiry({j1}))
          @@ (place :> NoRule) @@ (capture :> NoRule) @@ (sweep :> NoRule)
          @@ (out1 :> Leaves(w1)) @@ (out2 :> Leaves(w1)) @@ (out3 :> Leaves(w3))
          @@ (undo1 :> [kind |-> "undo", withdrawal |-> o1])

\* Withdrawals and the order that places the hold are rows of the customer.
MCRefers == [t \in MCTxs |-> IF t \in {place, out1, out2, out3} THEN p1 ELSE NoParty]

\* The capture and the transfer may be retried.
MCMaxRuns == [t \in MCTxs |-> IF t \in {capture, transfer} THEN 2 ELSE 1]

MCOwnerOf == (w1 :> p1) @@ (w2 :> p2) @@ (w3 :> p1)
MCLoading == {j1, j3, j4, j5}
MCUndoes == {<<j2, o1>>}
MCDailyWithdrawalLimit == [w \in {w1, w2, w3} |-> IF w = w1 THEN 1 ELSE 2]
MCMaxBalance == [w \in {w1, w2, w3} |-> 2]

Once(S) == [t \in MCTxs |-> IF t \in S THEN 1 ELSE 0]

Racing  == [runs |-> [Once({load, place, sweep, transfer}) EXCEPT ![capture] = 2], days |-> 0]
Capped  == [runs |-> Once({load, transfer, other, more}), days |-> 0]
Dormant == [runs |-> Once({load, transfer, more, lapse}), days |-> 1]
Rivals  == [runs |-> Once({load, transfer, lapse, lapse2}), days |-> 1]
Held    == [runs |-> Once({load, place, lapse, lapse2}), days |-> 1]
Retried == [runs |-> [Once({load}) EXCEPT ![transfer] = 2], days |-> 0]
NewDay  == [runs |-> Once({load, other, transfer}), days |-> 1]
Leaving == [runs |-> Once({load, other, out1, out3}), days |-> 0]
Undone  == [runs |-> Once({load, out1, out2, undo1}), days |-> 0]

\* Two withdrawals of one customer.
MCLeaving == {Leaving}

MCCasts == {Racing, Capped, Dormant, Rivals, Held, Retried, NewDay, Leaving, Undone}
=============================================================================
