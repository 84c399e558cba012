------------------------------- MODULE Ledger -------------------------------
(***************************************************************************)
(* The double-entry ledger of internal/repository/postgresql/ledger.go and *)
(* ledger_hold.go: journals, their postings, the materialised balances and *)
(* the holds that reserve part of a balance.                               *)
(*                                                                         *)
(* Each action is one committed transaction.  That the statements of       *)
(* concurrent transactions, interleaved under row locks, amount to such    *)
(* steps is the subject of LedgerTx.  A call that is refused, and a replay *)
(* that finds its work done, change no row and are stuttering steps.       *)
(***************************************************************************)
EXTENDS Amounts

CONSTANTS
    Accounts,      \* ledger_accounts
    Currencies,
    JournalIds,    \* external ids of journals: the work each one books
    HoldIds,       \* external ids of holds
    MaxLegs,       \* longest journal any caller builds
    MaxAmount,     \* largest amount of one posting or hold
    NormalSign,    \* +1 for an asset or expense account, -1 for the others
    AllowNegative, \* chart accounts may go negative, customer wallets may not
    Denomination,  \* the currency of each account
    Entries        \* the sets of legs that callers submit as one journal

NoJournal == "none"

Leg == [seq : 1 .. MaxLegs, account : Accounts, currency : Currencies,
        direction : {"debit", "credit"}, amount : 0 .. MaxAmount]

\* The accounts, the sizes of amounts and journals, and what callers submit:
\* a journal is a set of legs, each with its own place in the sequence.
ASSUME LedgerAssumption ==
    /\ IsFiniteSet(Accounts) /\ IsFiniteSet(Currencies)
    /\ IsFiniteSet(JournalIds) /\ IsFiniteSet(HoldIds)
    /\ NoJournal \notin JournalIds
    /\ MaxLegs \in Nat /\ MaxAmount \in Nat
    /\ NormalSign \in [Accounts -> {1, -1}]
    /\ AllowNegative \in [Accounts -> BOOLEAN]
    /\ Denomination \in [Accounts -> Currencies]
    /\ Entries \in SUBSET (SUBSET Leg)
    /\ \A legs \in Entries : IsFiniteSet(legs)
    /\ \A legs \in Entries : \A l, m \in legs : l.seq = m.seq => l = m

VARIABLES
    journals,   \* the external ids posted (ledger_journals)
    postings,   \* pairs <<journal, leg>> (ledger_postings)
    raw,        \* ledger_balances.raw_balance: debits minus credits
    held,       \* ledger_balances.held
    holds       \* ledger_holds, by external id

vars == <<journals, postings, raw, held, holds>>

NoHold == [status |-> "absent"]

Hold == [status : {"active", "captured", "released", "expired"},
         account : Accounts, amount : 1 .. MaxAmount, due : BOOLEAN,
         journal : JournalIds \cup {NoJournal}, taken : 0 .. MaxAmount]

TypeOK ==
    /\ journals \in SUBSET JournalIds
    /\ postings \in SUBSET (JournalIds \X Leg)
    /\ raw \in [Accounts -> Int]
    /\ held \in [Accounts -> Int]
    /\ holds \in [HoldIds -> Hold \cup {NoHold}]

-----------------------------------------------------------------------------
(* Sums over postings and holds                                            *)

\* The sum of the amounts of the posting rows R.
Moved(R) == Total([p \in R |-> p[2].amount], R)

Debits(R)  == {p \in R : p[2].direction = "debit"}
Credits(R) == {p \in R : p[2].direction = "credit"}

\* What the rows R contribute to a raw balance: debits minus credits.
Signed(R) == Moved(Debits(R)) - Moved(Credits(R))

On(R, a)      == {p \in R : p[2].account = a}
InCurrency(R, c) == {p \in R : p[2].currency = c}
UpTo(R, n)    == {p \in R : p[2].seq <= n}

\* What the holds H, as recorded in hs, reserve on account a.
ReservedIn(hs, H, a) ==
    LET mine == {h \in H : hs[h].account = a}
    IN  Total([h \in mine |-> hs[h].amount], mine)

Reserved(H, a) == ReservedIn(holds, H, a)

ActiveIn(hs) == {h \in HoldIds : hs[h].status = "active"}

\* The natural balance of a, less what is reserved (Balance.Available).
AvailableOf(a, balance, reserved) == NormalSign[a] * balance - reserved

Available(a) == AvailableOf(a, raw[a], held[a])

-----------------------------------------------------------------------------
(* Posting a journal                                                       *)

\* validateJournal: at least two legs, none empty, and balanced in every
\* currency on its own.
ValidJournal(R) ==
    /\ \E p, q \in R : p # q
    /\ \A p \in R : p[2].amount > 0
    /\ \A c \in Currencies : Signed(InCurrency(R, c)) = 0

\* Mutant: an overdraft check that forgets what is reserved.
CanWriteReserved(bal, R, reserved) ==
    \A p \in R :
        LET a == p[2].account
        IN  /\ p[2].currency = Denomination[a]
            /\ ~ AllowNegative[a] =>
                 AvailableOf(a, bal[a] + Signed(UpTo(On(R, a), p[2].seq)), 0) >= 0

\* writePostings works through the legs in order.  A leg must be in its
\* account's currency, and one that reduces an account without overdraft must
\* leave its natural balance, after that leg, at no less than it reserves.
CanWrite(bal, R, reserved) ==
    \A p \in R :
        LET a == p[2].account
            reduces == IF NormalSign[a] = 1 THEN p[2].direction = "credit"
                                            ELSE p[2].direction = "debit"
            balance == bal[a] + Signed(UpTo(On(R, a), p[2].seq))
        IN  /\ p[2].currency = Denomination[a]
            /\ ~ AllowNegative[a] /\ reduces
                 => AvailableOf(a, balance, reserved[a]) >= 0

\* postJournal, under locks on every account involved.  The reservations in
\* released are freed before the overdraft check; a journal posted before is
\* not posted again.
Write(j, R, released) ==
    LET reserved == [a \in Accounts |-> held[a] - released[a]]
    IN  /\ j \notin journals
        /\ ValidJournal(R)
        /\ \A a \in Accounts : released[a] > 0 => held[a] >= released[a]
        /\ CanWrite(raw, R, reserved)
        /\ journals' = journals \cup {j}
        /\ postings' = postings \cup R
        /\ raw' = [a \in Accounts |-> raw[a] + Signed(On(R, a))]
        /\ held' = reserved

PostJournal(j, legs) ==
    /\ Write(j, {j} \X legs, [a \in Accounts |-> 0])
    /\ UNCHANGED holds

-----------------------------------------------------------------------------
(* Holds                                                                   *)

\* PlaceHold on an account, for an amount; expires_at is in the future.
PlaceHold(h, a, amount) ==
    /\ holds[h] = NoHold
    /\ ~ AllowNegative[a] => Available(a) >= amount
    /\ holds' = [holds EXCEPT ![h] =
                    [status |-> "active", account |-> a, amount |-> amount,
                     due |-> FALSE, journal |-> NoJournal, taken |-> 0]]
    /\ held' = [held EXCEPT ![a] = @ + amount]
    /\ UNCHANGED <<journals, postings, raw>>

\* What the journal with rows R takes from account a.
TakenFrom(R, a) == - NormalSign[a] * Signed(On(R, a))

\* CaptureHolds: one journal spends the holds H and frees each reservation
\* whole.  Every one must still be active, and be debited by between one unit
\* and what it reserves.
CaptureHolds(H, j, legs) ==
    LET R == {j} \X legs
    IN  /\ H # {}
        /\ \A h \in H : /\ holds[h].status = "active"
                        /\ TakenFrom(R, holds[h].account) \in 1 .. holds[h].amount
        /\ Write(j, R, [a \in Accounts |-> Reserved(H, a)])
        /\ holds' = [h \in HoldIds |->
                        IF h \in H
                        THEN [holds[h] EXCEPT !.status = "captured", !.journal = j,
                                              !.taken = TakenFrom(R, holds[h].account)]
                        ELSE holds[h]]

\* resolveHold frees a reservation without moving money.
ResolveHold(h, to) ==
    /\ holds[h].status = "active"
    /\ to = "expired" => holds[h].due
    /\ LET a == holds[h].account
       IN  /\ held[a] >= holds[h].amount
           /\ held' = [held EXCEPT ![a] = @ - holds[h].amount]
    /\ holds' = [holds EXCEPT ![h].status = to]
    /\ UNCHANGED <<journals, postings, raw>>

ReleaseHold(h) == ResolveHold(h, "released")
ExpireHold(h)  == ResolveHold(h, "expired")

\* Time passes a hold's expires_at.  Until the sweeper comes the hold is
\* still active, and may still be captured or released.
FallDue(h) ==
    /\ holds[h].status = "active"
    /\ ~ holds[h].due
    /\ holds' = [holds EXCEPT ![h].due = TRUE]
    /\ UNCHANGED <<journals, postings, raw, held>>

-----------------------------------------------------------------------------
Init ==
    /\ journals = {}
    /\ postings = {}
    /\ raw = [a \in Accounts |-> 0]
    /\ held = [a \in Accounts |-> 0]
    /\ holds = [h \in HoldIds |-> NoHold]

Next ==
    \/ \E j \in JournalIds, legs \in Entries : PostJournal(j, legs)
    \/ \E h \in HoldIds, a \in Accounts, n \in 1 .. MaxAmount : PlaceHold(h, a, n)
    \/ \E H \in SUBSET HoldIds, j \in JournalIds, legs \in Entries :
            CaptureHolds(H, j, legs)
    \/ \E h \in HoldIds : ReleaseHold(h)
    \/ \E h \in HoldIds : ExpireHold(h)
    \/ \E h \in HoldIds : FallDue(h)

Spec == Init /\ [][Next]_vars
-----------------------------------------------------------------------------
(* What the ledger promises                                                *)

\* The materialised balance is the sum of the account's postings: the figure
\* postJournal maintains row by row never drifts from the rows themselves.
BalanceIsPostings == \A a \in Accounts : raw[a] = Signed(On(postings, a))

\* held is the sum of the active holds, whichever way holds were resolved:
\* what makes the "holds %d but a hold of %d is being released" error of
\* postJournal and resolveHold unreachable.
HeldIsActiveHolds == \A a \in Accounts : held[a] = Reserved(ActiveIn(holds), a)

\* An account without overdraft never owes more than it holds, and the money
\* its active holds reserve is there when they are captured (the overdraft
\* checks of writePostings and PlaceHold).
NoOverdraft == \A a \in Accounts : ~ AllowNegative[a] => Available(a) >= 0

\* The books balance in every currency: over all the postings to accounts of
\* that currency, debits equal credits (validateJournal sums per currency,
\* writePostings refuses a leg in another currency than its account's).
BooksBalance ==
    \A c \in Currencies :
        Signed({p \in postings : Denomination[p[2].account] = c}) = 0

\* A captured hold names a posted journal that took the recorded amount from
\* the hold's account, no more than was reserved; a hold resolved any other
\* way names none (CaptureHolds and resolveHold).
CapturesAreJournalled ==
    \A h \in HoldIds :
        /\ holds[h].status = "captured" =>
               /\ holds[h].journal \in journals
               /\ holds[h].taken \in 1 .. holds[h].amount
               /\ holds[h].taken =
                    TakenFrom({p \in postings : p[1] = holds[h].journal},
                              holds[h].account)
        /\ holds[h].status \in {"active", "released", "expired"} =>
               holds[h].journal = NoJournal

\* The ledger is append-only and a hold is decided once: rows are never
\* removed, a journal already posted gains no legs, and a hold that was
\* captured, released or expired never changes again.
AppendOnlyStep ==
    /\ journals \subseteq journals'
    /\ postings \subseteq postings'
    /\ \A p \in postings' \ postings : p[1] \notin journals
    /\ \A h \in HoldIds :
          holds[h].status \in {"captured", "released", "expired"}
             => holds'[h] = holds[h]

AppendOnly == [][AppendOnlyStep]_vars
=============================================================================
