------------------------------- MODULE Wallet -------------------------------
(***************************************************************************)
(* Wallet operations: what internal/wallet asks of a posting once it is    *)
(* written and before it commits.                                          *)
(*                                                                         *)
(* Every operation is a transaction of LedgerTx.  PostJournalChecked runs  *)
(* its caller's check while the transaction has the balances locked: a     *)
(* credit must respect the limits of its wallet, and under the customer's  *)
(* row those of the customer; an expiry must find the wallet as it was     *)
(* when the sweep listed it, which locked nothing.  A withdrawal's daily   *)
(* limits are checked the same way (internal/withdrawal).  A refused check *)
(* rolls the transaction back, which Abort allows at any time.             *)
(***************************************************************************)
EXTENDS LedgerTx

CONSTANTS
    Wallets,              \* the accounts that are wallets of fundable types
    OwnerOf,              \* the customer each belongs to
    Rule,                 \* what each transaction checks
    Loading,              \* journals of the kinds that count as loads
    MaxBalance,           \* WalletType.MaxBalance and DailyLoadLimit, by wallet
    DailyLoadLimit,
    MaxCustomerBalance,
    MaxCustomerDailyLoad,
    Withdrawing,          \* journals of withdrawal requests
    Undoes,               \* pairs of a journal and the withdrawal it returns the money of
    DailyWithdrawalLimit, \* WalletType.DailyWithdrawalLimit, by wallet
    MaxCustomerDailyWithdrawal,
    MaxCustomerDailyWithdrawals,
    Casts                 \* how often each transaction is started, and for how many days

NoRule == [kind |-> "none"]

Credited(c, w) == \E l \in c.legs : l.account = w /\ l.direction = "credit"
Debited(c, w)  == \E l \in c.legs : l.account = w /\ l.direction = "debit"

\* The limits t checks are those of w.
Checks(t, w) == Rule[t].kind = "limits" /\ Rule[t].wallet = w

ASSUME WalletAssumption ==
    /\ Wallets \subseteq Accounts /\ OwnerOf \in [Wallets -> Parties]
    /\ Loading \subseteq JournalIds
    /\ Withdrawing \subseteq JournalIds /\ Undoes \subseteq JournalIds \X Withdrawing
    /\ \A t \in Txs : Rule[t] \in
          {NoRule} \cup [kind : {"limits"}, wallet : Wallets, loads : BOOLEAN]
                   \cup [kind : {"withdrawal"}, wallet : Wallets]
                   \cup [kind : {"undo"}, withdrawal : Withdrawing]
                   \cup [kind : {"expiry"}, wallet : Wallets, amount : Nat, seen : SUBSET JournalIds]
    /\ \A t \in Txs : Rule[t] # NoRule => Len(Calls[t]) = 1 /\ Calls[t][1].op = "post"
    /\ MaxBalance \in [Wallets -> Nat] /\ DailyLoadLimit \in [Wallets -> Nat]
    /\ DailyWithdrawalLimit \in [Wallets -> Nat]
    /\ MaxCustomerBalance \in Nat /\ MaxCustomerDailyLoad \in Nat
    /\ MaxCustomerDailyWithdrawal \in Nat /\ MaxCustomerDailyWithdrawals \in Nat
    \* Who checks limits has the row of the wallet's customer (LockCustomer);
    \* topups, grants and transfers are posted by post alone, under the limits
    \* of the wallet they credit, and withdrawals by Request alone.
    /\ \A t \in Txs : Rule[t].kind \in {"limits", "withdrawal"}
                        => Calls[t][1].party = OwnerOf[Rule[t].wallet]
    \* Request inserts its row before it debits the wallet.
    /\ \A t \in Txs : Rule[t].kind = "withdrawal" => Refers[t] = OwnerOf[Rule[t].wallet]
    /\ \A t \in Txs : \A c \in {Calls[t][i] : i \in DOMAIN Calls[t]} :
          c.op \in {"post", "capture"} =>
              /\ c.journal \in Loading => \A w \in Wallets : Credited(c, w) => Checks(t, w) /\ Rule[t].loads
              /\ c.journal \in Withdrawing => \A w \in Wallets : Debited(c, w) =>
                    Rule[t].kind = "withdrawal" /\ Rule[t].wallet = w
    \* An expiry's journal is named after its wallet and the last posting seen
    \* there, and debits that wallet.
    /\ \A t, u \in Txs : \A c \in {Calls[u][i] : i \in DOMAIN Calls[u]} :
          /\ Rule[t].kind = "expiry"
          /\ c.op \in {"post", "capture"} /\ c.journal = Calls[t][1].journal
          => Rule[u] = Rule[t] /\ \E l \in c.legs : l.account = Rule[t].wallet
    /\ \A c \in Casts : c.days \in Nat /\ \A t \in Txs : c.runs[t] \in 0 .. MaxRuns[t]

VARIABLES
    cast,  \* the transactions that occur in this behaviour
    today, \* the day the servers' clocks say
    began, \* the day each transaction began: created_at of all it inserts
    dated  \* created_at of the journals

dayVars == <<cast, today, began, dated>>
walletVars == <<allVars, dayVars>>

WalletTypeOK ==
    /\ TxTypeOK
    /\ cast \in Casts /\ today \in 0 .. cast.days
    /\ began \in [Txs -> 0 .. cast.days] /\ dated \in [JournalIds -> 0 .. cast.days]

-----------------------------------------------------------------------------
(* What a check reads                                                      *)

\* What a transaction would commit, over what the others have committed.
Visible(t) == postings \cup mine[t].postings \cup RowsOf(This(t))

Created(t) == [j \in JournalIds |-> IF j \in journals THEN dated[j] ELSE began[t]]

\* A wallet is money owed to its customer: credits minus debits.
NaturalBalance(t, w) ==
    - (IF owner[<<"balance", w>>] = t THEN mine[t].raw[w] ELSE raw[w])
    - Signed(On(RowsOf(This(t)), w))

\* SumWalletLoadsSince the start of the day: loads, not money coming back.
Loaded(R, w, created) ==
    {p \in Credits(On(R, w)) : p[1] \in Loading /\ created[p[1]] >= today}

WalletsOf(customer) == {w \in Wallets : OwnerOf[w] = customer}

\* CustomerFundedBalance, CustomerFundedLoadsSince, and WithdrawnSince without
\* a wallet: a balance per wallet summed, rows per wallet put together.
SumOver(balance, customer) == SignedTotal(balance, WalletsOf(customer))
AllOf(rows, customer) == UNION {rows[w] : w \in WalletsOf(customer)}

\* checkLimitsAfterPosting
WithinWalletLimits(t, w) ==
    /\ NaturalBalance(t, w) <= MaxBalance[w]
    /\ Rule[t].loads => Moved(Loaded(Visible(t), w, Created(t))) <= DailyLoadLimit[w]

\* checkCustomerLimits
WithinCustomerLimits(t, customer) ==
    LET balance == [w \in Wallets |-> NaturalBalance(t, w)]
        loaded == [w \in Wallets |-> Loaded(Visible(t), w, Created(t))]
    IN  /\ SumOver(balance, customer) <= MaxCustomerBalance
        /\ Rule[t].loads => Moved(AllOf(loaded, customer)) <= MaxCustomerDailyLoad

\* WithdrawnSince the start of the day: what was withdrawn and not undone.
Withdrawn(R, w, created) ==
    {p \in Debits(On(R, w)) : /\ p[1] \in Withdrawing /\ created[p[1]] >= today
                              /\ \A u \in journals : <<u, p[1]>> \notin Undoes}

\* checkDailyLimits: the wallet's, and the customer's sum and count.
WithinDailyLimits(t, w) ==
    LET made == [v \in Wallets |-> Withdrawn(Visible(t), v, Created(t))]
        all == AllOf(made, OwnerOf[w])
    IN  /\ Moved(made[w]) <= DailyWithdrawalLimit[w]
        /\ Moved(all) <= MaxCustomerDailyWithdrawal
        /\ Cardinality(all) <= MaxCustomerDailyWithdrawals

JournalsOn(w) == {p[1] : p \in On(postings, w)}

\* Mutant: only what is left counts, not what happened since.
NothingLeft(t, w) ==
    NaturalBalance(t, w) = 0 /\ mine[t].held[w] = 0

\* Expire: nothing was posted since, and nothing is left or held.
StillIdle(t, w) ==
    /\ JournalsOn(w) = Rule[t].seen
    /\ NaturalBalance(t, w) = 0 /\ mine[t].held[w] = 0

Passes(t) ==
    LET rule == Rule[t] IN
    CASE rule.kind = "limits" -> /\ WithinWalletLimits(t, rule.wallet)
                                 /\ WithinCustomerLimits(t, OwnerOf[rule.wallet])
      [] rule.kind = "withdrawal" -> WithinDailyLimits(t, rule.wallet)
      [] rule.kind = "undo" -> rule.withdrawal \in journals
      [] rule.kind = "expiry" -> StillIdle(t, rule.wallet)
      [] OTHER -> TRUE

-----------------------------------------------------------------------------
\* ListRollingExpiryCandidates: the wallet still has money, none of it held,
\* and its last posting is days old.  The journal of the expiry is named
\* after that posting and debits the balance found here.
Candidate(t) ==
    LET rule == Rule[t] IN
    /\ JournalsOn(rule.wallet) = rule.seen
    /\ \A j \in rule.seen : dated[j] < today
    /\ raw[rule.wallet] = - rule.amount /\ held[rule.wallet] = 0

BeginOperation(t) ==
    /\ runs[t] < cast.runs[t]
    /\ Rule[t].kind = "expiry" => Candidate(t)
    /\ Begin(t)
    /\ began' = [began EXCEPT ![t] = today]
    /\ UNCHANGED <<cast, today, dated>>

ExecuteChecked(t) ==
    /\ Execute(t)
    /\ Passes(t)
    /\ UNCHANGED dayVars

CommitOperation(t) ==
    /\ Commit(t)
    /\ dated' = [j \in JournalIds |-> IF j \in mine[t].journals THEN began[t] ELSE dated[j]]
    /\ UNCHANGED <<cast, today, began>>

Midnight ==
    /\ today < cast.days
    /\ today' = today + 1
    /\ UNCHANGED <<allVars, cast, began, dated>>

WalletInit ==
    /\ TxInit
    /\ cast \in Casts
    /\ today = 0
    /\ began = [t \in Txs |-> 0]
    /\ dated = [j \in JournalIds |-> 0]

WalletNext ==
    \/ \E t \in Txs : \/ BeginOperation(t) \/ ExecuteChecked(t) \/ CommitOperation(t)
                      \/ (Refer(t) \/ Acquire(t) \/ Skip(t) \/ Abort(t)) /\ UNCHANGED dayVars
    \/ \E h \in HoldIds : Elapse(h) /\ UNCHANGED dayVars
    \/ Midnight

WalletSpec == WalletInit /\ [][WalletNext]_walletVars

-----------------------------------------------------------------------------
(* Safety                                                                  *)

\* "It runs with the wallet's account locked and the posting already written,
\* so it sees the balance as it would commit and no concurrent posting can
\* slip past it" (checkLimitsAfterPosting), and "they span wallets, so the
\* customer row is locked to serialise them" (checkCustomerLimits): no limit
\* is exceeded by operations that run beside each other on one wallet or on
\* several of one customer, today's loads and withdrawals included.
BalancesFit ==
    /\ \A w \in Wallets : - raw[w] <= MaxBalance[w]
    /\ \A c \in Parties : SumOver([w \in Wallets |-> - raw[w]], c) <= MaxCustomerBalance

DaysFit ==
    LET loaded == [w \in Wallets |-> Loaded(postings, w, dated)]
        made == [w \in Wallets |-> Withdrawn(postings, w, dated)]
    IN  /\ \A w \in Wallets : /\ Moved(loaded[w]) <= DailyLoadLimit[w]
                               /\ Moved(made[w]) <= DailyWithdrawalLimit[w]
        /\ \A c \in Parties : /\ Moved(AllOf(loaded, c)) <= MaxCustomerDailyLoad
                              /\ Moved(AllOf(made, c)) <= MaxCustomerDailyWithdrawal
                              /\ Cardinality(AllOf(made, c)) <= MaxCustomerDailyWithdrawals

LimitsHold == BalancesFit /\ DaysFit

\* "Under the ledger lock it confirms nothing else moved and the balance is
\* now exactly zero" (Expire): what lapses is the whole of a wallet that no
\* transaction touched between the sweep's look and the expiry's commit.
ExpiryTakesIdleStep ==
    \A t \in Txs :
        Rule[t].kind = "expiry" /\ Calls[t][1].journal \in journals' \ journals
            => LET w == Rule[t].wallet IN
               JournalsOn(w) = Rule[t].seen /\ raw'[w] = 0 /\ held'[w] = 0

ExpiryTakesIdle == [][ExpiryTakesIdleStep]_walletVars

\* "MaxCustomerDailyLoad caps what one person may load in a day" (Limits): no
\* day's loads exceed it, when that day is over either.
EveryDaysLoadsFit ==
    \A day \in 0 .. today :
        LET on == [w \in Wallets |-> {p \in Credits(On(postings, w)) :
                                          p[1] \in Loading /\ dated[p[1]] = day}]
        IN  \A c \in Parties : Moved(AllOf(on, c)) <= MaxCustomerDailyLoad
=============================================================================
