------------------------------ MODULE LedgerTx ------------------------------
(***************************************************************************)
(* Database transactions against the ledger, statement by statement.       *)
(*                                                                         *)
(* A transaction runs a sequence of repository calls (PostJournal,         *)
(* PlaceHold, CaptureHolds, ReleaseHold or ExpireHold).  PostgreSQL runs   *)
(* it READ COMMITTED: every call inserts or locks rows one at a time, in   *)
(* the order the code fixes, waits while another transaction has the row,  *)
(* keeps its locks to the end, and its writes show to the others only when *)
(* it commits.  A refused call, a lost connection or a crash rolls the     *)
(* transaction back, and the caller may run it again, also after a commit  *)
(* whose answer was lost.                                                  *)
(*                                                                         *)
(* The variables of Ledger are the committed tables.                       *)
(***************************************************************************)
EXTENDS Ledger, Sequences

CONSTANTS
    Txs,       \* transactions
    Calls,     \* the calls of each transaction, in order
    AccountId, \* ledger_accounts.id: the order in which balances are locked
    HoldOrder, \* the order of the holds' external ids
    Parties,   \* customers, whose rows serialise limits across wallets
    Refers,    \* the customer a transaction first inserts a row about
    MaxRuns    \* how often each transaction is started at most

NoParty == "none"
Free == "free"

Call == [op : {"post"}, journal : JournalIds, legs : Entries, party : Parties \cup {NoParty}]
        \cup [op : {"place"}, hold : HoldIds, account : Accounts, amount : 1 .. MaxAmount]
        \cup [op : {"capture"}, holds : (SUBSET HoldIds) \ {{}}, journal : JournalIds, legs : Entries]
        \cup [op : {"resolve"}, hold : HoldIds, to : {"released", "expired"}]

ASSUME TxAssumption ==
    /\ \A t \in Txs : Calls[t] \in Seq(Call) \ {<<>>}
    /\ Free \notin Txs /\ NoParty \notin Parties
    /\ AccountId \in [Accounts -> Nat] /\ HoldOrder \in [HoldIds -> Nat]
    /\ \A a, b \in Accounts : AccountId[a] = AccountId[b] => a = b
    /\ \A g, h \in HoldIds : HoldOrder[g] = HoldOrder[h] => g = h
    /\ Refers \in [Txs -> Parties \cup {NoParty}]
    /\ MaxRuns \in [Txs -> Nat \ {0}]

VARIABLES
    owner,  \* the transaction that has a row locked or inserted, or Free
    sharing, \* the transactions whose reference to a customer locks its row
    state,  \* "idle", "running", "committed" or "aborted"
    next,   \* the index of the call a transaction is in
    mine,   \* its private copy of the rows it locked, and the rows it wrote
    runs    \* how often it was started

txVars == <<owner, sharing, state, next, mine, runs>>
allVars == <<vars, txVars>>

Rows == ({"journal"} \X JournalIds) \cup ({"hold"} \X HoldIds)
        \cup ({"balance"} \X Accounts) \cup ({"party"} \X Parties)

\* The copy of a transaction that has locked nothing.
Blank == [journals |-> {}, postings |-> {},
          raw |-> [a \in Accounts |-> 0], held |-> [a \in Accounts |-> 0],
          holds |-> [h \in HoldIds |-> NoHold]]

TxTypeOK ==
    /\ TypeOK
    /\ owner \in [Rows -> Txs \cup {Free}]
    /\ sharing \subseteq {t \in Txs : Refers[t] # NoParty}
    /\ state \in [Txs -> {"idle", "running", "committed", "aborted"}]
    /\ \A t \in Txs : next[t] \in 1 .. Len(Calls[t]) + 1
    /\ \A t \in Txs : /\ mine[t].journals \subseteq JournalIds
                      /\ mine[t].raw \in [Accounts -> Int]
                      /\ mine[t].held \in [Accounts -> Int]
                      /\ mine[t].holds \in [HoldIds -> Hold \cup {NoHold}]
    /\ \A t \in Txs : runs[t] \in 0 .. MaxRuns[t]

-----------------------------------------------------------------------------
(* The rows a call locks, in order                                         *)

\* The elements of a set in ascending order of their rank.
Ascending(S, rank) ==
    CHOOSE s \in [1 .. Cardinality(S) -> S] :
        \A i, k \in 1 .. Cardinality(S) : i < k => rank[s[i]] < rank[s[k]]

Tagged(tag, s) == [i \in DOMAIN s |-> <<tag, s[i]>>]

\* lockAccountsForPosting: ascending account id.
BalanceOrder(S) == Tagged("balance", Ascending(S, AccountId))

HoldsOf(c) == IF c.op = "capture" THEN c.holds
              ELSE IF c.op = "post" THEN {} ELSE {c.hold}

OwnsHolds(t, c) == \A h \in HoldsOf(c) : owner[<<"hold", h>>] = t

\* Mutant: the balance first, for the account an unlocked read found.
BalanceBeforeHold(t, c) ==
    (IF holds[c.hold] = NoHold THEN <<>> ELSE <<<<"balance", holds[c.hold].account>>>>)
        \o <<<<"hold", c.hold>>>>

\* resolveHold: which balance it needs is known once it has locked the hold.
ResolveOrder(t, c) ==
    <<<<"hold", c.hold>>>>
        \o (IF ~ OwnsHolds(t, c) THEN <<>>
            ELSE <<<<"balance", mine[t].holds[c.hold].account>>>>)

\* Mutant: limits across wallets are checked without serialising them.
NoPartyRow(c) == <<>>

\* LockCustomer: the row that serialises limits across a customer's wallets.
PartyRow(c) == IF c.party = NoParty THEN <<>> ELSE <<<<"party", c.party>>>>

\* A journal or a hold is claimed by inserting its external id.  Hold rows
\* come before any balance, in the order of their external ids; the customer
\* row comes after the balances (checkCustomerLimits).
LockOrder(t, c) ==
    CASE c.op = "post" ->
            <<<<"journal", c.journal>>>> \o BalanceOrder({l.account : l \in c.legs}) \o PartyRow(c)
      [] c.op = "place" ->
            <<<<"hold", c.hold>>, <<"balance", c.account>>>>
      [] c.op = "capture" ->
            Tagged("hold", Ascending(c.holds, HoldOrder))
              \o (IF ~ OwnsHolds(t, c) THEN <<>>
                  ELSE <<<<"journal", c.journal>>>>
                       \o BalanceOrder({l.account : l \in c.legs}
                                  \cup {mine[t].holds[h].account : h \in c.holds}))
      [] c.op = "resolve" -> ResolveOrder(t, c)

\* Where in that order are rows it does not have yet, and the first of them.
Missing(t, c) ==
    LET order == LockOrder(t, c) IN {i \in DOMAIN order : owner[order[i]] # t}

Wanted(t, c) ==
    LET missing == Missing(t, c)
    IN  LockOrder(t, c)[CHOOSE i \in missing : \A k \in missing : i <= k]

-----------------------------------------------------------------------------
\* It has not yet inserted the row that refers to a customer.
Referring(t) == Refers[t] # NoParty /\ t \notin sharing

\* The transactions that refer to the customer of a row.
Sharers(row) == {t \in sharing : row = <<"party", Refers[t]>>}

InCall(t) == state[t] = "running" /\ ~ Referring(t) /\ next[t] <= Len(Calls[t])
This(t) == Calls[t][next[t]]

\* The rows of the call's journal, and what it frees of each account, by the
\* rows in m.
RowsOf(c) == {c.journal} \X c.legs
Frees(m, c) == [a \in Accounts |-> ReservedIn(m.holds, HoldsOf(c), a)]

\* Mutant: nobody looks whether the external id was used.
NeverPosted(t, j) == FALSE

\* insertJournal: the external id is taken, by a commit or by this transaction.
PostedBefore(t, j) == j \in journals \cup mine[t].journals

\* GetHoldByExternalID: its own version of a row it has, else the committed one.
Seen(t, h) == IF owner[<<"hold", h>>] = t THEN mine[t].holds[h] ELSE holds[h]

\* The call finds its work done, and changes nothing: the external id of its
\* journal or hold is taken, by a commit or by this transaction, or its holds
\* are already resolved the way it asks.
AlreadyDone(t) ==
    LET c == This(t)
        hold(h) == mine[t].holds[h]
    IN  CASE c.op = "post" -> /\ ValidJournal(RowsOf(c))
                              /\ PostedBefore(t, c.journal)
          [] c.op = "place" -> /\ Seen(t, c.hold) # NoHold
                               /\ Seen(t, c.hold).account = c.account
                               /\ Seen(t, c.hold).amount = c.amount
          [] c.op = "capture" -> /\ OwnsHolds(t, c)
                                 /\ \A h \in c.holds : /\ hold(h).status = "captured"
                                                       /\ hold(h).journal = c.journal
          [] c.op = "resolve" -> OwnsHolds(t, c) /\ hold(c.hold).status = c.to

\* The call is refused, and its transaction rolled back.  Some refusals come
\* before it has locked everything it needs, the rest from the balances.
Refused(t) ==
    LET c == This(t)
        hold(h) == mine[t].holds[h]
        ready == Missing(t, c) = {}
        reserved == [a \in Accounts |-> mine[t].held[a] - Frees(mine[t], c)[a]]
        badJournal == \/ ~ ValidJournal(RowsOf(c))
                      \/ ready /\ ~ CanWrite(mine[t].raw, RowsOf(c), reserved)
    IN  /\ ~ AlreadyDone(t)
        /\ CASE c.op = "post" -> badJournal
             [] c.op = "place" ->
                    \/ Seen(t, c.hold) # NoHold
                    \/ /\ ready /\ ~ AllowNegative[c.account]
                       /\ AvailableOf(c.account, mine[t].raw[c.account],
                                      mine[t].held[c.account]) < c.amount
             [] c.op = "capture" ->
                    \/ \E h \in c.holds : owner[<<"hold", h>>] # t /\ holds[h] = NoHold
                    \/ /\ OwnsHolds(t, c)
                       /\ \/ \E h \in c.holds : hold(h).status # "active"
                          \/ PostedBefore(t, c.journal)
                          \/ \E h \in c.holds :
                                TakenFrom(RowsOf(c), hold(h).account) \notin 1 .. hold(h).amount
                          \/ badJournal
                          \/ /\ ready
                             /\ \E a \in Accounts : mine[t].held[a] < Frees(mine[t], c)[a]
             [] c.op = "resolve" ->
                    \/ owner[<<"hold", c.hold>>] # t /\ holds[c.hold] = NoHold
                    \/ /\ OwnsHolds(t, c)
                       /\ \/ hold(c.hold).status # "active"
                          \/ c.to = "expired" /\ ~ hold(c.hold).due
                          \/ /\ ready
                             /\ mine[t].held[hold(c.hold).account] < hold(c.hold).amount

-----------------------------------------------------------------------------
(* Statements                                                              *)

\* WithTx opens a transaction; also to try again what failed, or what
\* committed without the caller hearing of it.
Begin(t) ==
    /\ state[t] # "running"
    /\ runs[t] < MaxRuns[t]
    /\ state' = [state EXCEPT ![t] = "running"]
    /\ next' = [next EXCEPT ![t] = 1]
    /\ runs' = [runs EXCEPT ![t] = @ + 1]
    /\ UNCHANGED <<vars, owner, sharing, mine>>

\* CreateWithdrawal, CreateOrder: the foreign key of the inserted row locks
\* the customer FOR KEY SHARE.  That is compatible with other references, and
\* waits for whoever has locked the customer FOR UPDATE.
Refer(t) ==
    /\ state[t] = "running" /\ Referring(t)
    /\ owner[<<"party", Refers[t]>>] = Free
    /\ sharing' = sharing \cup {t}
    /\ UNCHANGED <<vars, owner, state, next, mine, runs>>

\* The transaction has the row, and has read it.
Takes(t, row) ==
    /\ owner' = [owner EXCEPT ![row] = t]
    /\ mine' = CASE row[1] = "balance" ->
                       [mine EXCEPT ![t].raw[row[2]] = raw[row[2]],
                                    ![t].held[row[2]] = held[row[2]]]
                [] row[1] = "hold" ->
                       [mine EXCEPT ![t].holds[row[2]] = holds[row[2]]]
                [] OTHER -> mine

\* Mutant: a SELECT without FOR UPDATE waits for nobody.
AcquireUnlocked(t) ==
    /\ InCall(t) /\ ~ AlreadyDone(t) /\ ~ Refused(t)
    /\ Missing(t, This(t)) # {}
    /\ Takes(t, Wanted(t, This(t)))
    /\ UNCHANGED <<vars, sharing, state, next, runs>>

\* An INSERT claims a row, or a SELECT ... FOR UPDATE locks it and reads its
\* latest committed version.  Both wait while another transaction has it, or
\* refers to the customer to be locked.
Acquire(t) ==
    /\ InCall(t) /\ ~ AlreadyDone(t) /\ ~ Refused(t)
    /\ Missing(t, This(t)) # {}
    /\ LET row == Wanted(t, This(t))
       IN  owner[row] = Free /\ Sharers(row) \subseteq {t} /\ Takes(t, row)
    /\ UNCHANGED <<vars, sharing, state, next, runs>>

\* Mutant: a captured reservation is never freed.
PostedKeepingHolds(m, R, j, frees) ==
    [m EXCEPT !.journals = @ \cup {j},
              !.postings = @ \cup R,
              !.raw = [a \in Accounts |-> m.raw[a] + Signed(On(R, a))]]

\* What a journal writes, and what the call writes, once it has every row:
\* still only in its own copy m.
Posted(m, R, j, frees) ==
    [m EXCEPT !.journals = @ \cup {j},
              !.postings = @ \cup R,
              !.raw = [a \in Accounts |-> m.raw[a] + Signed(On(R, a))],
              !.held = [a \in Accounts |-> m.held[a] - frees[a]]]

Written(m, c) ==
    LET hold(h) == m.holds[h]
        posted == Posted(m, RowsOf(c), c.journal, Frees(m, c))
        captured(h) == [hold(h) EXCEPT !.status = "captured", !.journal = c.journal,
                            !.taken = TakenFrom(RowsOf(c), hold(h).account)]
    IN  CASE c.op = "post" -> posted
          [] c.op = "place" -> [m EXCEPT
                !.held[c.account] = @ + c.amount,
                !.holds[c.hold] = [status |-> "active", account |-> c.account,
                                   amount |-> c.amount, due |-> FALSE,
                                   journal |-> NoJournal, taken |-> 0]]
          [] c.op = "capture" -> [posted EXCEPT
                !.holds = [h \in HoldIds |-> IF h \in c.holds THEN captured(h) ELSE hold(h)]]
          [] c.op = "resolve" -> [m EXCEPT
                !.held[hold(c.hold).account] = @ - hold(c.hold).amount,
                !.holds[c.hold].status = c.to]

Execute(t) ==
    /\ InCall(t) /\ ~ AlreadyDone(t) /\ ~ Refused(t)
    /\ Missing(t, This(t)) = {}
    /\ mine' = [mine EXCEPT ![t] = Written(mine[t], This(t))]
    /\ next' = [next EXCEPT ![t] = @ + 1]
    /\ UNCHANGED <<vars, owner, sharing, state, runs>>

Skip(t) ==
    /\ InCall(t) /\ AlreadyDone(t)
    /\ next' = [next EXCEPT ![t] = @ + 1]
    /\ UNCHANGED <<vars, owner, sharing, state, mine, runs>>

Release(t) ==
    /\ owner' = [row \in Rows |-> IF owner[row] = t THEN Free ELSE owner[row]]
    /\ sharing' = sharing \ {t}
    /\ mine' = [mine EXCEPT ![t] = Blank]
    /\ UNCHANGED <<next, runs>>

Commit(t) ==
    /\ state[t] = "running" /\ next[t] > Len(Calls[t])
    /\ journals' = journals \cup mine[t].journals
    /\ postings' = postings \cup mine[t].postings
    /\ raw' = [a \in Accounts |-> IF owner[<<"balance", a>>] = t THEN mine[t].raw[a] ELSE raw[a]]
    /\ held' = [a \in Accounts |-> IF owner[<<"balance", a>>] = t THEN mine[t].held[a] ELSE held[a]]
    /\ holds' = [h \in HoldIds |-> IF owner[<<"hold", h>>] = t THEN mine[t].holds[h] ELSE holds[h]]
    /\ state' = [state EXCEPT ![t] = "committed"]
    /\ Release(t)

\* The call's error, a cancelled request, a lost connection or a crash.
Abort(t) ==
    /\ state[t] = "running"
    /\ state' = [state EXCEPT ![t] = "aborted"]
    /\ Release(t)
    /\ UNCHANGED vars

\* Time passes the hold's expires_at, whoever has it locked.
Elapse(h) ==
    /\ FallDue(h)
    /\ mine' = [t \in Txs |-> IF owner[<<"hold", h>>] = t
                              THEN [mine[t] EXCEPT !.holds[h].due = TRUE] ELSE mine[t]]
    /\ UNCHANGED <<owner, sharing, state, next, runs>>

-----------------------------------------------------------------------------
TxInit ==
    /\ Init
    /\ owner = [row \in Rows |-> Free]
    /\ sharing = {}
    /\ state = [t \in Txs |-> "idle"]
    /\ next = [t \in Txs |-> 1]
    /\ mine = [t \in Txs |-> Blank]
    /\ runs = [t \in Txs |-> 0]

TxNext ==
    \/ \E t \in Txs : \/ Begin(t) \/ Refer(t) \/ Acquire(t) \/ Execute(t) \/ Skip(t)
                      \/ Commit(t) \/ Abort(t)
    \/ \E h \in HoldIds : Elapse(h)

TxSpec == TxInit /\ [][TxNext]_allVars

-----------------------------------------------------------------------------
(* What the row locks achieve                                              *)

\* Every transaction of one call is a single step of the ledger, or none:
\* the locks of lockAccountsForPosting, lockHold and lockAccount, and the
\* unique external ids, make interleaved calls behave as if run one by one.
\* This is Spec; most steps change nothing committed, and say so first.
ImplementsLedger == Init /\ [][vars' # vars => Next]_vars

\* The call wants a row it has not got.
Wants(t) == InCall(t) /\ ~ AlreadyDone(t) /\ ~ Refused(t) /\ Missing(t, This(t)) # {}

\* Who refers to the customer that t wants to lock.
ReferredBy(t) == IF Wants(t) THEN Sharers(Wanted(t, This(t))) \ {t} ELSE {}

\* The transactions that t waits for.
Blockers(t) ==
    IF state[t] = "running" /\ Referring(t) THEN {owner[<<"party", Refers[t]>>]} \ {Free}
    ELSE IF Wants(t) THEN ({owner[Wanted(t, This(t))]} \ {Free}) \cup ReferredBy(t) ELSE {}

Waiting == {t \in Txs : Blockers(t) # {}}

\* Sets of transactions none of which goes on before another of them ends.
Circles == {S \in (SUBSET Waiting) \ {{}} : \A t \in S : Blockers(t) \cap S # {}}

\* No transactions wait for each other in a circle: "every path agrees on the
\* order and none can deadlock" (LockCustomer; ledger_hold.go says the same).
NoDeadlock == Circles = {}

\* What is true of that order: in every circle, one transaction wants to lock a
\* customer that another one referred to before it locked anything.  The rows
\* of journals, holds and balances and the customer's lock after them, taken
\* by interleaved calls, never make a circle by themselves.
OnlyReferencesDeadlock ==
    \A S \in Circles : \E t \in S : ReferredBy(t) \cap S # {}
=============================================================================
