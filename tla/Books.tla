------------------------------- MODULE Books -------------------------------
(***************************************************************************)
(* The ledger as the engines above it see it: two-legged journals, each    *)
(* posted at most once under its external id, and the balances they add up *)
(* to.  Ledger and LedgerTx show that the repository provides this.        *)
(***************************************************************************)
EXTENDS Amounts

\* A journal moves amount from one account (debited) to another (credited).
Journal(debit, credit, amount) == [debit |-> debit, credit |-> credit, amount |-> amount]

NoBooks == [id \in {} |-> Journal("", "", 0)]

\* PostJournal: a journal whose external id is taken is not posted again.
Post(books, id, journal) ==
    [x \in DOMAIN books \cup {id} |-> IF x \in DOMAIN books THEN books[x] ELSE journal]

SumOf(books, J) == Total([x \in J |-> books[x].amount], J)

\* What an account has been credited less what it has been debited: the
\* natural balance of a liability or income account.
Balance(books, account) ==
    SumOf(books, {x \in DOMAIN books : books[x].credit = account})
      - SumOf(books, {x \in DOMAIN books : books[x].debit = account})
=============================================================================
