------------------------------- MODULE Recon --------------------------------
(***************************************************************************)
(* Settlement reconciliation: internal/recon and its tables.               *)
(*                                                                         *)
(* A provider pays out in settlements and reports what each line is for.   *)
(* Cycles, started by every worker's timer and by operators, ingest the    *)
(* new settlements one transaction each, in the order of their settled_at, *)
(* then flag the payments that were not settled in time.  Two cycles may   *)
(* run at once; captures, refunds and chargebacks are booked meanwhile,    *)
(* and operators decide the breaks that come of it all.                    *)
(*                                                                         *)
(* A settlement is named by its place in the order of settled_at; a line's *)
(* fee stands for the fee and the tax on it.                               *)
(***************************************************************************)
EXTENDS Amounts, Sequences

CONSTANTS
    Captures,       \* payments that may be captured
    Returns,        \* refunds and chargebacks, which settle as negative lines
    Value,          \* the ledger's amount of each of them, signed
    Unknown,        \* references that are nobody's
    Reports,        \* what a settlement may say: sequences of lines
    Workers,        \* whoever runs a cycle
    MaxSettlements,
    MaxFlags        \* how often one payment is flagged at most

Records == Captures \cup Returns
Refs == Records \cup Unknown

Line == [ref : Refs, gross : Int, fee : Nat, net : Int]

ASSUME ReconAssumption ==
    /\ Captures \cap Returns = {} /\ Records \cap Unknown = {}
    /\ Value \in [Records -> Int]
    /\ \A p \in Captures : Value[p] > 0
    /\ \A x \in Returns : Value[x] < 0
    /\ Reports \subseteq Seq(Line)
    \* A break is named after its settlement and line, a flag after its payment.
    /\ \A p \in Captures : p \notin Nat
    /\ MaxSettlements \in Nat /\ MaxFlags \in Nat

VARIABLES
    booked,    \* payments captured, refunds processed, disputes lost
    parked,    \* payments captured at another amount than they asked for
    settled,   \* payments with a settled_at
    overdue,   \* payments captured longer than SettleWithin ago
    published, \* the provider's settlements, in the order of settled_at
    items,     \* settlement_items: the class of every line of those ingested
    breaks,    \* recon_breaks
    accounts,  \* bank, the provider's receivable and suspense, and the write-offs
    jobs       \* where each worker's cycle is

reconVars == <<booked, parked, settled, overdue, published, items, breaks, accounts, jobs>>

Class == {"matched", "missing_in_ledger", "amount_mismatch", "fee_mismatch", "duplicate"}

Idle == [phase |-> "idle"]

\* The settlements in our tables.
Ingested == DOMAIN items

ReconTypeOK ==
    /\ booked \subseteq Records /\ parked \subseteq Captures /\ settled \subseteq Captures /\ overdue \subseteq Captures
    /\ \A s \in DOMAIN published : published[s] \in Reports
    /\ Ingested \subseteq DOMAIN published
    /\ \A s \in Ingested : items[s] \in [DOMAIN published[s] -> Class]
    /\ \A b \in DOMAIN breaks :
          /\ breaks[b].class \in Class \cup {"missing_at_provider"}
          /\ breaks[b].amount \in Int
          /\ breaks[b].status \in {"open", "resolved", "force_matched", "written_off"}
    /\ accounts \in [{"bank", "receivable", "suspense", "writeoffs"} -> Int]
    /\ \A w \in Workers : jobs[w].phase \in {"idle", "ingest", "post", "list", "flag"}

-----------------------------------------------------------------------------
(* The ledger and the provider                                             *)

\* A capture, a processed refund or a lost dispute moves the receivable.
Book(x) ==
    /\ x \notin booked
    /\ booked' = booked \cup {x}
    /\ accounts' = [accounts EXCEPT !.receivable = @ + Value[x]]
    /\ UNCHANGED <<parked, settled, overdue, published, items, breaks, jobs>>

\* applyCapture parks a capture of another amount than was asked for in the
\* provider's suspense, the account that breaks are about, and opens none.
Park(p) ==
    /\ p \notin booked
    /\ booked' = booked \cup {p}
    /\ parked' = parked \cup {p}
    /\ accounts' = [accounts EXCEPT !.receivable = @ + Value[p],
                                    !.suspense = @ - Value[p]]
    /\ UNCHANGED <<settled, overdue, published, items, breaks, jobs>>

\* SettleWithin passes.
Age(p) ==
    /\ p \in booked \ overdue
    /\ overdue' = overdue \cup {p}
    /\ UNCHANGED <<booked, parked, settled, published, items, breaks, accounts, jobs>>

\* The provider pays out, and its report says anything.
Publish(report) ==
    /\ Len(published) < MaxSettlements
    /\ published' = Append(published, report)
    /\ UNCHANGED <<booked, parked, settled, overdue, items, breaks, accounts, jobs>>

-----------------------------------------------------------------------------
(* Matching                                                                *)

Matches(lines, classes) == {lines[i].ref : i \in {k \in DOMAIN lines : classes[k] = "matched"}}

\* IsSettled: some ingested settlement has a matched item of this reference.
MatchedRefs == UNION {Matches(published[s], items[s]) : s \in Ingested}

\* Mutant: what earlier settlements matched is not looked up.
ClassifyAlone(lines, i) ==
    CASE lines[i].ref \in {lines[k].ref : k \in 1 .. i - 1} -> "duplicate"
      [] OTHER ->
           IF lines[i].ref \notin booked THEN "missing_in_ledger"
           ELSE IF lines[i].gross # Value[lines[i].ref] THEN "amount_mismatch" ELSE "matched"

\* match classifies line i of a settlement against the ledger.  What it
\* repeats may be an earlier line of the same settlement, however classified.
Classify(lines, i) ==
    LET line == lines[i] IN
    CASE line.ref \in MatchedRefs \cup {lines[k].ref : k \in 1 .. i - 1} -> "duplicate"
      [] OTHER ->
           IF line.ref \notin booked THEN "missing_in_ledger"
           ELSE IF line.gross # Value[line.ref] THEN "amount_mismatch"
           ELSE IF line.net + line.fee # line.gross THEN "fee_mismatch" ELSE "matched"

\* What the line is credited to the receivable for.
Expected(line, class) ==
    IF class \in {"matched", "amount_mismatch", "fee_mismatch"} THEN Value[line.ref] ELSE 0

\* The rest of it is parked in suspense.
Unexplained(line, class) == line.net + line.fee - Expected(line, class)

SumLines(column) == SignedTotal(column, DOMAIN column)

-----------------------------------------------------------------------------
(* A cycle: ingesting                                                      *)

Goes(w, job) == jobs' = [jobs EXCEPT ![w] = job]

InPhase(w, phase) == jobs[w].phase = phase

\* The next settlement of those fetched, or the flagging.
Reach(s, upto) ==
    IF s <= upto THEN [phase |-> "ingest", at |-> s, upto |-> upto] ELSE [phase |-> "list"]

LatestIngested == CHOOSE s \in Ingested : \A r \in Ingested : r <= s

\* Ingest fetches what the provider settled since the latest it has, that one
\* included.
StartCycle(w) ==
    /\ InPhase(w, "idle")
    /\ Goes(w, Reach(IF Ingested = {} THEN 1 ELSE LatestIngested, Len(published)))
    /\ UNCHANGED <<booked, parked, settled, overdue, published, items, breaks, accounts>>

\* CreateSettlement finds the settlement already there.  While another
\* transaction has inserted it, it waits to see whether that commits.
Skip(w) ==
    /\ InPhase(w, "ingest")
    /\ jobs[w].at \in Ingested
    /\ Goes(w, Reach(jobs[w].at + 1, jobs[w].upto))
    /\ UNCHANGED <<booked, parked, settled, overdue, published, items, breaks, accounts>>

\* Mutant: nothing says which settlements were ingested.
MatchAgain(w) ==
    /\ InPhase(w, "ingest")
    /\ LET lines == published[jobs[w].at]
       IN  Goes(w, [phase |-> "post", at |-> jobs[w].at, upto |-> jobs[w].upto,
                    classes |-> [i \in DOMAIN lines |-> Classify(lines, i)]])
    /\ UNCHANGED <<booked, parked, settled, overdue, published, items, breaks, accounts>>

\* Or inserts it, and matches its lines against what is committed by now.  The
\* code queries line by line: here all of them read the same commits.
Match(w) ==
    /\ InPhase(w, "ingest")
    /\ jobs[w].at \notin Ingested
    /\ \A v \in Workers : InPhase(v, "post") => jobs[v].at # jobs[w].at
    /\ LET lines == published[jobs[w].at]
       IN  Goes(w, [phase |-> "post", at |-> jobs[w].at, upto |-> jobs[w].upto,
                    classes |-> [i \in DOMAIN lines |-> Classify(lines, i)]])
    /\ UNCHANGED <<booked, parked, settled, overdue, published, items, breaks, accounts>>

\* uq_settlement_items_matched: a reference settles once.
Unique(lines, classes) ==
    /\ Matches(lines, classes) \cap MatchedRefs = {}
    /\ \A i, k \in DOMAIN lines :
          lines[i].ref = lines[k].ref /\ classes[i] = "matched" /\ classes[k] = "matched" => i = k

\* The breaks of a settlement's lines, and the breaks of the payments it
\* settles: flagged missing before, they were only late.
OpenBreaks(s, lines, classes) ==
    [b \in {<<s, i>> : i \in {k \in DOMAIN lines : classes[k] # "matched"}} |->
        [class |-> classes[b[2]], of |-> lines[b[2]].ref, status |-> "open",
         amount |-> Unexplained(lines[b[2]], classes[b[2]])]]

Late(b, refs) == b.class = "missing_at_provider" /\ b.of \in refs /\ b.status = "open"

Closed(refs) ==
    [b \in DOMAIN breaks |->
        IF Late(breaks[b], refs) THEN [breaks[b] EXCEPT !.status = "resolved"] ELSE breaks[b]]

\* The rest of Reconcile, which opened its transaction in Match, and its commit.
Reconcile(w) ==
    /\ InPhase(w, "post")
    /\ LET s == jobs[w].at
           lines == published[s]
           classes == jobs[w].classes
           refs == Matches(lines, classes)
           opened == OpenBreaks(s, lines, classes)
           expected == [i \in DOMAIN lines |-> Expected(lines[i], classes[i])]
           unexplained == [i \in DOMAIN lines |-> Unexplained(lines[i], classes[i])]
           net == [i \in DOMAIN lines |-> lines[i].net]
           closed == Closed(refs)
       IN  /\ Unique(lines, classes)
           /\ items' = [r \in Ingested \cup {s} |-> IF r = s THEN classes ELSE items[r]]
           /\ accounts' = [accounts EXCEPT !.bank = @ + SumLines(net),
                                           !.receivable = @ - SumLines(expected),
                                           !.suspense = @ - SumLines(unexplained)]
           /\ settled' = settled \cup (refs \cap Captures)
           /\ breaks' = [b \in DOMAIN closed \cup DOMAIN opened |->
                            IF b \in DOMAIN opened THEN opened[b] ELSE closed[b]]
           /\ Goes(w, Reach(s + 1, jobs[w].upto))
    /\ UNCHANGED <<booked, parked, overdue, published>>

\* Mutant: a settlement that fails is left for later.
FailOn(w) ==
    /\ InPhase(w, "ingest") \/ InPhase(w, "post")
    /\ Goes(w, Reach(jobs[w].at + 1, jobs[w].upto))
    /\ UNCHANGED <<booked, parked, settled, overdue, published, items, breaks, accounts>>

\* A settlement that fails, for an outage, a conflict or a deadlock, is rolled
\* back and ends the ingesting; the cycle goes on, or its process is gone.
Fail(w) ==
    /\ InPhase(w, "ingest") \/ InPhase(w, "post")
    /\ Goes(w, [phase |-> "list"])
    /\ UNCHANGED <<booked, parked, settled, overdue, published, items, breaks, accounts>>

-----------------------------------------------------------------------------
(* A cycle: flagging                                                       *)

\* ListUnsettledPayments
List(w) ==
    /\ InPhase(w, "list")
    /\ Goes(w, [phase |-> "flag", todo |-> overdue \ settled])
    /\ UNCHANGED <<booked, parked, settled, overdue, published, items, breaks, accounts>>

FlagsOf(p) == {b \in DOMAIN breaks : b[1] = p}

\* CreateBreak, for one payment of the list as it was read: nothing happens
\* where an open break says so already (uq_recon_breaks_missing_at_provider).
Flag(w, p) ==
    /\ InPhase(w, "flag") /\ p \in jobs[w].todo
    /\ Goes(w, [jobs[w] EXCEPT !.todo = @ \ {p}])
    /\ IF \E b \in FlagsOf(p) : breaks[b].status = "open"
       THEN UNCHANGED breaks
       ELSE LET id == <<p, Cardinality(FlagsOf(p)) + 1>> IN
            /\ id[2] <= MaxFlags
            /\ breaks' = [b \in DOMAIN breaks \cup {id} |->
                    IF b = id THEN [class |-> "missing_at_provider", of |-> p, status |-> "open",
                                    amount |-> Value[p]]
                    ELSE breaks[b]]
    /\ UNCHANGED <<booked, parked, settled, overdue, published, items, accounts>>

\* The flagging is done, or fails, or is lost with its process.
EndCycle(w) ==
    /\ InPhase(w, "list") \/ InPhase(w, "flag")
    /\ Goes(w, Idle)
    /\ UNCHANGED <<booked, parked, settled, overdue, published, items, breaks, accounts>>

-----------------------------------------------------------------------------
(* Operators                                                               *)

Decides(b, status) == breaks' = [breaks EXCEPT ![b].status = status]

OfLine(b) == breaks[b].class # "missing_at_provider"

\* Mutant: any open break may be explained away.
ResolveAny(b) ==
    /\ breaks[b].status = "open"
    /\ Decides(b, "resolved")
    /\ UNCHANGED <<booked, parked, settled, overdue, published, items, accounts, jobs>>

\* Only a break with nothing in suspense is explained away.
Resolve(b) ==
    /\ breaks[b].status = "open"
    /\ OfLine(b) => breaks[b].amount = 0
    /\ Decides(b, "resolved")
    /\ UNCHANGED <<booked, parked, settled, overdue, published, items, accounts, jobs>>

\* An operator attributes a line's unexplained money to a payment.
ForceMatch(b, p) ==
    /\ breaks[b].status = "open" /\ OfLine(b)
    /\ accounts' = [accounts EXCEPT !.suspense = @ + breaks[b].amount,
                                    !.receivable = @ - breaks[b].amount]
    /\ settled' = settled \cup {p}
    /\ Decides(b, "force_matched")
    /\ UNCHANGED <<booked, parked, overdue, published, items, jobs>>

\* Money that is not coming, or that nobody claims, becomes an expense.
WriteOff(b) ==
    /\ breaks[b].status = "open"
    /\ accounts' = IF OfLine(b)
                   THEN [accounts EXCEPT !.suspense = @ + breaks[b].amount,
                                         !.writeoffs = @ - breaks[b].amount]
                   ELSE [accounts EXCEPT !.receivable = @ - breaks[b].amount,
                                         !.writeoffs = @ + breaks[b].amount]
    /\ Decides(b, "written_off")
    /\ UNCHANGED <<booked, parked, settled, overdue, published, items, jobs>>

-----------------------------------------------------------------------------
ReconInit ==
    /\ booked = {} /\ parked = {} /\ settled = {} /\ overdue = {}
    /\ published = <<>>
    /\ items = <<>> /\ breaks = <<>>
    /\ accounts = [bank |-> 0, receivable |-> 0, suspense |-> 0, writeoffs |-> 0]
    /\ jobs = [w \in Workers |-> Idle]

Ingests(w) == Skip(w) \/ Match(w) \/ Reconcile(w)

ReconNext ==
    \/ \E x \in Records : Book(x)
    \/ \E p \in Captures : Park(p) \/ Age(p)
    \/ \E report \in Reports : Publish(report)
    \/ \E w \in Workers : \/ StartCycle(w) \/ Ingests(w) \/ Fail(w) \/ List(w) \/ EndCycle(w)
                          \/ \E p \in Captures : Flag(w, p)
    \/ \E b \in DOMAIN breaks : \/ Resolve(b) \/ WriteOff(b)
                                \/ \E p \in Captures : ForceMatch(b, p)

ReconSpec == ReconInit /\ [][ReconNext]_reconVars

-----------------------------------------------------------------------------
(* Safety                                                                  *)

OpenLines == {b \in DOMAIN breaks : OfLine(b) /\ breaks[b].status = "open"}

\* Suspense holds exactly what the open breaks of settlement lines say ("only
\* its amount lands in suspense", TestInjectedMismatchesAreClassified), and the
\* captures that applyCapture parked there: no difference is absorbed elsewhere,
\* none leaves but by a decision, and no settlement and no decision ever takes
\* a parked capture out.
SuspenseIsExplained ==
    accounts.suspense = - SignedTotal([b \in OpenLines |-> breaks[b].amount], OpenLines)
                        - SignedTotal([p \in parked |-> Value[p]], parked)

\* "Ingesting a report twice must book the bank credit once"
\* (CreateSettlement), however many cycles fetched it and run beside each
\* other.
CreditBookedOnce ==
    LET net(s) == SumLines([i \in DOMAIN published[s] |-> published[s][i].net])
    IN  accounts.bank = SignedTotal([s \in Ingested |-> net(s)], Ingested)

\* "A settlement [...] must not be missed" (Ingest): none is passed over for
\* a later one, after which it would never be fetched again.
NonePassedOver == \A s \in Ingested : 1 .. s \subseteq Ingested

\* The lines ingested that took what the ledger expected of x out of the
\* receivable.
Clearing(x) ==
    {l \in UNION {{<<s, i>> : i \in DOMAIN items[s]} : s \in Ingested} :
        /\ published[l[1]][l[2]].ref = x
        /\ items[l[1]][l[2]] \in {"matched", "amount_mismatch", "fee_mismatch"}}

\* "One provider reference settles once.  A second appearance is classified a
\* duplicate" (000014_settlements): it clears the receivable once.
ClearedOnce == \A x \in Records : Cardinality(Clearing(x)) <= 1

\* A missing_at_provider break's amount is "what sits unsettled in the
\* receivable" (000014_settlements): no line and no write-off took it out.
MissingSitsInReceivable ==
    \A p \in Captures :
        (\E b \in FlagsOf(p) : breaks[b].status = "open")
        => Clearing(p) = {} /\ \A b \in FlagsOf(p) : breaks[b].status # "written_off"

\* "A payment is flagged missing at its provider once, not every day it stays
\* missing" (000014_settlements).
FlaggedOnce == \A p \in Captures : Cardinality(FlagsOf(p)) <= 1

-----------------------------------------------------------------------------
(* Liveness                                                                *)

\* Cycles are started for ever, and no outage hits the same step of the same
\* settlement for ever.
FairReconSpec ==
    /\ ReconSpec
    /\ \A w \in Workers : /\ WF_reconVars(StartCycle(w))
                          /\ WF_reconVars(Ingests(w) \/ Fail(w) \/ List(w) \/ EndCycle(w))
    /\ \A s \in 1 .. MaxSettlements :
          /\ SF_reconVars(\E w \in Workers : jobs[w].phase = "ingest" /\ jobs[w].at = s /\ (Skip(w) \/ Match(w)))
          /\ SF_reconVars(\E w \in Workers : jobs[w].phase = "post" /\ jobs[w].at = s /\ Reconcile(w))

\* Every settlement the provider publishes is ingested in the end, also after
\* one that conflicted with a cycle running beside it.
SettlementsAreIngested ==
    \A s \in 1 .. MaxSettlements : s \in DOMAIN published ~> s \in Ingested
=============================================================================
