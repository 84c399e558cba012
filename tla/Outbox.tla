------------------------------- MODULE Outbox --------------------------------
(***************************************************************************)
(* The transactional outbox: repository/postgresql/outbox.go and           *)
(* internal/outbox/drainer.go.                                             *)
(*                                                                         *)
(* A transaction saves an event next to the change it describes; drainers  *)
(* claim batches of committed events under SKIP LOCKED, publish them, and  *)
(* mark them published in the same transaction that claimed them.          *)
(***************************************************************************)
EXTENDS Integers, FiniteSets

CONSTANTS
    MaxEvents,   \* how many events are saved; an event is its id
    Poison,      \* the events the publisher refuses every time
    Drainers,
    BatchSize,
    MaxRollbacks \* how many sweeps die or fail to commit

Events == 1 .. MaxEvents

ASSUME OutboxAssumption ==
    /\ MaxEvents \in Nat /\ MaxRollbacks \in Nat
    /\ BatchSize \in Nat \ {0} /\ Poison \subseteq Events

VARIABLES
    table,    \* each event's row
    sweep,    \* what each drainer has claimed, and not published yet
    marked,   \* what it has marked published in its transaction
    sent,     \* how often the publisher was given each event
    rollbacks \* how many sweeps were rolled back

outVars == <<table, sweep, marked, sent, rollbacks>>

OutTypeOK ==
    /\ table \in [Events -> {"absent", "uncommitted", "lost", "unpublished", "published"}]
    /\ sweep \in [Drainers -> [running : BOOLEAN, claimed : SUBSET Events, left : SUBSET Events]]
    /\ marked \in [Drainers -> SUBSET Events]
    /\ sent \in [Events -> 0 .. MaxRollbacks + 1]
    /\ rollbacks \in 0 .. MaxRollbacks

NoSweep == [running |-> FALSE, claimed |-> {}, left |-> {}]

-----------------------------------------------------------------------------
\* SaveOutboxEvent draws the next id; the transaction commits later or not.
Save(e) ==
    /\ table[e] = "absent" /\ \A f \in 1 .. e - 1 : table[f] # "absent"
    /\ table' = [table EXCEPT ![e] = "uncommitted"]
    /\ UNCHANGED <<sweep, marked, sent, rollbacks>>

EndTransaction(e) ==
    /\ table[e] = "uncommitted"
    /\ \E outcome \in {"unpublished", "lost"} : table' = [table EXCEPT ![e] = outcome]
    /\ UNCHANGED <<sweep, marked, sent, rollbacks>>

\* Mutant: the first BatchSize events of all.
BatchFromFirst(S) == {e \in S : e <= BatchSize}

\* The first BatchSize events of a set, by id.
Batch(S) == {e \in S : Cardinality({f \in S : f <= e}) <= BatchSize}

\* Mutant: without SKIP LOCKED's locks.
ClaimableUnlocked == {e \in Events : table[e] = "unpublished"}

\* ClaimUnpublishedOutboxEvents takes events nobody else has locked.
Claimable == {e \in Events : table[e] = "unpublished" /\ \A d \in Drainers : e \notin sweep[d].claimed}

ClaimUnpublished(d) ==
    /\ ~ sweep[d].running /\ Claimable # {}
    /\ sweep' = [sweep EXCEPT ![d] = [running |-> TRUE, claimed |-> Batch(Claimable), left |-> Batch(Claimable)]]
    /\ UNCHANGED <<table, marked, sent, rollbacks>>

\* The next event of the batch is published and marked, or its failure is
\* recorded and the sweep goes on without it.
Deliver(d, e) ==
    /\ e \in sweep[d].left /\ \A f \in sweep[d].left : e <= f
    /\ sweep' = [sweep EXCEPT ![d].left = @ \ {e}]
    /\ UNCHANGED <<table, rollbacks>>

Succeeds(d, e) ==
    /\ Deliver(d, e) /\ e \notin Poison
    /\ sent' = [sent EXCEPT ![e] = @ + 1]
    /\ marked' = [marked EXCEPT ![d] = @ \cup {e}]

\* Mutant: the event is marked before the publisher's error is looked at.
FailsMarked(d, e) ==
    /\ Deliver(d, e)
    /\ marked' = [marked EXCEPT ![d] = @ \cup {e}]
    /\ UNCHANGED sent

Fails(d, e) == Deliver(d, e) /\ UNCHANGED <<sent, marked>>

\* The sweep's transaction commits, with every mark in it.
CommitSweep(d) ==
    /\ sweep[d].running /\ sweep[d].left = {}
    /\ table' = [e \in Events |-> IF e \in marked[d] THEN "published" ELSE table[e]]
    /\ sweep' = [sweep EXCEPT ![d] = NoSweep]
    /\ marked' = [marked EXCEPT ![d] = {}]
    /\ UNCHANGED <<sent, rollbacks>>

\* The drainer dies, or loses the database: its marks are undone, and what it
\* published stays published.
Rollback(d) ==
    /\ sweep[d].running /\ rollbacks < MaxRollbacks
    /\ sweep' = [sweep EXCEPT ![d] = NoSweep]
    /\ marked' = [marked EXCEPT ![d] = {}]
    /\ rollbacks' = rollbacks + 1
    /\ UNCHANGED <<table, sent>>

-----------------------------------------------------------------------------
OutInit ==
    /\ table = [e \in Events |-> "absent"]
    /\ sweep = [d \in Drainers |-> NoSweep]
    /\ marked = [d \in Drainers |-> {}]
    /\ sent = [e \in Events |-> 0]
    /\ rollbacks = 0

Drains(d) == ClaimUnpublished(d) \/ CommitSweep(d) \/ \E e \in Events : Succeeds(d, e) \/ Fails(d, e)

OutNext ==
    \/ \E e \in Events : Save(e) \/ EndTransaction(e)
    \/ \E d \in Drainers : Drains(d) \/ Rollback(d)

OutSpec == OutInit /\ [][OutNext]_outVars

\* The ticker brings every drainer back, and no event that can be published
\* fails for ever.
FairOutSpec ==
    /\ OutSpec
    /\ \A d \in Drainers : WF_outVars(Drains(d))
    /\ \A e \in Events : SF_outVars(\E d \in Drainers : Succeeds(d, e))

-----------------------------------------------------------------------------
\* An event marked published was published, and one whose transaction rolled
\* back never is: "an event cannot exist without its cause and vice versa"
\* (000002).
PublishedIsSent ==
    \A e \in Events :
        /\ table[e] = "published" => sent[e] > 0
        /\ sent[e] > 0 => table[e] \in {"unpublished", "published"}

\* "no event is published twice" by drainers that run at once
\* (ClaimUnpublishedOutboxEvents): only a sweep that was rolled back repeats
\* its events, once for each rollback.
RepeatedByRollbackOnly == \A e \in Events : sent[e] <= 1 + rollbacks

\* Every event that commits is published in the end, if the publisher takes
\* it and fewer than BatchSize events are refused for good: more of those
\* would fill every batch.
EventsArePublished ==
    \A e \in Events \ Poison : table[e] = "unpublished" ~> table[e] = "published"

\* Events are "marked published in order" (LogPublisher).
MarkedInOrder ==
    \A e, f \in Events : e < f /\ table[f] = "published" => table[e] \in {"published", "lost"}
=============================================================================
