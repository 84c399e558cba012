--------------------------- MODULE PlatformProofs ----------------------------
(***************************************************************************)
(* What surrounds the engines that move the money, for any number of       *)
(* requests, keys, events, drainers, callers, settlements and workers:     *)
(* idempotent requests, the outbox, the circuit breaker, reconciliation;   *)
(* and Collection, what the platform promises of every payment, which      *)
(* Payment implements (PaymentProofs) and so inherits.                     *)
(***************************************************************************)
EXTENDS Collection, Idempotency, Outbox, Circuit, Recon, AmountTheorems

-----------------------------------------------------------------------------
(* Idempotent requests                                                     *)

\* A request that is finishing has updated a row that was in progress, and
\* nobody else can touch the row until it ends.
FinishingOwns ==
    \A r \in Requests :
        at[r] = "finishing" =>
            /\ rows[KeyOf[r]].status = "in_progress"
            /\ \A q \in Requests : at[q] = "finishing" /\ KeyOf[q] = KeyOf[r] => q = r

IdemInv == IdemTypeOK /\ RecordedIffDone /\ FinishingOwns

LEMMA InitEstablishes == IdemInit => IdemInv
BY IdempotencyAssumption
   DEF IdemInit, IdemInv, IdemTypeOK, RecordedIffDone, FinishingOwns, NoRow, Row

LEMMA StepPreserves == IdemInv /\ [IdemNext]_allIdemVars => IdemInv'
<1> SUFFICES ASSUME IdemInv, [IdemNext]_allIdemVars PROVE IdemInv'
    OBVIOUS
<1> USE IdempotencyAssumption DEF IdemInv, IdemTypeOK, NoRow, Row
<1>0. slow' \in BOOLEAN
    BY DEF IdemNext, allIdemVars
<1>1. ASSUME NEW r \in Requests, Claim(r) PROVE IdemInv'
    <2> DEFINE k == KeyOf[r]
               new == [status |-> "in_progress", expired |-> FALSE,
                       fingerprint |-> Fingerprint[r], response |-> NoAnswer]
    <2>1. CASE rows[k] = NoRow
        <3>1. rows' = [rows EXCEPT ![k] = new] /\ at' = [at EXCEPT ![r] = "working"]
            BY <1>1, <2>1 DEF Claim
        <3>2. new \in Row /\ k \in Keys
            BY DEF NoAnswer
        <3>3. IdemTypeOK'
            BY <1>0, <1>1, <3>1, <3>2 DEF Claim
        <3>4. RecordedIffDone'
            BY <1>1, <2>1, <3>1 DEF Claim, RecordedIffDone
        <3>5. FinishingOwns'
            BY <1>1, <2>1, <3>1 DEF Claim, FinishingOwns
        <3> QED BY <3>3, <3>4, <3>5
    <2>2. CASE rows[k] # NoRow
        BY <1>0, <1>1, <2>2 DEF Claim, RecordedIffDone, FinishingOwns
    <2> QED BY <2>1, <2>2
<1>2. ASSUME NEW r \in Requests, Replay(r) PROVE IdemInv'
    BY <1>0, <1>2 DEF Replay, RecordedIffDone, FinishingOwns
<1>3. ASSUME NEW r \in Requests, Complete(r) PROVE IdemInv'
    BY <1>0, <1>3 DEF Complete, RecordedIffDone, FinishingOwns, Locked
<1>4. ASSUME NEW r \in Requests, WorkFails(r) PROVE IdemInv'
    BY <1>0, <1>4 DEF WorkFails, RecordedIffDone, FinishingOwns
<1>5. ASSUME NEW r \in Requests, Commit(r) PROVE IdemInv'
    <2> DEFINE k == KeyOf[r]
    <2>1. k \in Keys /\ at[r] = "finishing" /\ rows[k] \in Row /\ rows[k].status = "in_progress"
        BY <1>5 DEF Commit, FinishingOwns
    <2>2. rows' = [rows EXCEPT ![k] = [@ EXCEPT !.status = "completed", !.response = Fingerprint[r]]]
        BY <1>5, <2>1 DEF Commit
    <2>3. /\ rows'[k] \in Row /\ rows'[k].status = "completed"
          /\ rows' \in [Keys -> Row \cup {NoRow}]
          /\ \A l \in Keys \ {k} : rows'[l] = rows[l]
        BY <2>1, <2>2
    <2>4. worked[k] = 0
        BY <2>1 DEF RecordedIffDone
    <2>5. IdemTypeOK'
        <3>1. worked' \in [Keys -> Nat]
            BY <1>5 DEF Commit
        <3>2. /\ at' \in [Requests -> {"idle", "reading", "working", "finishing", "releasing"}]
              /\ answer' \in [Requests -> {Fingerprint[q] : q \in Requests} \cup {NoAnswer}]
            BY <1>5 DEF Commit
        <3> QED BY <1>0, <2>3, <3>1, <3>2
    <2>6. RecordedIffDone'
        BY <1>5, <2>3, <2>4 DEF Commit, RecordedIffDone
    <2>7. FinishingOwns'
        <3>1. at'[r] # "finishing"
            BY <1>5 DEF Commit
        <3>2. \A q \in Requests \ {r} : at'[q] = at[q]
            BY <1>5 DEF Commit
        <3>3. \A q \in Requests : at'[q] = "finishing" => at[q] = "finishing" /\ KeyOf[q] # k
            <4>1. SUFFICES ASSUME NEW q \in Requests, at'[q] = "finishing"
                           PROVE  at[q] = "finishing" /\ KeyOf[q] # k
                OBVIOUS
            <4>2. q # r /\ at[q] = "finishing"
                BY <3>1, <3>2, <4>1
            <4>3. KeyOf[q] = KeyOf[r] => q = r
                BY <2>1, <4>2 DEF FinishingOwns
            <4> QED BY <4>2, <4>3
        <3>4. \A q \in Requests : KeyOf[q] \in Keys
            OBVIOUS
        <3> HIDE DEF k
        <3> QED BY <2>3, <3>3, <3>4 DEF FinishingOwns
    <2> QED BY <2>5, <2>6, <2>7
<1>6. ASSUME NEW r \in Requests, Release(r) PROVE IdemInv'
    BY <1>0, <1>6 DEF Release, RecordedIffDone, FinishingOwns, Locked
<1>7. ASSUME NEW r \in Requests, Crash(r) PROVE IdemInv'
    BY <1>0, <1>7 DEF Crash, RecordedIffDone, FinishingOwns
<1>8. ASSUME NEW k \in Keys, Expire(k) PROVE IdemInv'
    BY <1>0, <1>8 DEF Expire, RecordedIffDone, FinishingOwns
<1>9. ASSUME NEW k \in Keys, Sweep(k) PROVE IdemInv'
    BY <1>0, <1>9 DEF Sweep, RecordedIffDone, FinishingOwns, Locked
<1>10. CASE UNCHANGED allIdemVars
    BY <1>0, <1>10 DEF allIdemVars, RecordedIffDone, FinishingOwns
<1> QED BY <1>1, <1>2, <1>3, <1>4, <1>5, <1>6, <1>7, <1>8, <1>9, <1>10 DEF IdemNext

\* While a key is kept, its work is committed once and its recorded response
\* says so (idempotent, CompleteIdempotencyKey).
THEOREM WorkIsDoneOnce == IdemSpec => []RecordedIffDone
<1>1. IdemInit => IdemInv
    BY InitEstablishes
<1>2. IdemInv /\ [IdemNext]_allIdemVars => IdemInv'
    BY StepPreserves
<1>3. IdemInv => RecordedIffDone
    BY DEF IdemInv
<1> QED BY <1>1, <1>2, <1>3, PTL DEF IdemSpec
\* A request that claimed its key, and has not ended yet.
Busy(r) == at[r] \in {"working", "finishing", "releasing"}

\* Where no request outlives its key, the row of a busy request is the one it
\* claimed, so what it records is what the row is for.
Owned ==
    /\ \A r, q \in Requests : Busy(r) /\ Busy(q) /\ KeyOf[r] = KeyOf[q] => r = q
    /\ \A r \in Requests : Busy(r) =>
          /\ rows[KeyOf[r]] # NoRow
          /\ rows[KeyOf[r]].fingerprint = Fingerprint[r]
          /\ ~ rows[KeyOf[r]].expired
          /\ at[r] \in {"working", "finishing"} => rows[KeyOf[r]].status = "in_progress"
    /\ \A k \in Keys : rows[k].status = "completed" => rows[k].response = rows[k].fingerprint

AnswersInv == IdemInv /\ (slow \/ (Owned /\ AnswersFit))

LEMMA AnswersInit == IdemInit => AnswersInv
BY InitEstablishes
   DEF IdemInit, AnswersInv, IdemInv, IdemTypeOK, Owned, Busy, AnswersFit, NoRow

LEMMA AnswersStep == AnswersInv /\ [IdemNext]_allIdemVars => AnswersInv'
<1> SUFFICES ASSUME AnswersInv, [IdemNext]_allIdemVars, ~ slow PROVE (Owned /\ AnswersFit)'
    BY StepPreserves DEF AnswersInv, IdemNext, allIdemVars
<1>1. /\ rows \in [Keys -> Row \cup {NoRow}] /\ NoRow.status = "absent"
      /\ at \in [Requests -> {"idle", "reading", "working", "finishing", "releasing"}]
      /\ answer \in [Requests -> {Fingerprint[r] : r \in Requests} \cup {NoAnswer}]
      /\ \A r \in Requests : KeyOf[r] \in Keys
    BY IdempotencyAssumption DEF AnswersInv, IdemInv, IdemTypeOK, NoRow
<1>2. /\ Owned
      /\ \A r \in Requests : answer[r] \in {Fingerprint[r], NoAnswer}
    BY DEF AnswersInv, AnswersFit
<1>3. SUFFICES Owned' /\ \A r \in Requests : answer'[r] \in {Fingerprint[r], NoAnswer}
    BY DEF AnswersFit
<1>4. ASSUME NEW r \in Requests, Claim(r)
      PROVE  Owned' /\ \A q \in Requests : answer'[q] \in {Fingerprint[q], NoAnswer}
    <2> DEFINE k == KeyOf[r]
               new == [status |-> "in_progress", expired |-> FALSE,
                       fingerprint |-> Fingerprint[r], response |-> NoAnswer]
    <2>1. answer' = answer /\ at[r] = "idle"
        BY <1>4 DEF Claim
    <2>2. CASE rows[k] = NoRow
        <3>1. rows' = [rows EXCEPT ![k] = new] /\ at' = [at EXCEPT ![r] = "working"]
            BY <1>4, <2>2 DEF Claim
        <3>2. \A q \in Requests : Busy(q) => KeyOf[q] # k
            BY <1>2, <2>2 DEF Owned
        <3>3. /\ rows'[k].status = "in_progress" /\ ~ rows'[k].expired
              /\ rows'[k].fingerprint = Fingerprint[r] /\ rows'[k] # NoRow
            BY <1>1, <3>1 DEF NoRow
        <3>4. \A l \in Keys \ {k} : rows'[l] = rows[l]
            BY <1>1, <3>1
        <3>5. \A q \in Requests : Busy(q)' <=> Busy(q) \/ q = r
            BY <1>1, <2>1, <3>1 DEF Busy
        <3>6. \A q \in Requests \ {r} : at'[q] = at[q]
            BY <1>1, <3>1
        <3> HIDE DEF k, new
        <3>7. Owned'
            <4>1. \A p, q \in Requests : Busy(p)' /\ Busy(q)' /\ KeyOf[p] = KeyOf[q] => p = q
                BY <1>2, <3>2, <3>5 DEF Owned, k
            <4>2. ASSUME NEW q \in Requests, Busy(q)'
                  PROVE  /\ rows'[KeyOf[q]] # NoRow
                         /\ rows'[KeyOf[q]].fingerprint = Fingerprint[q]
                         /\ ~ rows'[KeyOf[q]].expired
                         /\ at'[q] \in {"working", "finishing"} => rows'[KeyOf[q]].status = "in_progress"
                <5>1. CASE q = r
                    BY <3>3, <5>1 DEF k
                <5>2. CASE q # r
                    BY <1>1, <1>2, <3>2, <3>4, <3>5, <3>6, <4>2, <5>2 DEF Owned
                <5> QED BY <5>1, <5>2
            <4>3. ASSUME NEW l \in Keys, rows'[l].status = "completed"
                  PROVE  rows'[l].response = rows'[l].fingerprint
                BY <1>2, <3>3, <3>4, <4>3 DEF Owned
            <4> QED BY <4>1, <4>2, <4>3 DEF Owned
        <3> QED BY <1>2, <2>1, <3>7
    <2>3. CASE rows[k] # NoRow
        BY <1>1, <1>2, <1>4, <2>3 DEF Claim, Owned, Busy
    <2> QED BY <2>2, <2>3
<1>5. ASSUME NEW r \in Requests, Replay(r)
      PROVE  Owned' /\ \A q \in Requests : answer'[q] \in {Fingerprint[q], NoAnswer}
    <2>1. KeyOf[r] \in Keys /\ rows' = rows /\ at' = [at EXCEPT ![r] = "idle"]
        BY <1>1, <1>5 DEF Replay
    <2>2. Owned'
        BY <1>1, <1>2, <2>1 DEF Owned, Busy
    <2>3. \A q \in Requests : answer'[q] \in {Fingerprint[q], NoAnswer}
        BY <1>1, <1>2, <1>5, <2>1 DEF Replay, Owned
    <2> QED BY <2>2, <2>3
<1>6. ASSUME NEW r \in Requests, Complete(r)
      PROVE  Owned' /\ \A q \in Requests : answer'[q] \in {Fingerprint[q], NoAnswer}
    <2>1. rows' = rows /\ answer' = answer /\ at[r] = "working" /\ at' = [at EXCEPT ![r] = "finishing"]
        BY <1>1, <1>2, <1>6 DEF Complete, Owned, Busy
    <2> QED BY <1>1, <1>2, <2>1 DEF Owned, Busy
<1>7. ASSUME NEW r \in Requests, WorkFails(r)
      PROVE  Owned' /\ \A q \in Requests : answer'[q] \in {Fingerprint[q], NoAnswer}
    BY <1>1, <1>2, <1>7 DEF WorkFails, Owned, Busy
<1>8. ASSUME NEW r \in Requests, Commit(r)
      PROVE  Owned' /\ \A q \in Requests : answer'[q] \in {Fingerprint[q], NoAnswer}
    <2> DEFINE k == KeyOf[r]
    <2>1. /\ k \in Keys /\ rows[k] \in Row /\ rows[k].fingerprint = Fingerprint[r] /\ ~ rows[k].expired
          /\ at[r] = "finishing"
        BY <1>1, <1>2, <1>8 DEF Commit, Owned, Busy
    <2>2. rows' = [rows EXCEPT ![k] = [@ EXCEPT !.status = "completed", !.response = Fingerprint[r]]]
        BY <1>1, <1>8, <2>1 DEF Commit
    <2>3. /\ rows'[k].status = "completed" /\ rows'[k].response = Fingerprint[r]
          /\ rows'[k].fingerprint = Fingerprint[r] /\ ~ rows'[k].expired /\ rows'[k] # NoRow
          /\ \A l \in Keys \ {k} : rows'[l] = rows[l]
        BY <1>1, <2>1, <2>2 DEF Row, NoRow
    <2>4. /\ at' = [at EXCEPT ![r] = "idle"] \/ at' = [at EXCEPT ![r] = "releasing"]
          /\ answer' = [answer EXCEPT ![r] = Fingerprint[r]] \/ answer' = answer
        BY <1>8 DEF Commit
    <2>5. /\ \A q \in Requests : Busy(q)' => Busy(q)
          /\ \A q \in Requests \ {r} : at'[q] = at[q]
          /\ at'[r] \notin {"working", "finishing"}
        BY <1>1, <2>1, <2>4 DEF Busy
    <2>6. \A q \in Requests : Busy(q) /\ KeyOf[q] = k => q = r
        BY <1>2, <2>1 DEF Owned, Busy
    <2> HIDE DEF k
    <2>7. ASSUME NEW q \in Requests, Busy(q)'
          PROVE  /\ rows'[KeyOf[q]] # NoRow
                 /\ rows'[KeyOf[q]].fingerprint = Fingerprint[q]
                 /\ ~ rows'[KeyOf[q]].expired
                 /\ at'[q] \in {"working", "finishing"} => rows'[KeyOf[q]].status = "in_progress"
        <3>1. CASE q = r
            BY <2>3, <2>5, <3>1 DEF k
        <3>2. CASE q # r
            BY <1>1, <1>2, <2>3, <2>5, <2>6, <2>7, <3>2 DEF Owned
        <3> QED BY <3>1, <3>2
    <2>8. \A l \in Keys : rows'[l].status = "completed" => rows'[l].response = rows'[l].fingerprint
        BY <1>2, <2>3 DEF Owned
    <2>9. \A p, q \in Requests : Busy(p)' /\ Busy(q)' /\ KeyOf[p] = KeyOf[q] => p = q
        BY <1>2, <2>5 DEF Owned
    <2>10. \A q \in Requests : answer'[q] \in {Fingerprint[q], NoAnswer}
        BY <1>1, <1>2, <2>4
    <2> QED BY <2>7, <2>8, <2>9, <2>10 DEF Owned
<1>9. ASSUME NEW r \in Requests, Release(r)
      PROVE  Owned' /\ \A q \in Requests : answer'[q] \in {Fingerprint[q], NoAnswer}
    <2>1. /\ answer' = answer /\ at' = [at EXCEPT ![r] = "idle"] /\ KeyOf[r] \in Keys
          /\ rows' = rows \/ rows' = [rows EXCEPT ![KeyOf[r]] = NoRow]
        BY <1>1, <1>9 DEF Release
    <2>2. \A q \in Requests : Busy(q)' => Busy(q) /\ KeyOf[q] # KeyOf[r] /\ at'[q] = at[q]
        BY <1>1, <1>2, <1>9, <2>1 DEF Release, Owned, Busy
    <2>3. \A l \in Keys : rows'[l] = rows[l] \/ rows'[l] = NoRow
        BY <1>1, <2>1
    <2>4. \A l \in Keys \ {KeyOf[r]} : rows'[l] = rows[l]
        BY <1>1, <2>1
    <2> QED BY <1>1, <1>2, <2>1, <2>2, <2>3, <2>4 DEF Owned
<1>10. ASSUME NEW r \in Requests, Crash(r)
       PROVE  Owned' /\ \A q \in Requests : answer'[q] \in {Fingerprint[q], NoAnswer}
    BY <1>1, <1>2, <1>10 DEF Crash, Owned, Busy
<1>11. ASSUME NEW k \in Keys, Expire(k) \/ Sweep(k)
       PROVE  Owned' /\ \A q \in Requests : answer'[q] \in {Fingerprint[q], NoAnswer}
    <2>1. answer' = answer /\ at' = at
        BY <1>11 DEF Expire, Sweep
    <2>2. \A q \in Requests : Busy(q) => KeyOf[q] # k
        BY <1>1, <1>2, <1>11 DEF Expire, Sweep, Owned, Busy
    <2>3. \A l \in Keys \ {k} : rows'[l] = rows[l]
        BY <1>1, <1>11 DEF Expire, Sweep
    <2>4. \/ rows'[k] = [rows[k] EXCEPT !.expired = TRUE] /\ rows[k] \in Row
          \/ rows'[k] = NoRow
        BY <1>1, <1>11 DEF Expire, Sweep
    <2>5. rows'[k].status = "completed" => rows'[k].response = rows'[k].fingerprint
        BY <1>1, <1>2, <2>4 DEF Owned, Row
    <2> QED BY <1>1, <1>2, <2>1, <2>2, <2>3, <2>5 DEF Owned, Busy
<1>12. CASE UNCHANGED allIdemVars
    BY <1>2, <1>12 DEF allIdemVars, Owned, Busy
<1> QED BY <1>4, <1>5, <1>6, <1>7, <1>8, <1>9, <1>10, <1>11, <1>12 DEF IdemNext

\* Nobody is answered with what another request asked under its key, unless a
\* request outlives its key (replay).
THEOREM AnswersAlwaysFit == IdemSpec => []AnswersFit
<1>1. AnswersInv => AnswersFit
    BY DEF AnswersInv, AnswersFit
<1> QED BY <1>1, AnswersInit, AnswersStep, PTL DEF IdemSpec

-----------------------------------------------------------------------------
(* The outbox                                                              *)

Marked(e) == \E d \in Drainers : e \in marked[d]

\* A claimed event is one drainer's, and stays unpublished until its sweep
\* ends; what a sweep has marked, it has published.
SweepsFit ==
    /\ \A d \in Drainers :
          /\ sweep[d].left \subseteq sweep[d].claimed
          /\ marked[d] \subseteq sweep[d].claimed \ sweep[d].left
          /\ ~ sweep[d].running => sweep[d].claimed = {}
          /\ \A e \in sweep[d].claimed : table[e] = "unpublished"
    /\ \A c, d \in Drainers : c # d => sweep[c].claimed \cap sweep[d].claimed = {}

\* A rollback is needed for each time an event is sent in vain.
SentFits ==
    \A e \in Events : sent[e] <= rollbacks + (IF table[e] = "published" \/ Marked(e) THEN 1 ELSE 0)

MarksFit == \A e \in Events : Marked(e) => sent[e] > 0

OutInv == OutTypeOK /\ SweepsFit /\ PublishedIsSent /\ SentFits /\ MarksFit

LEMMA OutInitEstablishes == OutInit => OutInv
BY OutboxAssumption
   DEF OutInit, OutInv, OutTypeOK, SweepsFit, PublishedIsSent, SentFits, MarksFit, Marked, NoSweep, Events

\* A sweep goes on with one event fewer, which it may have published.
LEMMA DeliverStep ==
  ASSUME OutInv, NEW d \in Drainers, NEW e \in Events, Succeeds(d, e) \/ Fails(d, e)
  PROVE  OutInv'
<1> DEFINE Sweeps == [running : BOOLEAN, claimed : SUBSET Events, left : SUBSET Events]
<1>1. /\ table \in [Events -> {"absent", "uncommitted", "lost", "unpublished", "published"}]
      /\ sweep \in [Drainers -> Sweeps] /\ marked \in [Drainers -> SUBSET Events]
      /\ sent \in [Events -> 0 .. MaxRollbacks + 1] /\ rollbacks \in 0 .. MaxRollbacks
      /\ MaxRollbacks \in Nat
    BY OutboxAssumption DEF OutInv, OutTypeOK
<1>2. /\ table' = table /\ rollbacks' = rollbacks /\ e \in sweep[d].left
      /\ sweep' = [sweep EXCEPT ![d].left = @ \ {e}]
    BY DEF Succeeds, Fails, Deliver
<1>3. /\ sweep' \in [Drainers -> Sweeps]
      /\ \A c \in Drainers : sweep'[c].claimed = sweep[c].claimed /\ sweep'[c].running = sweep[c].running
      /\ sweep'[d].left = sweep[d].left \ {e}
      /\ \A c \in Drainers \ {d} : sweep'[c].left = sweep[c].left
    <2> DEFINE new == [sweep[d] EXCEPT !.left = @ \ {e}]
    <2>1. sweep[d] \in Sweeps
        BY <1>1
    <2>2. /\ new \in Sweeps /\ new.claimed = sweep[d].claimed /\ new.running = sweep[d].running
          /\ new.left = sweep[d].left \ {e}
        BY <2>1
    <2>3. sweep'[d] = new /\ \A c \in Drainers \ {d} : sweep'[c] = sweep[c]
        BY <1>1, <1>2
    <2>4. sweep' = [c \in Drainers |-> sweep'[c]]
        BY <1>1, <1>2
    <2> HIDE DEF new, Sweeps
    <2> QED BY <1>1, <2>2, <2>3, <2>4
<1>4. /\ e \in sweep[d].claimed /\ e \notin marked[d] /\ table[e] = "unpublished"
      /\ \A c \in Drainers : marked[c] \subseteq sweep[c].claimed
      /\ \A c \in Drainers : e \in sweep[c].claimed => c = d
    BY <1>2 DEF OutInv, SweepsFit
<1>5. ~ Marked(e)
    BY <1>4 DEF Marked
<1>6. sent[e] <= rollbacks
    BY <1>1, <1>4, <1>5 DEF OutInv, SentFits
<1>7. CASE Succeeds(d, e)
    <2>1. sent' = [sent EXCEPT ![e] = @ + 1] /\ marked' = [marked EXCEPT ![d] = @ \cup {e}]
        BY <1>7 DEF Succeeds
    <2>2. /\ sent' \in [Events -> 0 .. MaxRollbacks + 1]
          /\ sent'[e] = sent[e] + 1 /\ \A f \in Events \ {e} : sent'[f] = sent[f]
        BY <1>1, <1>6, <2>1
    <2>3. /\ marked' \in [Drainers -> SUBSET Events]
          /\ marked'[d] = marked[d] \cup {e} /\ \A c \in Drainers \ {d} : marked'[c] = marked[c]
        BY <1>1, <2>1
    <2>4. \A f \in Events : Marked(f)' <=> Marked(f) \/ f = e
        BY <2>3 DEF Marked
    <2>5. SweepsFit'
        BY <1>2, <1>3, <1>4, <2>3 DEF OutInv, SweepsFit
    <2>6. PublishedIsSent'
        BY <1>1, <1>2, <1>4, <2>2 DEF OutInv, PublishedIsSent
    <2>7. SentFits' /\ MarksFit'
        <3>1. ASSUME NEW f \in Events
              PROVE  /\ sent'[f] <= rollbacks' + (IF table'[f] = "published" \/ Marked(f)' THEN 1 ELSE 0)
                     /\ Marked(f)' => sent'[f] > 0
            <4>1. CASE f = e
                BY <1>1, <1>2, <1>6, <2>2, <2>4, <4>1
            <4>2. CASE f # e
                BY <1>1, <1>2, <2>2, <2>4, <4>2 DEF OutInv, SentFits, MarksFit
            <4> QED BY <4>1, <4>2
        <3> QED BY <3>1 DEF SentFits, MarksFit
    <2> QED BY <1>1, <1>2, <1>3, <2>2, <2>3, <2>5, <2>6, <2>7 DEF OutInv, OutTypeOK
<1>8. CASE Fails(d, e)
    <2>1. sent' = sent /\ marked' = marked
        BY <1>8 DEF Fails
    <2>2. SweepsFit'
        BY <1>2, <1>3, <1>4, <2>1 DEF OutInv, SweepsFit
    <2> QED BY <1>1, <1>2, <1>3, <2>1, <2>2
            DEF OutInv, OutTypeOK, PublishedIsSent, SentFits, MarksFit, Marked
<1> QED BY <1>7, <1>8

LEMMA OutStepPreserves == OutInv /\ [OutNext]_outVars => OutInv'
<1> SUFFICES ASSUME OutInv, [OutNext]_outVars PROVE OutInv'
    OBVIOUS
<1> DEFINE Sweeps == [running : BOOLEAN, claimed : SUBSET Events, left : SUBSET Events]
<1>1. /\ table \in [Events -> {"absent", "uncommitted", "lost", "unpublished", "published"}]
      /\ sweep \in [Drainers -> Sweeps] /\ marked \in [Drainers -> SUBSET Events]
      /\ sent \in [Events -> 0 .. MaxRollbacks + 1] /\ rollbacks \in 0 .. MaxRollbacks
      /\ MaxRollbacks \in Nat
    BY OutboxAssumption DEF OutInv, OutTypeOK
<1>2. ASSUME NEW e \in Events, Save(e) \/ EndTransaction(e) PROVE OutInv'
    <2>1. /\ sweep' = sweep /\ marked' = marked /\ sent' = sent /\ rollbacks' = rollbacks
          /\ table[e] \in {"absent", "uncommitted"}
          /\ \E new \in {"uncommitted", "lost", "unpublished"} : table' = [table EXCEPT ![e] = new]
        BY <1>2 DEF Save, EndTransaction
    <2>2. /\ table' \in [Events -> {"absent", "uncommitted", "lost", "unpublished", "published"}]
          /\ table'[e] # "published" /\ \A f \in Events \ {e} : table'[f] = table[f]
        BY <1>1, <2>1
    <2>3. ~ (sent[e] > 0) /\ \A d \in Drainers : e \notin sweep[d].claimed
        BY <2>1 DEF OutInv, PublishedIsSent, SweepsFit
    <2>4. SweepsFit'
        <3>1. \A d \in Drainers : \A f \in sweep[d].claimed : table'[f] = "unpublished"
            BY <1>1, <2>2, <2>3 DEF OutInv, SweepsFit
        <3> QED BY <2>1, <3>1 DEF OutInv, SweepsFit
    <2>5. PublishedIsSent'
        BY <2>1, <2>2, <2>3 DEF OutInv, PublishedIsSent
    <2>6. SentFits' /\ MarksFit'
        BY <1>1, <2>1, <2>2 DEF OutInv, SentFits, MarksFit, Marked
    <2> QED BY <1>1, <2>1, <2>2, <2>4, <2>5, <2>6 DEF OutInv, OutTypeOK
<1>3. ASSUME NEW d \in Drainers, ClaimUnpublished(d) PROVE OutInv'
    <2> DEFINE batch == Batch(Claimable)
    <2>1. /\ table' = table /\ marked' = marked /\ sent' = sent /\ rollbacks' = rollbacks
          /\ sweep' = [sweep EXCEPT ![d] = [running |-> TRUE, claimed |-> batch, left |-> batch]]
          /\ ~ sweep[d].running
        BY <1>3 DEF ClaimUnpublished
    <2>2. batch \subseteq Claimable
        BY DEF Batch
    <2>3. /\ batch \subseteq Events
          /\ \A e \in batch : table[e] = "unpublished" /\ \A c \in Drainers : e \notin sweep[c].claimed
        BY <2>2 DEF Claimable
    <2> HIDE DEF batch
    <2>4. /\ sweep' \in [Drainers -> Sweeps] /\ sweep'[d].running
          /\ sweep'[d].claimed = batch /\ sweep'[d].left = batch
          /\ \A c \in Drainers \ {d} : sweep'[c] = sweep[c]
        BY <1>1, <2>1, <2>3
    <2>5. marked[d] = {}
        BY <1>1, <2>1 DEF OutInv, SweepsFit
    <2>6. SweepsFit'
        BY <2>1, <2>3, <2>4, <2>5 DEF OutInv, SweepsFit
    <2> QED BY <1>1, <2>1, <2>4, <2>6
            DEF OutInv, OutTypeOK, PublishedIsSent, SentFits, MarksFit, Marked
<1>4. ASSUME NEW d \in Drainers, NEW e \in Events, Succeeds(d, e) \/ Fails(d, e) PROVE OutInv'
    BY <1>4, DeliverStep
<1>5. ASSUME NEW d \in Drainers, CommitSweep(d) PROVE OutInv'
    <2>1. /\ table' = [e \in Events |-> IF e \in marked[d] THEN "published" ELSE table[e]]
          /\ sweep' = [sweep EXCEPT ![d] = NoSweep] /\ marked' = [marked EXCEPT ![d] = {}]
          /\ sent' = sent /\ rollbacks' = rollbacks
        BY <1>5 DEF CommitSweep
    <2>2. /\ sweep' \in [Drainers -> Sweeps] /\ sweep'[d].claimed = {} /\ sweep'[d].left = {}
          /\ \A c \in Drainers \ {d} : sweep'[c] = sweep[c]
          /\ marked' \in [Drainers -> SUBSET Events] /\ marked'[d] = {}
          /\ \A c \in Drainers \ {d} : marked'[c] = marked[c]
        BY <1>1, <2>1 DEF NoSweep
    <2>3. /\ table' \in [Events -> {"absent", "uncommitted", "lost", "unpublished", "published"}]
          /\ \A e \in Events : table'[e] = IF e \in marked[d] THEN "published" ELSE table[e]
        BY <1>1, <2>1
    <2>4. \A e \in marked[d] : e \in Events /\ table[e] = "unpublished" /\ sent[e] > 0
        BY <1>1 DEF OutInv, SweepsFit, MarksFit, Marked
    <2>5. \A e \in Events : Marked(e) => Marked(e)' \/ e \in marked[d]
        BY <2>2 DEF Marked
    <2>6. \A e \in Events : Marked(e)' => Marked(e)
        BY <2>2 DEF Marked
    <2>7. SweepsFit'
        BY <2>2, <2>3, <1>1 DEF OutInv, SweepsFit
    <2>8. PublishedIsSent'
        BY <2>1, <2>3, <2>4 DEF OutInv, PublishedIsSent
    <2>9. SentFits' /\ MarksFit'
        <3>1. ASSUME NEW e \in Events
              PROVE  sent[e] <= rollbacks + (IF table'[e] = "published" \/ Marked(e)' THEN 1 ELSE 0)
            <4>1. table[e] = "published" \/ Marked(e) => table'[e] = "published" \/ Marked(e)'
                BY <2>3, <2>5
            <4>2. sent[e] <= rollbacks + (IF table[e] = "published" \/ Marked(e) THEN 1 ELSE 0)
                BY DEF OutInv, SentFits
            <4> QED BY <1>1, <4>1, <4>2
        <3> QED BY <2>1, <2>6, <3>1 DEF OutInv, SentFits, MarksFit
    <2> QED BY <1>1, <2>1, <2>2, <2>3, <2>7, <2>8, <2>9 DEF OutInv, OutTypeOK
<1>6. ASSUME NEW d \in Drainers, Rollback(d) PROVE OutInv'
    <2>1. /\ table' = table /\ sent' = sent /\ rollbacks' = rollbacks + 1 /\ rollbacks < MaxRollbacks
          /\ sweep' = [sweep EXCEPT ![d] = NoSweep] /\ marked' = [marked EXCEPT ![d] = {}]
        BY <1>6 DEF Rollback
    <2>2. /\ sweep' \in [Drainers -> Sweeps] /\ sweep'[d].claimed = {} /\ sweep'[d].left = {}
          /\ \A c \in Drainers \ {d} : sweep'[c] = sweep[c]
          /\ marked' \in [Drainers -> SUBSET Events] /\ marked'[d] = {}
          /\ \A c \in Drainers \ {d} : marked'[c] = marked[c]
        BY <1>1, <2>1 DEF NoSweep
    <2>3. \A e \in Events : Marked(e)' => Marked(e)
        BY <2>2 DEF Marked
    <2>4. SweepsFit'
        BY <2>1, <2>2 DEF OutInv, SweepsFit
    <2>5. SentFits' /\ MarksFit'
        <3>1. ASSUME NEW e \in Events
              PROVE  sent[e] <= rollbacks + 1 + (IF table[e] = "published" \/ Marked(e)' THEN 1 ELSE 0)
            <4>1. sent[e] <= rollbacks + (IF table[e] = "published" \/ Marked(e) THEN 1 ELSE 0)
                BY DEF OutInv, SentFits
            <4> QED BY <1>1, <4>1
        <3> QED BY <2>1, <2>3, <3>1 DEF OutInv, SentFits, MarksFit
    <2> QED BY <1>1, <2>1, <2>2, <2>4, <2>5 DEF OutInv, OutTypeOK, PublishedIsSent
<1>7. CASE UNCHANGED outVars
    BY <1>7 DEF outVars, OutInv, OutTypeOK, SweepsFit, PublishedIsSent, SentFits, MarksFit, Marked
<1> QED BY <1>2, <1>3, <1>4, <1>5, <1>6, <1>7 DEF OutNext, Drains

THEOREM OutTypeAlways == OutSpec => []OutTypeOK
<1>1. OutInv => OutTypeOK
    BY DEF OutInv
<1> QED BY <1>1, OutInitEstablishes, OutStepPreserves, PTL DEF OutSpec

\* An event marked published was published, and one whose transaction rolled
\* back never is (drain, SaveOutboxEvent).
THEOREM PublishedIsAlwaysSent == OutSpec => []PublishedIsSent
<1>1. OutInv => PublishedIsSent
    BY DEF OutInv
<1> QED BY <1>1, OutInitEstablishes, OutStepPreserves, PTL DEF OutSpec

\* Drainers that run at once never publish one event each: an event is sent
\* once more than sweeps were rolled back, at most
\* (ClaimUnpublishedOutboxEvents).
THEOREM OnlyRollbacksRepeat == OutSpec => []RepeatedByRollbackOnly
<1>1. OutInv => RepeatedByRollbackOnly
    <2>1. SUFFICES ASSUME OutInv, NEW e \in Events PROVE sent[e] <= 1 + rollbacks
        BY DEF RepeatedByRollbackOnly
    <2>2. sent[e] <= rollbacks + (IF table[e] = "published" \/ Marked(e) THEN 1 ELSE 0)
        BY <2>1 DEF OutInv, SentFits
    <2>3. rollbacks \in Nat /\ sent[e] \in Nat
        BY <2>1, OutboxAssumption DEF OutInv, OutTypeOK
    <2> QED BY <2>2, <2>3
<1> QED BY <1>1, OutInitEstablishes, OutStepPreserves, PTL DEF OutSpec

-----------------------------------------------------------------------------
(* The circuit breaker                                                     *)

\* A caller that reached the provider through an open circuit has no way back
\* to it before the circuit closes.
LateIsLast ==
    \A c \in Callers : late[c] = 0 \/ (late[c] = 1 /\ open /\ stage[c] \in {"calling", "failed", "idle"})

TriesFit ==
    \A c \in Callers : /\ stage[c] = "ready" => tries[c] = 0
                       /\ stage[c] = "waiting" => tries[c] <= Retries

CirInv == CirTypeOK /\ LateIsLast /\ TriesFit

LEMMA CirInitEstablishes == CirInit => CirInv
<1> SUFFICES ASSUME CirInit PROVE CirInv
    OBVIOUS
<1>1. CirTypeOK
    <2>1. well \in BOOLEAN /\ open \in BOOLEAN
        BY Zenon DEF CirInit
    <2>2. trial \in [on : BOOLEAN, calls : SUBSET Callers]
        BY DEF CirInit, NoTrial
    <2>3. /\ failures \in 0 .. Threshold
          /\ stage \in [Callers -> {"idle", "ready", "calling", "failed", "waiting"}]
          /\ tries \in [Callers -> 0 .. Retries + 1]
          /\ late \in [Callers -> Nat]
        BY CircuitAssumption DEF CirInit
    <2> QED BY <2>1, <2>2, <2>3 DEF CirTypeOK
<1>2. LateIsLast /\ TriesFit
    BY DEF CirInit, LateIsLast, TriesFit
<1> QED BY <1>1, <1>2 DEF CirInv

LEMMA CirStepPreserves == CirInv /\ [CirNext]_cirVars => CirInv'
<1> SUFFICES ASSUME CirInv, [CirNext]_cirVars PROVE CirInv'
    OBVIOUS
<1> USE CircuitAssumption DEF CirInv, CirTypeOK
<1>1. ASSUME NEW c \in Callers, Enter(c) PROVE CirInv'
    <2>1. trial' \in [on : BOOLEAN, calls : SUBSET Callers]
        BY <1>1 DEF Enter
    <2> QED BY <1>1, <2>1 DEF Enter, LateIsLast, TriesFit
<1>2. ASSUME NEW c \in Callers, Call(c) PROVE CirInv'
    <2>1. late[c] = 0 /\ tries[c] <= Retries
        BY <1>2 DEF Call, LateIsLast, TriesFit
    <2>2. late' \in [Callers -> Nat] /\ LateIsLast'
        BY <1>2, <2>1 DEF Call, LateIsLast
    <2>3. tries' \in [Callers -> 0 .. Retries + 1] /\ TriesFit'
        BY <1>2, <2>1 DEF Call, TriesFit
    <2> QED BY <1>2, <2>2, <2>3 DEF Call
<1>3. ASSUME NEW c \in Callers, NEW u \in BOOLEAN, Answer(c, u) PROVE CirInv'
    <2>1. /\ failures' \in 0 .. Threshold /\ open' \in BOOLEAN /\ (open => open')
          /\ trial' \in [on : BOOLEAN, calls : SUBSET Callers]
        BY <1>3 DEF Answer, Record, Least, NoTrial
    <2>2. stage' = [stage EXCEPT ![c] = "failed"] \/ stage' = [stage EXCEPT ![c] = "idle"]
        BY <1>3 DEF Answer
    <2> QED BY <1>3, <2>1, <2>2 DEF Answer, LateIsLast, TriesFit
<1>4. ASSUME NEW c \in Callers, Retry(c) PROVE CirInv'
    BY <1>4 DEF Retry, LateIsLast, TriesFit
<1>5. ASSUME NEW c \in Callers, GiveUp(c) PROVE CirInv'
    BY <1>5 DEF GiveUp, LateIsLast, TriesFit
<1>6. CASE Cooldown
    BY <1>6 DEF Cooldown, LateIsLast, TriesFit
<1>7. CASE Turns
    BY <1>7 DEF Turns, LateIsLast, TriesFit
<1>8. CASE UNCHANGED cirVars
    BY <1>8 DEF cirVars, LateIsLast, TriesFit
<1> QED BY <1>1, <1>2, <1>3, <1>4, <1>5, <1>6, <1>7, <1>8 DEF CirNext, Proceeds

\* Whatever a caller had left to retry, it reaches the provider at most once
\* after the circuit opened (do).
THEOREM LoadIsAlwaysShed == CirSpec => []LoadIsShed
<1>1. CirInv => LoadIsShed
    BY DEF CirInv, CirTypeOK, LateIsLast, LoadIsShed
<1> QED BY <1>1, CirInitEstablishes, CirStepPreserves, PTL DEF CirSpec

-----------------------------------------------------------------------------
(* Reconciliation                                                          *)

\* What a cycle is at: everything before it is ingested.
JobFits(job, last, done) ==
    \/ job.phase \in {"idle", "list", "flag"}
    \/ /\ job.phase \in {"ingest", "post"}
       /\ job.at \in Nat \ {0} /\ job.upto \in Nat
       /\ job.at <= job.upto /\ job.upto <= last
       /\ 1 .. job.at - 1 \subseteq done

\* The settlements ingested are the first of those published.
Prefix(n) == Ingested = 1 .. n

CyclesInv ==
    /\ published \in Seq(Reports)
    /\ \E n \in 0 .. Len(published) : Prefix(n)
    /\ jobs = [w \in Workers |-> jobs[w]]
    /\ \A w \in Workers : JobFits(jobs[w], Len(published), Ingested)

LEMMA ReconInitEstablishes == ReconInit => CyclesInv
<1> SUFFICES ASSUME ReconInit PROVE CyclesInv
    OBVIOUS
<1>1. published \in Seq(Reports) /\ Len(published) = 0 /\ Ingested = 1 .. 0
    BY DEF ReconInit, Ingested
<1>2. Prefix(0) /\ 0 \in 0 .. Len(published)
    BY <1>1 DEF Prefix
<1>3. \A w \in Workers : JobFits(jobs[w], Len(published), Ingested)
    BY DEF ReconInit, JobFits, Idle
<1>4. jobs = [w \in Workers |-> jobs[w]]
    BY DEF ReconInit
<1> QED BY <1>1, <1>2, <1>3, <1>4 DEF CyclesInv

\* A cycle moves on, and nothing else that the invariant is about changes.
LEMMA CycleMoves ==
  ASSUME CyclesInv, NEW w \in Workers, NEW job, JobFits(job, Len(published), Ingested), Goes(w, job),
         published' = published, items' = items
  PROVE  CyclesInv'
<1>1. /\ jobs' = [v \in Workers |-> jobs'[v]]
      /\ \A v \in Workers : jobs'[v] = job \/ jobs'[v] = jobs[v]
    BY DEF CyclesInv, Goes
<1>2. Ingested' = Ingested
    BY DEF Ingested
<1>3. \A v \in Workers : JobFits(jobs'[v], Len(published'), Ingested')
    BY <1>1, <1>2 DEF CyclesInv
<1>4. \E n \in 0 .. Len(published') : Prefix(n)'
    BY <1>2 DEF CyclesInv, Prefix
<1> QED BY <1>1, <1>3, <1>4 DEF CyclesInv

LEMMA ReachFits ==
  ASSUME NEW s \in Nat \ {0}, NEW upto \in Nat, upto <= Len(published), 1 .. s - 1 \subseteq Ingested
  PROVE  JobFits(Reach(s, upto), Len(published), Ingested)
BY DEF JobFits, Reach

LEMMA ReconStepPreserves == CyclesInv /\ [ReconNext]_reconVars => CyclesInv'
<1> SUFFICES ASSUME CyclesInv, [ReconNext]_reconVars PROVE CyclesInv'
    OBVIOUS
<1>1. /\ published \in Seq(Reports) /\ Len(published) \in Nat
      /\ jobs = [w \in Workers |-> jobs[w]]
      /\ \A w \in Workers : JobFits(jobs[w], Len(published), Ingested)
    BY DEF CyclesInv
<1>2. PICK n \in 0 .. Len(published) : Ingested = 1 .. n
    BY DEF CyclesInv, Prefix
<1>3. CASE published' = published /\ items' = items /\ jobs' = jobs
    BY <1>3 DEF CyclesInv, JobFits, Prefix, Ingested
<1>4. ASSUME NEW report \in Reports, Publish(report) PROVE CyclesInv'
    <2>1. /\ published' = Append(published, report) /\ items' = items /\ jobs' = jobs
        BY <1>4 DEF Publish
    <2>2. published' \in Seq(Reports) /\ Len(published') = Len(published) + 1
        BY <1>1, <2>1
    <2>3. Ingested' = Ingested
        BY <2>1 DEF Ingested
    <2>4. \A w \in Workers : JobFits(jobs[w], Len(published'), Ingested')
        BY <1>1, <2>1, <2>2, <2>3 DEF JobFits
    <2>5. n \in 0 .. Len(published') /\ Prefix(n)'
        BY <1>1, <1>2, <2>2, <2>3 DEF Prefix
    <2> QED BY <1>1, <2>1, <2>2, <2>4, <2>5 DEF CyclesInv
<1>5. ASSUME NEW w \in Workers, StartCycle(w) PROVE CyclesInv'
    <2> DEFINE s == IF Ingested = {} THEN 1 ELSE LatestIngested
    <2>1. Goes(w, Reach(s, Len(published))) /\ published' = published /\ items' = items
        BY <1>5 DEF StartCycle
    <2>2. s \in Nat \ {0} /\ 1 .. s - 1 \subseteq Ingested
        <3>1. CASE n = 0
            <4>1. Ingested = {}
                BY <1>2, <3>1
            <4> QED BY <4>1
        <3>2. CASE n # 0
            <4>1. n \in Ingested /\ \A r \in Ingested : r <= n
                BY <1>2, <3>2
            <4>2. LatestIngested \in Ingested
                BY <4>1 DEF LatestIngested
            <4>3. s = LatestIngested
                BY <4>1
            <4> HIDE DEF s
            <4> QED BY <1>2, <4>2, <4>3
        <3> QED BY <3>1, <3>2
    <2> HIDE DEF s
    <2>3. JobFits(Reach(s, Len(published)), Len(published), Ingested)
        BY <1>1, <2>2, ReachFits
    <2> QED BY <2>1, <2>3, CycleMoves
<1>6. ASSUME NEW w \in Workers, Skip(w) PROVE CyclesInv'
    <2>1. /\ jobs[w].phase = "ingest" /\ jobs[w].at \in Ingested
          /\ Goes(w, Reach(jobs[w].at + 1, jobs[w].upto)) /\ published' = published /\ items' = items
        BY <1>6 DEF Skip, InPhase
    <2>2. jobs[w].at \in Nat \ {0} /\ jobs[w].upto \in Nat /\ jobs[w].upto <= Len(published)
        BY <1>1, <2>1 DEF JobFits
    <2>3. jobs[w].at + 1 \in Nat \ {0} /\ 1 .. (jobs[w].at + 1) - 1 \subseteq Ingested
        BY <1>2, <2>1, <2>2
    <2>4. JobFits(Reach(jobs[w].at + 1, jobs[w].upto), Len(published), Ingested)
        BY <2>2, <2>3, ReachFits
    <2> QED BY <2>1, <2>4, CycleMoves
<1>7. ASSUME NEW w \in Workers, Match(w) PROVE CyclesInv'
    <2> DEFINE job == [phase |-> "post", at |-> jobs[w].at, upto |-> jobs[w].upto,
                       classes |-> [i \in DOMAIN published[jobs[w].at] |-> Classify(published[jobs[w].at], i)]]
    <2>1. jobs[w].phase = "ingest" /\ Goes(w, job) /\ published' = published /\ items' = items
        BY <1>7 DEF Match, InPhase
    <2>2. JobFits(job, Len(published), Ingested)
        BY <1>1, <2>1 DEF JobFits
    <2> HIDE DEF job
    <2> QED BY <2>1, <2>2, CycleMoves
<1>8. ASSUME NEW w \in Workers, Reconcile(w) PROVE CyclesInv'
    <2> DEFINE s == jobs[w].at
               job == Reach(s + 1, jobs[w].upto)
    <2>1. /\ jobs[w].phase = "post" /\ published' = published
          /\ items' = [r \in Ingested \cup {s} |-> IF r = s THEN jobs[w].classes ELSE items[r]]
          /\ jobs' = [jobs EXCEPT ![w] = job]
        BY <1>8 DEF Reconcile, InPhase, Goes
    <2>2. /\ s \in Nat \ {0} /\ jobs[w].upto \in Nat /\ s <= jobs[w].upto
          /\ jobs[w].upto <= Len(published) /\ 1 .. s - 1 \subseteq Ingested
        BY <1>1, <2>1 DEF JobFits
    <2>3. Ingested' = Ingested \cup {s}
        BY <2>1 DEF Ingested
    <2>4. s <= n + 1
        <3>1. CASE s = 1
            BY <1>2, <3>1
        <3>2. CASE s # 1
            <4>1. s - 1 \in 1 .. s - 1
                BY <2>2, <3>2
            <4>2. s - 1 \in 1 .. n
                BY <1>2, <2>2, <4>1
            <4> QED BY <1>2, <2>2, <4>2
        <3> QED BY <3>1, <3>2
    <2>5. \E m \in 0 .. Len(published') : Prefix(m)'
        <3>1. CASE s <= n
            <4>1. s \in 1 .. n
                BY <1>2, <2>2, <3>1
            <4>2. Ingested' = 1 .. n
                BY <1>2, <2>3, <4>1
            <4> QED BY <1>2, <2>1, <4>2 DEF Prefix
        <3>2. CASE ~ (s <= n)
            <4>1. s = n + 1
                BY <1>2, <2>2, <2>4, <3>2
            <4>2. Ingested' = 1 .. s
                BY <1>2, <2>3, <4>1
            <4>3. s \in 0 .. Len(published')
                BY <1>1, <2>1, <2>2
            <4> QED BY <4>2, <4>3 DEF Prefix
        <3> QED BY <3>1, <3>2
    <2>6. 1 .. (s + 1) - 1 \subseteq Ingested'
        BY <2>2, <2>3
    <2>7. JobFits(job, Len(published'), Ingested')
        BY <2>1, <2>2, <2>6 DEF JobFits, Reach
    <2>8. ASSUME NEW x, JobFits(x, Len(published), Ingested) PROVE JobFits(x, Len(published'), Ingested')
        BY <2>1, <2>3, <2>8 DEF JobFits
    <2> HIDE DEF job
    <2>9. /\ jobs' = [v \in Workers |-> jobs'[v]]
          /\ \A v \in Workers : jobs'[v] = job \/ jobs'[v] = jobs[v]
        BY <1>1, <2>1
    <2>10. \A v \in Workers : JobFits(jobs'[v], Len(published'), Ingested')
        BY <1>1, <2>7, <2>8, <2>9
    <2> QED BY <1>1, <2>1, <2>5, <2>9, <2>10 DEF CyclesInv
<1>9. ASSUME NEW w \in Workers, Fail(w) \/ List(w) \/ EndCycle(w) PROVE CyclesInv'
    <2>1. published' = published /\ items' = items
        BY <1>9 DEF Fail, List, EndCycle
    <2>2. PICK job : Goes(w, job) /\ job.phase \in {"idle", "list", "flag"}
        BY <1>9 DEF Fail, List, EndCycle, Idle
    <2>3. JobFits(job, Len(published), Ingested)
        BY <2>2 DEF JobFits
    <2> QED BY <2>1, <2>2, <2>3, CycleMoves
<1>10. ASSUME NEW w \in Workers, NEW p \in Captures, Flag(w, p) PROVE CyclesInv'
    <2> DEFINE job == [jobs[w] EXCEPT !.todo = @ \ {p}]
    <2>1. published' = published /\ items' = items /\ Goes(w, job) /\ jobs[w].phase = "flag"
        BY <1>10 DEF Flag, InPhase
    <2>2. JobFits(job, Len(published), Ingested)
        BY <2>1 DEF JobFits
    <2> HIDE DEF job
    <2> QED BY <2>1, <2>2, CycleMoves
<1>11. CASE UNCHANGED reconVars
    BY <1>3, <1>11 DEF reconVars
<1> QED BY <1>3, <1>4, <1>5, <1>6, <1>7, <1>8, <1>9, <1>10, <1>11
        DEF ReconNext, Ingests, Book, Park, Age, Resolve, WriteOff, ForceMatch

\* No settlement is passed over for a later one, after which it would never
\* be fetched again (Ingest).
THEOREM NoneIsPassedOver == ReconSpec => []NonePassedOver
<1>1. CyclesInv => NonePassedOver
    BY DEF CyclesInv, Prefix, NonePassedOver
<1> QED BY <1>1, ReconInitEstablishes, ReconStepPreserves, PTL DEF ReconSpec

-----------------------------------------------------------------------------
(* What the books of a settlement say                                      *)

BreakRow == [class : Class \cup {"missing_at_provider"}, of : Refs,
             status : {"open", "resolved", "force_matched", "written_off"}, amount : Int]

\* There are finitely many breaks, and those of lines are of settlements that
\* are ingested, so that a new settlement's breaks are new.
BreaksFit ==
    /\ IsFiniteSet(DOMAIN breaks) /\ breaks \in [DOMAIN breaks -> BreakRow]
    /\ \A b \in DOMAIN breaks : OfLine(b) => b[1] \in Ingested

\* What match may say of the lines: a matched line leaves nothing unexplained.
ClassesFit(lines, classes) ==
    /\ classes \in [DOMAIN lines -> Class]
    /\ \A i \in DOMAIN lines :
          /\ classes[i] \in {"matched", "amount_mismatch", "fee_mismatch"} => lines[i].ref \in Records
          /\ classes[i] = "matched" => Unexplained(lines[i], classes[i]) = 0

\* Whoever is about to commit a settlement has its row to itself
\* (CreateSettlement inserted it).
PostsFit ==
    \A w \in Workers : jobs[w].phase = "post" =>
        /\ jobs[w].at \notin Ingested
        /\ ClassesFit(published[jobs[w].at], jobs[w].classes)
        /\ \A v \in Workers : jobs[v].phase = "post" /\ jobs[v].at = jobs[w].at => v = w

NetOf(s) == SumLines([i \in DOMAIN published[s] |-> published[s][i].net])

BankSum == SignedTotal([s \in Ingested |-> NetOf(s)], Ingested)

RowsFit ==
    /\ booked \subseteq Records /\ settled \subseteq Captures /\ overdue \subseteq Captures
    /\ parked \subseteq booked \cap Captures /\ IsFiniteSet(parked)
    /\ accounts \in [{"bank", "receivable", "suspense", "writeoffs"} -> Int]
    /\ \A s \in Ingested : items[s] \in [DOMAIN published[s] -> Class]

ReconInv ==
    /\ CyclesInv /\ RowsFit /\ BreaksFit /\ PostsFit
    /\ SuspenseIsExplained /\ CreditBookedOnce

LEMMA ClassifyFits ==
  ASSUME NEW lines \in Seq(Line), booked \subseteq Records
  PROVE  ClassesFit(lines, [i \in DOMAIN lines |-> Classify(lines, i)])
<1> DEFINE classes == [i \in DOMAIN lines |-> Classify(lines, i)]
<1> SUFFICES ASSUME NEW i \in DOMAIN lines
    PROVE  /\ classes[i] \in Class
           /\ classes[i] \in {"matched", "amount_mismatch", "fee_mismatch"} => lines[i].ref \in Records
           /\ classes[i] = "matched" => Unexplained(lines[i], classes[i]) = 0
    BY DEF ClassesFit
<1>1. lines[i] \in Line
    OBVIOUS
<1>2. classes[i] = Classify(lines, i)
    OBVIOUS
<1> HIDE DEF classes
<1>3. /\ classes[i] \in Class
      /\ classes[i] \in {"matched", "amount_mismatch", "fee_mismatch"} => lines[i].ref \in booked
    BY <1>2 DEF Classify, Class
<1>4. ASSUME classes[i] = "matched" PROVE Unexplained(lines[i], classes[i]) = 0
    <2>1. /\ lines[i].ref \in booked /\ lines[i].gross = Value[lines[i].ref]
          /\ lines[i].net + lines[i].fee = lines[i].gross
        BY <1>2, <1>4 DEF Classify
    <2> QED BY <1>1, <1>4, <2>1 DEF Unexplained, Expected, Line
<1> QED BY <1>3, <1>4

LEMMA UnexplainedType ==
  ASSUME NEW lines \in Seq(Line), NEW classes, ClassesFit(lines, classes), NEW i \in DOMAIN lines
  PROVE  /\ Unexplained(lines[i], classes[i]) \in Int /\ Expected(lines[i], classes[i]) \in Int
         /\ lines[i].net \in Int /\ lines[i].ref \in Refs
<1>1. lines[i] \in Line
    OBVIOUS
<1>2. lines[i].net \in Int /\ lines[i].fee \in Nat /\ lines[i].ref \in Refs
    BY <1>1 DEF Line
<1>3. Expected(lines[i], classes[i]) \in Int
    BY ReconAssumption DEF Expected, ClassesFit
<1> QED BY <1>2, <1>3 DEF Unexplained

LEMMA SumLinesType ==
  ASSUME NEW lines \in Seq(Line), NEW f, \A i \in DOMAIN lines : f[i] \in Int, DOMAIN f = DOMAIN lines
  PROVE  IsFiniteSet(DOMAIN lines) /\ SumLines(f) \in Int
<1>1. DOMAIN lines = 1 .. Len(lines) /\ Len(lines) \in Nat
    OBVIOUS
<1>2. IsFiniteSet(DOMAIN lines)
    BY <1>1, FS_Interval
<1> QED BY <1>2, SignedTotalType DEF SumLines

\* The open lines of some breaks, and what they are about.
OpenOf(found) == {b \in DOMAIN found : found[b].class # "missing_at_provider" /\ found[b].status = "open"}

OpenSum(found) == SignedTotal([b \in OpenOf(found) |-> found[b].amount], OpenOf(found))

LEMMA OpenSumIs ==
  ASSUME NEW found, IsFiniteSet(DOMAIN found), \A b \in DOMAIN found : found[b] \in BreakRow,
         NEW f, \A b \in DOMAIN found : f[b] = found[b].amount
  PROVE  /\ IsFiniteSet(OpenOf(found)) /\ OpenSum(found) \in Int
         /\ OpenSum(found) = SignedTotal(f, OpenOf(found))
<1>1. OpenOf(found) \subseteq DOMAIN found /\ IsFiniteSet(OpenOf(found))
    BY FS_Subset DEF OpenOf
<1> DEFINE g == [b \in OpenOf(found) |-> found[b].amount]
<1>2. (\A b \in OpenOf(found) : g[b] \in Int) /\ (\A b \in OpenOf(found) : g[b] = f[b])
    BY <1>1 DEF BreakRow
<1>3. OpenSum(found) = SignedTotal(g, OpenOf(found))
    BY DEF OpenSum
<1> HIDE DEF g
<1>4. SignedTotal(g, OpenOf(found)) = SignedTotal(f, OpenOf(found))
    BY <1>2, SignedTotalCongruence
<1>5. OpenSum(found) \in Int
    BY <1>1, <1>2, <1>3, SignedTotalType
<1> QED BY <1>1, <1>3, <1>4, <1>5

\* An operator's decision takes one break out.
LEMMA DecideMoves ==
  ASSUME BreaksFit, Ingested' = Ingested, NEW b \in DOMAIN breaks, breaks[b].status = "open",
         NEW status \in {"resolved", "force_matched", "written_off"}, Decides(b, status)
  PROVE  /\ BreaksFit' /\ OpenSum(breaks) \in Int /\ breaks[b].amount \in Int
         /\ OpenSum(breaks') = OpenSum(breaks) - (IF OfLine(b) THEN breaks[b].amount ELSE 0)
<1>1. /\ DOMAIN breaks' = DOMAIN breaks
      /\ breaks[b] \in BreakRow /\ breaks'[b] = [breaks[b] EXCEPT !.status = status]
      /\ \A x \in DOMAIN breaks : breaks[x] \in BreakRow /\ (x # b => breaks'[x] = breaks[x])
      /\ breaks' = [x \in DOMAIN breaks |-> breaks'[x]]
    BY DEF Decides, BreaksFit
<1>2. /\ breaks'[b] \in BreakRow /\ breaks'[b].class = breaks[b].class
      /\ breaks'[b].amount = breaks[b].amount /\ breaks'[b].status = status
    BY <1>1 DEF BreakRow
<1>3. \A x \in DOMAIN breaks : /\ breaks'[x] \in BreakRow /\ breaks'[x].amount = breaks[x].amount
                               /\ breaks'[x].class = breaks[x].class
    BY <1>1, <1>2
<1>4. BreaksFit'
    BY <1>1, <1>3 DEF BreaksFit, OfLine
<1>5. OpenOf(breaks') = OpenOf(breaks) \ {b}
    BY <1>1, <1>2, <1>3 DEF OpenOf
<1> DEFINE f == [x \in DOMAIN breaks |-> breaks[x].amount]
<1>6. /\ \A x \in DOMAIN breaks : f[x] = breaks[x].amount /\ f[x] \in Int
      /\ \A x \in DOMAIN breaks' : f[x] = breaks'[x].amount
    BY <1>1, <1>3 DEF BreakRow
<1> HIDE DEF f
<1>7. /\ OpenSum(breaks) = SignedTotal(f, OpenOf(breaks)) /\ OpenSum(breaks) \in Int
      /\ IsFiniteSet(OpenOf(breaks))
    BY <1>1, <1>6, OpenSumIs DEF BreaksFit
<1>8. OpenSum(breaks') = SignedTotal(f, OpenOf(breaks')) /\ OpenSum(breaks') \in Int
    BY <1>1, <1>3, <1>6, OpenSumIs DEF BreaksFit
<1>9. CASE OfLine(b)
    <2>1. b \in OpenOf(breaks) /\ \A x \in OpenOf(breaks) : f[x] \in Int
        BY <1>6, <1>9 DEF OpenOf, OfLine
    <2>2. SignedTotal(f, OpenOf(breaks)) = SignedTotal(f, OpenOf(breaks) \ {b}) + f[b]
        BY <1>7, <2>1, SignedTotalRemove
    <2>3. OpenSum(breaks) = OpenSum(breaks') + f[b]
        BY <1>5, <1>7, <1>8, <2>2
    <2>4. OpenSum(breaks') = OpenSum(breaks) - f[b]
        BY <1>6, <1>7, <1>8, <2>3
    <2> QED BY <1>4, <1>6, <1>7, <1>9, <2>4
<1>10. CASE ~ OfLine(b)
    <2>1. OpenOf(breaks') = OpenOf(breaks)
        BY <1>5, <1>10 DEF OpenOf, OfLine
    <2>2. OpenSum(breaks') = OpenSum(breaks)
        BY <1>7, <1>8, <2>1
    <2> QED BY <1>4, <1>6, <1>7, <1>10, <2>2
<1> QED BY <1>9, <1>10

\* A flag is no line's.
LEMMA FlagMoves ==
  ASSUME BreaksFit, Ingested \subseteq Nat, Ingested' = Ingested,
         NEW w \in Workers, NEW p \in Captures, Flag(w, p)
  PROVE  BreaksFit' /\ OpenSum(breaks') = OpenSum(breaks)
<1>1. CASE breaks' = breaks
    BY <1>1 DEF BreaksFit, OfLine
<1>2. CASE breaks' # breaks
    <2> DEFINE id == <<p, Cardinality(FlagsOf(p)) + 1>>
               row == [class |-> "missing_at_provider", of |-> p, status |-> "open", amount |-> Value[p]]
    <2>1. breaks' = [b \in DOMAIN breaks \cup {id} |-> IF b = id THEN row ELSE breaks[b]]
        BY <1>2 DEF Flag
    <2>2. row \in BreakRow /\ row.class = "missing_at_provider" /\ row.amount = Value[p]
        BY ReconAssumption DEF BreakRow, Refs, Records
    <2>3. id[1] \notin Ingested
        BY ReconAssumption
    <2> HIDE DEF id, row
    <2>4. /\ DOMAIN breaks' = DOMAIN breaks \cup {id} /\ breaks'[id] = row
          /\ \A b \in DOMAIN breaks : b # id => breaks'[b] = breaks[b]
          /\ \A b \in DOMAIN breaks : breaks[b] \in BreakRow
          /\ breaks' = [b \in DOMAIN breaks' |-> breaks'[b]]
        BY <2>1 DEF BreaksFit
    <2>5. IsFiniteSet(DOMAIN breaks')
        BY <2>4, FS_AddElement DEF BreaksFit
    <2>6. \A b \in DOMAIN breaks' : breaks'[b] \in BreakRow
        BY <2>2, <2>4
    <2>7. BreaksFit'
        BY <2>2, <2>4, <2>5, <2>6 DEF BreaksFit, OfLine
    <2>8. OpenOf(breaks') = OpenOf(breaks) /\ id \notin OpenOf(breaks)
        BY <2>2, <2>3, <2>4 DEF OpenOf, BreaksFit, OfLine
    <2> DEFINE f == [b \in DOMAIN breaks' |-> breaks'[b].amount]
               g == [b \in DOMAIN breaks |-> breaks[b].amount]
    <2>9. /\ \A b \in DOMAIN breaks' : f[b] = breaks'[b].amount
          /\ \A b \in DOMAIN breaks : g[b] = breaks[b].amount
          /\ \A b \in OpenOf(breaks) : f[b] = g[b]
        BY <2>4, <2>8 DEF OpenOf
    <2> HIDE DEF f, g
    <2>10. OpenSum(breaks') = SignedTotal(f, OpenOf(breaks'))
        BY <2>5, <2>6, <2>9, OpenSumIs
    <2>11. OpenSum(breaks) = SignedTotal(g, OpenOf(breaks))
        BY <2>4, <2>9, OpenSumIs DEF BreaksFit
    <2>12. SignedTotal(f, OpenOf(breaks)) = SignedTotal(g, OpenOf(breaks))
        BY <2>9, SignedTotalCongruence
    <2> QED BY <2>7, <2>8, <2>10, <2>11, <2>12
<1> QED BY <1>1, <1>2

\* The flags a settlement closes are no lines'.
LEMMA ClosedIs ==
  ASSUME BreaksFit, NEW refs
  PROVE  /\ DOMAIN Closed(refs) = DOMAIN breaks
         /\ \A b \in DOMAIN breaks : /\ Closed(refs)[b] \in BreakRow
                                     /\ Closed(refs)[b].class = breaks[b].class
                                     /\ OfLine(b) => Closed(refs)[b] = breaks[b]
<1>1. DOMAIN Closed(refs) = DOMAIN breaks
    BY DEF Closed
<1> SUFFICES ASSUME NEW b \in DOMAIN breaks
    PROVE  /\ Closed(refs)[b] \in BreakRow
           /\ Closed(refs)[b].class = breaks[b].class
           /\ OfLine(b) => Closed(refs)[b] = breaks[b]
    BY <1>1
<1>2. breaks[b] \in BreakRow
    BY DEF BreaksFit
<1>3. CASE Late(breaks[b], refs)
    <2>1. Closed(refs)[b] = [breaks[b] EXCEPT !.status = "resolved"]
        BY <1>3 DEF Closed
    <2>2. Closed(refs)[b] \in BreakRow /\ Closed(refs)[b].class = breaks[b].class
        BY <1>2, <2>1 DEF BreakRow
    <2> QED BY <1>3, <2>2 DEF Late, OfLine
<1>4. CASE ~ Late(breaks[b], refs)
    BY <1>2, <1>4 DEF Closed
<1> QED BY <1>3, <1>4

\* A settlement opens a break for every line it cannot explain, and only for
\* those it parks money.
LEMMA LinesMove ==
  ASSUME BreaksFit, NEW s \in Nat, s \notin Ingested, Ingested' = Ingested \cup {s},
         NEW lines \in Seq(Line), NEW classes, ClassesFit(lines, classes), NEW refs,
         breaks' = [b \in DOMAIN Closed(refs) \cup DOMAIN OpenBreaks(s, lines, classes) |->
                       IF b \in DOMAIN OpenBreaks(s, lines, classes)
                       THEN OpenBreaks(s, lines, classes)[b] ELSE Closed(refs)[b]]
  PROVE  /\ BreaksFit'
         /\ OpenSum(breaks) \in Int
         /\ SumLines([i \in DOMAIN lines |-> Unexplained(lines[i], classes[i])]) \in Int
         /\ OpenSum(breaks') = OpenSum(breaks)
              + SumLines([i \in DOMAIN lines |-> Unexplained(lines[i], classes[i])])
<1> DEFINE bad == {i \in DOMAIN lines : classes[i] # "matched"}
           new == {<<s, i>> : i \in bad}
           opened == OpenBreaks(s, lines, classes)
           closed == Closed(refs)
           u == [i \in DOMAIN lines |-> Unexplained(lines[i], classes[i])]
           f == [b \in DOMAIN breaks' |-> breaks'[b].amount]
           g == [b \in DOMAIN breaks |-> breaks[b].amount]
<1>1. /\ DOMAIN opened = new
      /\ \A i \in bad : opened[<<s, i>>] = [class |-> classes[i], of |-> lines[i].ref, status |-> "open",
                                            amount |-> Unexplained(lines[i], classes[i])]
    BY DEF OpenBreaks
<1>2. /\ \A i \in DOMAIN lines : u[i] = Unexplained(lines[i], classes[i]) /\ u[i] \in Int
      /\ \A i \in DOMAIN lines \ bad : u[i] = 0
      /\ DOMAIN u = DOMAIN lines
    BY UnexplainedType DEF ClassesFit
<1>3. \A i \in bad : classes[i] \in Class /\ lines[i].ref \in Refs /\ i \in DOMAIN lines
    BY UnexplainedType DEF ClassesFit
<1>4. \A i \in bad : /\ opened[<<s, i>>] \in BreakRow /\ opened[<<s, i>>].amount = u[i]
                     /\ opened[<<s, i>>].class # "missing_at_provider"
                     /\ opened[<<s, i>>].status = "open"
    <2> SUFFICES ASSUME NEW i \in bad
        PROVE  /\ opened[<<s, i>>] \in BreakRow /\ opened[<<s, i>>].amount = u[i]
               /\ opened[<<s, i>>].class # "missing_at_provider"
               /\ opened[<<s, i>>].status = "open"
        OBVIOUS
    <2>1. /\ opened[<<s, i>>] = [class |-> classes[i], of |-> lines[i].ref, status |-> "open",
                                amount |-> Unexplained(lines[i], classes[i])]
          /\ Unexplained(lines[i], classes[i]) = u[i] /\ u[i] \in Int
        BY <1>1, <1>2, <1>3
    <2> HIDE DEF opened, u, bad
    <2> QED BY <1>3, <2>1 DEF BreakRow, Class
<1>5. /\ DOMAIN closed = DOMAIN breaks
      /\ \A b \in DOMAIN breaks : /\ closed[b] \in BreakRow /\ closed[b].class = breaks[b].class
                                  /\ OfLine(b) => closed[b] = breaks[b]
    BY ClosedIs
<1>6. IsFiniteSet(DOMAIN lines) /\ SumLines(u) \in Int /\ SumLines(u) = SignedTotal(u, DOMAIN lines)
    BY <1>2, SumLinesType DEF SumLines
<1> HIDE DEF opened, closed, u
<1>7. breaks' = [b \in DOMAIN breaks \cup new |-> IF b \in new THEN opened[b] ELSE closed[b]]
    BY <1>1, <1>5 DEF opened, closed
<1>8. /\ DOMAIN breaks' = DOMAIN breaks \cup new
      /\ \A i \in bad : breaks'[<<s, i>>] = opened[<<s, i>>]
      /\ \A b \in DOMAIN breaks \ new : breaks'[b] = closed[b]
      /\ breaks' = [b \in DOMAIN breaks' |-> breaks'[b]]
    BY <1>7
<1>9. IsFiniteSet(bad) /\ IsFiniteSet(new)
    <2>1. IsFiniteSet(bad)
        BY <1>6, FS_Subset
    <2> DEFINE name == [i \in bad |-> <<s, i>>]
    <2>2. name \in Bijection(bad, new)
        BY DEF Bijection, Injection, Surjection, IsInjective
    <2> QED BY <2>1, <2>2, FS_Bijection DEF ExistsBijection
<1>10. /\ \A i \in bad : <<s, i>> \in new
       /\ \A b \in new : \E i \in bad : b = <<s, i>>
       /\ \A b \in new : b[1] = s
       /\ \A i, k \in bad : <<s, i>> = <<s, k>> => i = k
       /\ bad \subseteq DOMAIN lines
    OBVIOUS
<1> HIDE DEF new, bad
<1>11. \A b \in new : /\ breaks'[b] = opened[b] /\ opened[b] \in BreakRow
                      /\ opened[b].class # "missing_at_provider" /\ opened[b].status = "open"
    <2> SUFFICES ASSUME NEW b \in new
        PROVE  /\ breaks'[b] = opened[b] /\ opened[b] \in BreakRow
               /\ opened[b].class # "missing_at_provider" /\ opened[b].status = "open"
        OBVIOUS
    <2>1. PICK i \in bad : b = <<s, i>>
        BY <1>10
    <2> QED BY <1>4, <1>8, <2>1
<1>12. IsFiniteSet(DOMAIN breaks')
    BY <1>8, <1>9, FS_Union DEF BreaksFit
<1>13. \A b \in DOMAIN breaks' : breaks'[b] \in BreakRow
    BY <1>5, <1>8, <1>11
<1>14. BreaksFit'
    <2>1. ASSUME NEW b \in DOMAIN breaks', breaks'[b].class # "missing_at_provider" PROVE b[1] \in Ingested'
        <3>1. CASE b \in new
            BY <1>10, <3>1
        <3>2. CASE b \notin new
            <4>1. b \in DOMAIN breaks /\ breaks[b].class # "missing_at_provider"
                BY <1>5, <1>8, <2>1, <3>2
            <4> QED BY <4>1 DEF BreaksFit, OfLine
        <3> QED BY <3>1, <3>2
    <2> QED BY <1>8, <1>12, <1>13, <2>1 DEF BreaksFit, OfLine
<1>15. OpenOf(breaks) \cap new = {}
    BY <1>10 DEF OpenOf, BreaksFit, OfLine
<1>16. OpenOf(breaks') = OpenOf(breaks) \cup new
    <2>1. ASSUME NEW b \in OpenOf(breaks') PROVE b \in OpenOf(breaks) \cup new
        <3>1. CASE b \notin new
            <4>1. b \in DOMAIN breaks /\ breaks'[b] = closed[b] /\ closed[b].class = breaks[b].class
                BY <1>5, <1>8, <2>1, <3>1 DEF OpenOf
            <4> QED BY <1>5, <2>1, <4>1 DEF OpenOf, OfLine
        <3> QED BY <3>1
    <2>2. ASSUME NEW b \in OpenOf(breaks) PROVE b \in OpenOf(breaks')
        BY <1>5, <1>8, <1>15, <2>2 DEF OpenOf, OfLine
    <2>3. ASSUME NEW b \in new PROVE b \in OpenOf(breaks')
        BY <1>8, <1>11 DEF OpenOf
    <2> QED BY <2>1, <2>2, <2>3
<1>17. /\ \A b \in DOMAIN breaks' : f[b] = breaks'[b].amount /\ f[b] \in Int
       /\ \A b \in DOMAIN breaks : g[b] = breaks[b].amount
       /\ \A b \in DOMAIN breaks : breaks[b] \in BreakRow
    BY <1>13 DEF BreakRow, BreaksFit
<1>18. \A b \in OpenOf(breaks) : f[b] = g[b]
    <2> SUFFICES ASSUME NEW b \in OpenOf(breaks) PROVE f[b] = g[b]
        OBVIOUS
    <2>1. b \in DOMAIN breaks \ new /\ OfLine(b)
        BY <1>15 DEF OpenOf, OfLine
    <2>2. breaks'[b] = breaks[b] /\ b \in DOMAIN breaks'
        BY <1>5, <1>8, <2>1
    <2> QED BY <1>17, <2>1, <2>2
<1>19. \A i \in bad : f[<<s, i>>] = u[i]
    BY <1>4, <1>8, <1>17, <1>10
<1> HIDE DEF f, g
<1>20. /\ OpenSum(breaks) = SignedTotal(g, OpenOf(breaks)) /\ OpenSum(breaks) \in Int
       /\ IsFiniteSet(OpenOf(breaks))
    BY <1>17, OpenSumIs DEF BreaksFit
<1>21. OpenSum(breaks') = SignedTotal(f, OpenOf(breaks'))
    BY <1>12, <1>13, <1>17, OpenSumIs
<1>22. SignedTotal(f, OpenOf(breaks')) = SignedTotal(f, OpenOf(breaks)) + SignedTotal(f, new)
    <2>1. \A b \in OpenOf(breaks) \cup new : f[b] \in Int
        BY <1>8, <1>17 DEF OpenOf
    <2>2. SignedTotal(f, OpenOf(breaks) \cup new) = SignedTotal(f, OpenOf(breaks)) + SignedTotal(f, new)
        BY <1>9, <1>15, <1>20, <2>1, SignedTotalUnion
    <2> QED BY <1>16, <2>2
<1>23. SignedTotal(f, OpenOf(breaks)) = SignedTotal(g, OpenOf(breaks))
    BY <1>18, SignedTotalCongruence
<1>24. SignedTotal(f, new) = SignedTotal(u, bad)
    <2> DEFINE name == [i \in bad |-> <<s, i>>]
    <2>1. name \in [bad -> new]
        BY <1>10
    <2>2. \A b \in new : \E i \in bad : name[i] = b
        BY <1>10
    <2>3. \A i, k \in bad : name[i] = name[k] => i = k
        OBVIOUS
    <2>4. \A i \in bad : u[i] \in Int /\ f[name[i]] = u[i]
        BY <1>2, <1>19, <1>10
    <2> HIDE DEF name
    <2> QED BY <1>9, <2>1, <2>2, <2>3, <2>4, SignedTotalRenamed
<1>25. SignedTotal(u, DOMAIN lines) = SignedTotal(u, bad)
    <2> DEFINE good == DOMAIN lines \ bad
    <2>1. DOMAIN lines = bad \cup good /\ bad \cap good = {} /\ IsFiniteSet(good)
        BY <1>6, <1>10, FS_Subset
    <2>2. \A i \in bad \cup good : u[i] \in Int
        BY <1>2, <1>10
    <2>3. SignedTotal(u, good) = 0
        BY <1>2, SignedTotalZero
    <2>4. SignedTotal(u, bad) \in Int
        BY <1>9, <2>2, SignedTotalType
    <2> HIDE DEF good
    <2>5. SignedTotal(u, bad \cup good) = SignedTotal(u, bad) + SignedTotal(u, good)
        BY <1>9, <2>1, <2>2, SignedTotalUnion
    <2> QED BY <2>1, <2>3, <2>4, <2>5
<1>26. OpenSum(breaks') = OpenSum(breaks) + SumLines(u)
    BY <1>6, <1>20, <1>21, <1>22, <1>23, <1>24, <1>25
<1> QED BY <1>6, <1>14, <1>20, <1>26 DEF u

\* Ingesting a settlement books its net once.
LEMMA CreditMoves ==
  ASSUME IsFiniteSet(Ingested), NEW s, s \notin Ingested, Ingested' = Ingested \cup {s},
         published' = published, \A r \in Ingested \cup {s} : NetOf(r) \in Int
  PROVE  /\ BankSum \in Int /\ BankSum' = BankSum + NetOf(s)
<1> DEFINE f == [r \in Ingested |-> NetOf(r)]
           g == [r \in Ingested \cup {s} |-> NetOf(r)]
<1>1. /\ \A r \in Ingested \cup {s} : g[r] \in Int
      /\ \A r \in Ingested : f[r] = g[r] /\ f[r] \in Int
      /\ g[s] = NetOf(s)
    OBVIOUS
<1>2. BankSum = SignedTotal(f, Ingested)
    BY DEF BankSum
<1>3. \A r : NetOf(r)' = NetOf(r)
    BY DEF NetOf
<1>4. BankSum' = SignedTotal(g, Ingested \cup {s})
    BY <1>3 DEF BankSum
<1> HIDE DEF f, g
<1>5. SignedTotal(g, Ingested \cup {s}) = SignedTotal(g, Ingested) + g[s]
    BY <1>1, SignedTotalAdd
<1>6. SignedTotal(g, Ingested) = SignedTotal(f, Ingested)
    BY <1>1, SignedTotalCongruence
<1>7. BankSum \in Int
    BY <1>1, <1>2, SignedTotalType
<1> QED BY <1>1, <1>2, <1>4, <1>5, <1>6, <1>7

LEMMA ReconTypes == CyclesInv /\ RowsFit /\ BreaksFit => ReconTypeOK
<1> SUFFICES ASSUME CyclesInv, RowsFit, BreaksFit PROVE ReconTypeOK
    OBVIOUS
<1>1. PICK n \in 0 .. Len(published) : Ingested = 1 .. n
    BY DEF CyclesInv, Prefix
<1>2. published \in Seq(Reports) /\ DOMAIN published = 1 .. Len(published) /\ Len(published) \in Nat
    BY DEF CyclesInv
<1>3. Ingested \subseteq DOMAIN published /\ \A s \in DOMAIN published : published[s] \in Reports
    BY <1>1, <1>2
<1>4. \A b \in DOMAIN breaks : breaks[b] \in BreakRow
    BY DEF BreaksFit
<1>5. \A b \in DOMAIN breaks :
          /\ breaks[b].class \in Class \cup {"missing_at_provider"}
          /\ breaks[b].amount \in Int
          /\ breaks[b].status \in {"open", "resolved", "force_matched", "written_off"}
    BY <1>4 DEF BreakRow
<1>6. \A w \in Workers : jobs[w].phase \in {"idle", "ingest", "post", "list", "flag"}
    BY DEF CyclesInv, JobFits
<1> QED BY <1>3, <1>5, <1>6 DEF RowsFit, ReconTypeOK

\* What the captures parked in suspense come to.
ParkedSum(some) == SignedTotal([p \in some |-> Value[p]], some)

LEMMA ParkedSumIs ==
  ASSUME NEW some \in SUBSET Captures, IsFiniteSet(some)
  PROVE  /\ ParkedSum(some) \in Int
         /\ \A p \in Captures \ some :
               ParkedSum(some \cup {p}) = ParkedSum(some) + Value[p] /\ IsFiniteSet(some \cup {p})
<1> USE ReconAssumption DEF Records
<1> DEFINE f(P) == [p \in P |-> Value[p]]
<1>1. \A P \in SUBSET Captures : ParkedSum(P) = SignedTotal(Value, P)
    <2> SUFFICES ASSUME NEW P \in SUBSET Captures PROVE SignedTotal(f(P), P) = SignedTotal(Value, P)
        BY DEF ParkedSum
    <2>1. \A p \in P : f(P)[p] = Value[p]
        OBVIOUS
    <2> HIDE DEF f
    <2> QED BY <2>1, SignedTotalCongruence
<1>2. \A p \in Captures : Value[p] \in Int
    OBVIOUS
<1>3. SignedTotal(Value, some) \in Int
    BY <1>2, SignedTotalType
<1>4. ASSUME NEW p \in Captures \ some
      PROVE  SignedTotal(Value, some \cup {p}) = SignedTotal(Value, some) + Value[p]
    BY <1>2, SignedTotalAdd
<1>5. \A p \in Captures \ some : some \cup {p} \in SUBSET Captures /\ IsFiniteSet(some \cup {p})
    BY FS_AddElement
<1> QED BY <1>1, <1>3, <1>4, <1>5

LEMMA SuspenseIs ==
  /\ SuspenseIsExplained <=> accounts.suspense = - OpenSum(breaks) - ParkedSum(parked)
  /\ SuspenseIsExplained' <=> accounts'.suspense = - OpenSum(breaks') - ParkedSum(parked')
<1>1. OpenLines = OpenOf(breaks)
    BY DEF OpenLines, OpenOf, OfLine
<1>2. OpenLines' = OpenOf(breaks')
    BY DEF OpenLines, OpenOf, OfLine
<1> QED BY <1>1, <1>2 DEF SuspenseIsExplained, OpenSum, ParkedSum

LEMMA CreditIs ==
  /\ CreditBookedOnce <=> accounts.bank = BankSum
  /\ CreditBookedOnce' <=> accounts'.bank = BankSum'
BY DEF CreditBookedOnce, BankSum, NetOf

LEMMA ReportsAreLines ==
  ASSUME CyclesInv, NEW s \in 1 .. Len(published)
  PROVE  /\ published[s] \in Seq(Line) /\ NetOf(s) \in Int
         /\ NetOf(s) = SumLines([i \in DOMAIN published[s] |-> published[s][i].net])
<1>1. published \in Seq(Reports) /\ Reports \subseteq Seq(Line)
    BY ReconAssumption DEF CyclesInv
<1>2. published[s] \in Seq(Line)
    BY <1>1
<1> DEFINE f == [i \in DOMAIN published[s] |-> published[s][i].net]
<1>3. DOMAIN f = DOMAIN published[s] /\ \A i \in DOMAIN published[s] : f[i] \in Int
    <2>1. \A i \in DOMAIN published[s] : published[s][i] \in Line
        BY <1>2
    <2> QED BY <2>1 DEF Line
<1> HIDE DEF f
<1>4. SumLines(f) \in Int
    BY <1>2, <1>3, SumLinesType
<1> QED BY <1>2, <1>4 DEF f, NetOf

\* A cycle that moves anywhere but towards a commit has no row to itself.
LEMMA GoesFits ==
  ASSUME CyclesInv, PostsFit, NEW w \in Workers, NEW job, job.phase # "post", Goes(w, job),
         Ingested' \subseteq Ingested \cup (IF jobs[w].phase = "post" THEN {jobs[w].at} ELSE {}),
         published' = published
  PROVE  PostsFit'
<1>1. jobs'[w] = job /\ \A v \in Workers : v # w => jobs'[v] = jobs[v]
    BY DEF CyclesInv, Goes
<1> SUFFICES ASSUME NEW v \in Workers, jobs'[v].phase = "post"
    PROVE  /\ jobs'[v].at \notin Ingested'
           /\ ClassesFit(published'[jobs'[v].at], jobs'[v].classes)
           /\ \A u \in Workers : jobs'[u].phase = "post" /\ jobs'[u].at = jobs'[v].at => u = v
    BY DEF PostsFit, ClassesFit, Unexplained, Expected
<1>2. v # w /\ jobs'[v] = jobs[v]
    BY <1>1
<1>3. /\ jobs[v].at \notin Ingested
      /\ ClassesFit(published[jobs[v].at], jobs[v].classes)
      /\ \A u \in Workers : jobs[u].phase = "post" /\ jobs[u].at = jobs[v].at => u = v
    BY <1>2 DEF PostsFit
<1>4. jobs[v].at \notin Ingested'
    BY <1>2, <1>3
<1>5. \A u \in Workers : jobs'[u].phase = "post" => u # w /\ jobs'[u] = jobs[u]
    BY <1>1
<1> QED BY <1>2, <1>3, <1>4, <1>5

LEMMA ReconInvInit == ReconInit => ReconInv
<1> SUFFICES ASSUME ReconInit PROVE ReconInv
    OBVIOUS
<1>1. CyclesInv
    BY ReconInitEstablishes
<1>2. DOMAIN breaks = {} /\ Ingested = {}
    BY DEF ReconInit, Ingested
<1>3. BreaksFit
    BY <1>2, FS_EmptySet DEF BreaksFit
<1>4. RowsFit /\ PostsFit
    BY <1>2, FS_EmptySet DEF ReconInit, RowsFit, PostsFit, Idle
<1>5. OpenOf(breaks) = {}
    BY <1>2 DEF OpenOf
<1>6. OpenSum(breaks) = 0 /\ BankSum = 0 /\ ParkedSum({}) = 0
    BY <1>2, <1>5, SignedTotalEmpty DEF OpenSum, BankSum, ParkedSum
<1>7. SuspenseIsExplained /\ CreditBookedOnce
    BY <1>6, SuspenseIs, CreditIs DEF ReconInit
<1> QED BY <1>1, <1>3, <1>4, <1>7 DEF ReconInv

\* One account is set, and the others stay.
LEMMA AccountSet ==
  ASSUME NEW F, NEW a \in [F -> Int], NEW x \in F, NEW n \in Int
  PROVE  /\ [a EXCEPT ![x] = n] \in [F -> Int] /\ [a EXCEPT ![x] = n][x] = n
         /\ \A y \in F : y # x => [a EXCEPT ![x] = n][y] = a[y]
OBVIOUS

\* Two accounts are set, and the others stay.
LEMMA AccountsSet ==
  ASSUME NEW F, NEW a \in [F -> Int], NEW x \in F, NEW y \in F, x # y, NEW m \in Int, NEW n \in Int,
         NEW b, b = [a EXCEPT ![x] = m, ![y] = n]
  PROVE  /\ b \in [F -> Int] /\ b[x] = m /\ b[y] = n
         /\ \A z \in F : z # x /\ z # y => b[z] = a[z]
<1> DEFINE c == [a EXCEPT ![x] = m]
<1>1. c \in [F -> Int] /\ c[x] = m /\ \A z \in F : z # x => c[z] = a[z]
    BY AccountSet
<1>2. b = [c EXCEPT ![y] = n]
    OBVIOUS
<1> HIDE DEF c
<1>3. b \in [F -> Int] /\ b[y] = n /\ \A z \in F : z # y => b[z] = c[z]
    BY <1>1, <1>2, AccountSet
<1> QED BY <1>1, <1>3

LEMMA ReconcileKeepsInv == ASSUME ReconInv, NEW w \in Workers, Reconcile(w), CyclesInv' PROVE ReconInv'
<1> DEFINE s == jobs[w].at
           lines == published[s]
           classes == jobs[w].classes
           refs == Matches(lines, classes)
           expected == [i \in DOMAIN lines |-> Expected(lines[i], classes[i])]
           unexplained == [i \in DOMAIN lines |-> Unexplained(lines[i], classes[i])]
           net == [i \in DOMAIN lines |-> lines[i].net]
<1>1. /\ jobs[w].phase = "post"
      /\ items' = [r \in Ingested \cup {s} |-> IF r = s THEN classes ELSE items[r]]
      /\ accounts' = [accounts EXCEPT !.bank = @ + SumLines(net),
                                      !.receivable = @ - SumLines(expected),
                                      !.suspense = @ - SumLines(unexplained)]
      /\ settled' = settled \cup (refs \cap Captures)
      /\ breaks' = [b \in DOMAIN Closed(refs) \cup DOMAIN OpenBreaks(s, lines, classes) |->
                       IF b \in DOMAIN OpenBreaks(s, lines, classes)
                       THEN OpenBreaks(s, lines, classes)[b] ELSE Closed(refs)[b]]
      /\ Goes(w, Reach(s + 1, jobs[w].upto))
      /\ booked' = booked /\ parked' = parked /\ overdue' = overdue /\ published' = published
    BY DEF Reconcile, InPhase
<1>2. /\ CyclesInv /\ RowsFit /\ BreaksFit /\ PostsFit
      /\ accounts.suspense = - OpenSum(breaks) - ParkedSum(parked)
      /\ accounts.bank = BankSum /\ ParkedSum(parked) \in Int
    BY SuspenseIs, CreditIs, ParkedSumIs DEF ReconInv, RowsFit
<1>3. s \notin Ingested /\ ClassesFit(lines, classes)
    BY <1>1, <1>2 DEF PostsFit
<1>4. PICK n \in 0 .. Len(published) : Ingested = 1 .. n
    BY <1>2 DEF CyclesInv, Prefix
<1>5. s \in 1 .. Len(published) /\ s \in Nat /\ Len(published) \in Nat
    BY <1>1, <1>2 DEF CyclesInv, JobFits
<1>6. lines \in Seq(Line) /\ NetOf(s) \in Int /\ NetOf(s) = SumLines(net)
    BY <1>2, <1>5, ReportsAreLines
<1>7. Ingested' = Ingested \cup {s} /\ IsFiniteSet(Ingested)
    BY <1>1, <1>4, FS_Interval DEF Ingested
<1>8. \A r \in Ingested \cup {s} : NetOf(r) \in Int
    <2>1. Ingested \cup {s} \subseteq 1 .. Len(published)
        BY <1>4, <1>5
    <2> HIDE DEF s
    <2> QED BY <1>2, <2>1, ReportsAreLines
<1>9. SumLines(expected) \in Int
    <2>1. DOMAIN expected = DOMAIN lines /\ \A i \in DOMAIN lines : expected[i] \in Int
        BY <1>3, <1>6, UnexplainedType
    <2> HIDE DEF expected, lines
    <2> QED BY <1>6, <2>1, SumLinesType
<1> HIDE DEF s, lines, classes, refs, expected, net
<1>10. /\ BreaksFit' /\ OpenSum(breaks) \in Int /\ SumLines(unexplained) \in Int
       /\ OpenSum(breaks') = OpenSum(breaks) + SumLines(unexplained)
    BY <1>1, <1>2, <1>3, <1>5, <1>6, <1>7, LinesMove
<1> HIDE DEF unexplained
<1>11. BankSum \in Int /\ BankSum' = BankSum + NetOf(s)
    BY <1>1, <1>3, <1>7, <1>8, CreditMoves
<1>12. /\ accounts' \in [{"bank", "receivable", "suspense", "writeoffs"} -> Int]
       /\ accounts'.suspense = accounts.suspense - SumLines(unexplained)
       /\ accounts'.bank = accounts.bank + SumLines(net)
    <2>1. accounts \in [{"bank", "receivable", "suspense", "writeoffs"} -> Int]
        BY <1>2 DEF RowsFit
    <2>2. SumLines(net) \in Int
        BY <1>6
    <2> DEFINE F == {"bank", "receivable", "suspense", "writeoffs"}
               a == [accounts EXCEPT !.bank = @ + SumLines(net), !.receivable = @ - SumLines(expected)]
    <2>3. /\ a \in [F -> Int] /\ a.bank = accounts.bank + SumLines(net)
          /\ a.suspense = accounts.suspense
        <3>1. accounts.bank + SumLines(net) \in Int /\ accounts.receivable - SumLines(expected) \in Int
            BY <1>9, <2>1, <2>2
        <3>2. "bank" \in F /\ "receivable" \in F /\ "suspense" \in F /\ "bank" # "receivable"
            OBVIOUS
        <3> HIDE DEF F
        <3>3. accounts \in [F -> Int]
            BY <2>1 DEF F
        <3> QED BY <3>1, <3>2, <3>3, AccountsSet
    <2>4. accounts' = [a EXCEPT !.suspense = accounts.suspense - SumLines(unexplained)]
        BY <1>1
    <2>5. accounts.suspense - SumLines(unexplained) \in Int /\ "suspense" \in F /\ "bank" \in F
        BY <1>10, <2>1
    <2> HIDE DEF a
    <2>6. /\ accounts' \in [F -> Int] /\ accounts'.bank = a.bank
          /\ accounts'.suspense = accounts.suspense - SumLines(unexplained)
        BY <2>3, <2>4, <2>5, AccountSet
    <2> QED BY <2>3, <2>6
<1>13. SuspenseIsExplained'
    <2>1. ParkedSum(parked') = ParkedSum(parked)
        BY <1>1
    <2>2. accounts'.suspense = - OpenSum(breaks') - ParkedSum(parked')
        BY <1>2, <1>10, <1>12, <2>1
    <2> QED BY <2>2, SuspenseIs
<1>14. CreditBookedOnce'
    BY <1>2, <1>6, <1>11, <1>12, CreditIs
<1>15. RowsFit'
    <2>1. settled' \subseteq Captures
        BY <1>1, <1>2 DEF RowsFit
    <2>2. classes \in [DOMAIN lines -> Class]
        BY <1>3 DEF ClassesFit
    <2>3. \A r \in Ingested' : items'[r] \in [DOMAIN published[r] -> Class]
        BY <1>1, <1>2, <1>7, <2>2 DEF RowsFit, lines
    <2> QED BY <1>1, <1>2, <1>12, <2>1, <2>3 DEF RowsFit
<1>16. PostsFit'
    <2>1. Reach(s + 1, jobs[w].upto).phase # "post"
        BY DEF Reach
    <2> QED BY <1>1, <1>2, <1>7, <2>1, GoesFits DEF s
<1> QED BY <1>10, <1>13, <1>14, <1>15, <1>16 DEF ReconInv

\* What nothing but a settlement's commit and an operator's decision changes.
LEMMA BooksStay ==
  ASSUME ReconInv, breaks' = breaks, items' = items, accounts'.bank = accounts.bank,
         accounts'.suspense + ParkedSum(parked') = accounts.suspense + ParkedSum(parked),
         ParkedSum(parked') \in Int, accounts'.suspense \in Int,
         \A s \in Ingested : published'[s] = published[s]
  PROVE  BreaksFit' /\ Ingested' = Ingested /\ SuspenseIsExplained' /\ CreditBookedOnce'
<1>1. Ingested' = Ingested
    BY DEF Ingested
<1>2. BreaksFit'
    BY <1>1 DEF ReconInv, BreaksFit, OfLine
<1>3. SuspenseIsExplained'
    <2>1. accounts.suspense = - OpenSum(breaks) - ParkedSum(parked)
        BY SuspenseIs DEF ReconInv
    <2>2. /\ accounts.suspense \in Int /\ ParkedSum(parked) \in Int
          /\ OpenSum(breaks) \in Int /\ OpenSum(breaks') = OpenSum(breaks)
        <3> DEFINE f == [b \in DOMAIN breaks |-> breaks[b].amount]
        <3>1. \A b \in DOMAIN breaks : f[b] = breaks[b].amount
            OBVIOUS
        <3> HIDE DEF f
        <3>2. OpenSum(breaks) \in Int
            BY <3>1, OpenSumIs DEF ReconInv, BreaksFit
        <3> QED BY <3>2, ParkedSumIs DEF ReconInv, RowsFit
    <2>3. accounts'.suspense = - OpenSum(breaks') - ParkedSum(parked')
        BY <2>1, <2>2
    <2> QED BY <2>3, SuspenseIs
<1>4. \A s \in Ingested : NetOf(s)' = NetOf(s)
    BY DEF NetOf
<1>5. BankSum' = BankSum
    BY <1>1, <1>4 DEF BankSum
<1>6. CreditBookedOnce'
    BY <1>5, CreditIs DEF ReconInv
<1> QED BY <1>1, <1>2, <1>3, <1>6

LEMMA ReconInvStep == ReconInv /\ [ReconNext]_reconVars => ReconInv'
<1> SUFFICES ASSUME ReconInv, [ReconNext]_reconVars PROVE ReconInv'
    OBVIOUS
<1>1. CyclesInv'
    BY ReconStepPreserves DEF ReconInv
<1>2. /\ CyclesInv /\ RowsFit /\ BreaksFit /\ PostsFit
      /\ accounts.suspense = - OpenSum(breaks) - ParkedSum(parked)
      /\ accounts.bank = BankSum /\ ParkedSum(parked) \in Int
    BY SuspenseIs, CreditIs, ParkedSumIs DEF ReconInv, RowsFit
<1>0. /\ accounts.suspense \in Int /\ accounts \in [{"bank", "receivable", "suspense", "writeoffs"} -> Int]
      /\ parked \in SUBSET Captures /\ IsFiniteSet(parked) /\ parked \subseteq booked
    BY <1>2 DEF RowsFit
<1>3. PICK n \in 0 .. Len(published) : Ingested = 1 .. n
    BY <1>2 DEF CyclesInv, Prefix
<1>4. /\ published \in Seq(Reports) /\ Len(published) \in Nat
      /\ Ingested \subseteq Nat /\ Ingested \subseteq 1 .. Len(published)
    BY <1>2, <1>3 DEF CyclesInv
<1>5. \A w \in Workers : jobs[w].phase = "post" => jobs[w].at \in 1 .. Len(published)
    BY <1>2 DEF CyclesInv, JobFits
<1>6. ASSUME jobs' = jobs, published' = published, Ingested' = Ingested PROVE PostsFit'
    BY <1>2, <1>6 DEF PostsFit, ClassesFit, Unexplained, Expected
<1>7. CASE UNCHANGED reconVars
    <2>1. UNCHANGED <<booked, parked, settled, overdue, published, items, breaks, accounts, jobs>>
        BY <1>7 DEF reconVars
    <2>2. BreaksFit' /\ Ingested' = Ingested /\ SuspenseIsExplained' /\ CreditBookedOnce'
        BY <1>2, <1>0, <2>1, BooksStay
    <2>3. RowsFit' /\ PostsFit'
        BY <1>2, <1>6, <2>1, <2>2 DEF RowsFit
    <2> QED BY <1>1, <2>2, <2>3 DEF ReconInv
<1>8. ASSUME NEW x \in Records, Book(x) PROVE ReconInv'
    <2>1. /\ booked' = booked \cup {x} /\ accounts' = [accounts EXCEPT !.receivable = @ + Value[x]]
          /\ UNCHANGED <<parked, settled, overdue, published, items, breaks, jobs>>
        BY <1>8 DEF Book
    <2>2. /\ accounts' \in [{"bank", "receivable", "suspense", "writeoffs"} -> Int]
          /\ UNCHANGED <<accounts.suspense, accounts.bank>>
        BY <1>2, <2>1, ReconAssumption DEF RowsFit
    <2>3. BreaksFit' /\ Ingested' = Ingested /\ SuspenseIsExplained' /\ CreditBookedOnce'
        BY <1>2, <1>0, <2>1, <2>2, BooksStay
    <2>4. RowsFit' /\ PostsFit'
        BY <1>2, <1>6, <2>1, <2>2, <2>3 DEF RowsFit
    <2> QED BY <1>1, <2>3, <2>4 DEF ReconInv
<1>9. ASSUME NEW p \in Captures, Age(p) PROVE ReconInv'
    <2>1. /\ overdue' = overdue \cup {p}
          /\ UNCHANGED <<booked, parked, settled, published, items, breaks, accounts, jobs>>
        BY <1>9 DEF Age
    <2>2. BreaksFit' /\ Ingested' = Ingested /\ SuspenseIsExplained' /\ CreditBookedOnce'
        BY <1>2, <1>0, <2>1, BooksStay
    <2>3. RowsFit' /\ PostsFit'
        BY <1>2, <1>6, <2>1, <2>2 DEF RowsFit
    <2> QED BY <1>1, <2>2, <2>3 DEF ReconInv
<1>10. ASSUME NEW report \in Reports, Publish(report) PROVE ReconInv'
    <2>1. /\ published' = Append(published, report)
          /\ UNCHANGED <<booked, parked, settled, overdue, items, breaks, accounts, jobs>>
        BY <1>10 DEF Publish
    <2>2. \A s \in 1 .. Len(published) : published'[s] = published[s]
        BY <1>4, <2>1
    <2>3. BreaksFit' /\ Ingested' = Ingested /\ SuspenseIsExplained' /\ CreditBookedOnce'
        BY <1>2, <1>4, <1>0, <2>1, <2>2, BooksStay
    <2>4. RowsFit'
        BY <1>2, <1>4, <2>1, <2>2, <2>3 DEF RowsFit
    <2>5. PostsFit'
        <3> SUFFICES ASSUME NEW w \in Workers, jobs[w].phase = "post"
            PROVE  /\ jobs[w].at \notin Ingested
                   /\ ClassesFit(published'[jobs[w].at], jobs[w].classes)
                   /\ \A v \in Workers : jobs[v].phase = "post" /\ jobs[v].at = jobs[w].at => v = w
            BY <2>1, <2>3 DEF PostsFit, ClassesFit, Unexplained, Expected
        <3> QED BY <1>2, <1>5, <2>2 DEF PostsFit
    <2> QED BY <1>1, <2>3, <2>4, <2>5 DEF ReconInv
<1>11. ASSUME NEW w \in Workers, StartCycle(w) \/ Skip(w) \/ Fail(w) \/ List(w) \/ EndCycle(w)
       PROVE  ReconInv'
    <2>1. UNCHANGED <<booked, parked, settled, overdue, published, items, breaks, accounts>>
        BY <1>11 DEF StartCycle, Skip, Fail, List, EndCycle
    <2>2. PICK job : Goes(w, job) /\ job.phase # "post"
        <3>1. \A s, upto : Reach(s, upto).phase # "post"
            BY DEF Reach
        <3> QED BY <1>11, <3>1 DEF StartCycle, Skip, Fail, List, EndCycle, Idle
    <2>3. BreaksFit' /\ Ingested' = Ingested /\ SuspenseIsExplained' /\ CreditBookedOnce'
        BY <1>2, <1>0, <2>1, BooksStay
    <2>4. RowsFit'
        BY <1>2, <2>1, <2>3 DEF RowsFit
    <2>5. PostsFit'
        BY <1>2, <2>1, <2>2, <2>3, GoesFits
    <2> QED BY <1>1, <2>3, <2>4, <2>5 DEF ReconInv
<1>12. ASSUME NEW w \in Workers, Match(w) PROVE ReconInv'
    <2> DEFINE s == jobs[w].at
               job == [phase |-> "post", at |-> s, upto |-> jobs[w].upto,
                       classes |-> [i \in DOMAIN published[s] |-> Classify(published[s], i)]]
    <2>1. /\ jobs[w].phase = "ingest" /\ s \notin Ingested
          /\ \A v \in Workers : jobs[v].phase = "post" => jobs[v].at # s
          /\ Goes(w, job)
          /\ UNCHANGED <<booked, parked, settled, overdue, published, items, breaks, accounts>>
        BY <1>12 DEF Match, InPhase
    <2>2. BreaksFit' /\ Ingested' = Ingested /\ SuspenseIsExplained' /\ CreditBookedOnce'
        BY <1>2, <1>0, <2>1, BooksStay
    <2>3. RowsFit'
        BY <1>2, <2>1, <2>2 DEF RowsFit
    <2>4. s \in 1 .. Len(published)
        BY <1>2, <2>1 DEF CyclesInv, JobFits
    <2>5. ClassesFit(published[s], job.classes)
        BY <1>2, <2>4, ReportsAreLines, ClassifyFits DEF RowsFit
    <2>6. job.phase = "post" /\ job.at = s
        OBVIOUS
    <2> HIDE DEF job
    <2>7. jobs'[w] = job /\ \A v \in Workers : v # w => jobs'[v] = jobs[v]
        BY <1>2, <2>1 DEF CyclesInv, Goes
    <2>8. PostsFit'
        <3> SUFFICES ASSUME NEW v \in Workers, jobs'[v].phase = "post"
            PROVE  /\ jobs'[v].at \notin Ingested
                   /\ ClassesFit(published[jobs'[v].at], jobs'[v].classes)
                   /\ \A u \in Workers : jobs'[u].phase = "post" /\ jobs'[u].at = jobs'[v].at => u = v
            BY <2>1, <2>2 DEF PostsFit, ClassesFit, Unexplained, Expected
        <3>1. CASE v = w
            BY <2>1, <2>5, <2>6, <2>7, <3>1
        <3>2. CASE v # w
            <4>1. /\ jobs'[v] = jobs[v] /\ jobs[v].at \notin Ingested
                  /\ ClassesFit(published[jobs[v].at], jobs[v].classes)
                  /\ \A u \in Workers : jobs[u].phase = "post" /\ jobs[u].at = jobs[v].at => u = v
                BY <1>2, <2>7, <3>2 DEF PostsFit
            <4>2. ASSUME NEW u \in Workers, jobs'[u].phase = "post", jobs'[u].at = jobs[v].at PROVE u = v
                BY <2>1, <2>6, <2>7, <4>1, <4>2
            <4> QED BY <4>1, <4>2
        <3> QED BY <3>1, <3>2
    <2> QED BY <1>1, <2>2, <2>3, <2>8 DEF ReconInv
<1>13. ASSUME NEW w \in Workers, Reconcile(w) PROVE ReconInv'
    BY <1>1, <1>13, ReconcileKeepsInv
<1>14. ASSUME NEW w \in Workers, NEW p \in Captures, Flag(w, p) PROVE ReconInv'
    <2> DEFINE job == [jobs[w] EXCEPT !.todo = @ \ {p}]
    <2>1. /\ jobs[w].phase = "flag" /\ Goes(w, job)
          /\ UNCHANGED <<booked, parked, settled, overdue, published, items, accounts>>
        BY <1>14 DEF Flag, InPhase
    <2>2. job.phase # "post"
        BY <2>1
    <2>3. Ingested' = Ingested
        BY <2>1 DEF Ingested
    <2> HIDE DEF job
    <2>4. BreaksFit' /\ OpenSum(breaks') = OpenSum(breaks)
        BY <1>2, <1>4, <1>14, <2>3, FlagMoves
    <2>5. SuspenseIsExplained'
        BY <1>2, <2>1, <2>4, SuspenseIs
    <2>6. BankSum' = BankSum
        BY <2>1, <2>3 DEF BankSum, NetOf
    <2>7. CreditBookedOnce'
        BY <1>2, <2>1, <2>6, CreditIs
    <2>8. RowsFit' /\ PostsFit'
        BY <1>2, <2>1, <2>2, <2>3, GoesFits DEF RowsFit
    <2> QED BY <1>1, <2>4, <2>5, <2>7, <2>8 DEF ReconInv
<1>15. ASSUME NEW b \in DOMAIN breaks, Resolve(b) \/ WriteOff(b) \/ \E p \in Captures : ForceMatch(b, p)
       PROVE  ReconInv'
    <2>1. PICK status \in {"resolved", "force_matched", "written_off"} : Decides(b, status)
        BY <1>15 DEF Resolve, WriteOff, ForceMatch
    <2>2. /\ breaks[b].status = "open" /\ UNCHANGED <<booked, parked, overdue, published, items, jobs>>
          /\ settled' \subseteq settled \cup Captures
        BY <1>15 DEF Resolve, WriteOff, ForceMatch
    <2>3. Ingested' = Ingested
        BY <2>2 DEF Ingested
    <2>4. /\ BreaksFit' /\ OpenSum(breaks) \in Int /\ breaks[b].amount \in Int
          /\ OpenSum(breaks') = OpenSum(breaks) - (IF OfLine(b) THEN breaks[b].amount ELSE 0)
        BY <1>2, <2>1, <2>2, <2>3, DecideMoves
    <2>5. /\ accounts' \in [{"bank", "receivable", "suspense", "writeoffs"} -> Int]
          /\ accounts'.bank = accounts.bank
          /\ accounts'.suspense = accounts.suspense + (IF OfLine(b) THEN breaks[b].amount ELSE 0)
        <3>1. CASE Resolve(b)
            BY <1>2, <2>4, <3>1 DEF Resolve, RowsFit
        <3>2. CASE WriteOff(b)
            <4>1. accounts \in [{"bank", "receivable", "suspense", "writeoffs"} -> Int]
                BY <1>2 DEF RowsFit
            <4>2. CASE OfLine(b)
                <5>1. accounts' = [accounts EXCEPT !.suspense = @ + breaks[b].amount,
                                                   !.writeoffs = @ - breaks[b].amount]
                    BY <3>2, <4>2 DEF WriteOff
                <5>2. accounts.suspense + breaks[b].amount \in Int /\ accounts.writeoffs - breaks[b].amount \in Int
                    BY <2>4, <4>1
                <5> QED BY <4>1, <4>2, <5>1, <5>2, AccountsSet
            <4>3. CASE ~ OfLine(b)
                <5>1. accounts' = [accounts EXCEPT !.receivable = @ - breaks[b].amount,
                                                   !.writeoffs = @ + breaks[b].amount]
                    BY <3>2, <4>3 DEF WriteOff
                <5>2. accounts.receivable - breaks[b].amount \in Int /\ accounts.writeoffs + breaks[b].amount \in Int
                    BY <2>4, <4>1
                <5>3. /\ accounts' \in [{"bank", "receivable", "suspense", "writeoffs"} -> Int]
                      /\ accounts'.bank = accounts.bank /\ accounts'.suspense = accounts.suspense
                    BY <4>1, <5>1, <5>2, AccountsSet
                <5>4. accounts.suspense + 0 = accounts.suspense
                    BY <4>1
                <5> QED BY <4>3, <5>3, <5>4
            <4> QED BY <4>2, <4>3
        <3>3. ASSUME NEW p \in Captures, ForceMatch(b, p)
              PROVE  /\ accounts' \in [{"bank", "receivable", "suspense", "writeoffs"} -> Int]
                     /\ accounts'.bank = accounts.bank
                     /\ accounts'.suspense = accounts.suspense + (IF OfLine(b) THEN breaks[b].amount ELSE 0)
            <4>1. accounts \in [{"bank", "receivable", "suspense", "writeoffs"} -> Int]
                BY <1>2 DEF RowsFit
            <4>2. /\ accounts' = [accounts EXCEPT !.suspense = @ + breaks[b].amount,
                                                  !.receivable = @ - breaks[b].amount]
                  /\ OfLine(b)
                BY <3>3 DEF ForceMatch
            <4>3. accounts.suspense + breaks[b].amount \in Int /\ accounts.receivable - breaks[b].amount \in Int
                BY <2>4, <4>1
            <4> QED BY <4>1, <4>2, <4>3, AccountsSet
        <3> QED BY <1>15, <3>1, <3>2, <3>3
    <2>6. SuspenseIsExplained'
        <3>1. ParkedSum(parked') = ParkedSum(parked)
            BY <2>2
        <3>2. accounts'.suspense = - OpenSum(breaks') - ParkedSum(parked')
            BY <1>2, <2>4, <2>5, <3>1
        <3> QED BY <3>2, SuspenseIs
    <2>7. BankSum' = BankSum
        BY <2>2, <2>3 DEF BankSum, NetOf
    <2>8. CreditBookedOnce'
        BY <1>2, <2>5, <2>7, CreditIs
    <2>9. RowsFit' /\ PostsFit'
        BY <1>2, <1>6, <2>2, <2>3, <2>5 DEF RowsFit
    <2> QED BY <1>1, <2>4, <2>6, <2>8, <2>9 DEF ReconInv
<1>16. ASSUME NEW p \in Captures, Park(p) PROVE ReconInv'
    <2>1. /\ booked' = booked \cup {p} /\ parked' = parked \cup {p} /\ p \notin parked
          /\ accounts' = [accounts EXCEPT !.receivable = @ + Value[p], !.suspense = @ - Value[p]]
          /\ UNCHANGED <<settled, overdue, published, items, breaks, jobs>>
        BY <1>16, <1>0 DEF Park
    <2>2. /\ accounts' \in [{"bank", "receivable", "suspense", "writeoffs"} -> Int]
          /\ accounts'.bank = accounts.bank /\ accounts'.suspense = accounts.suspense - Value[p]
        <3>1. Value[p] \in Int
            BY ReconAssumption DEF Records
        <3>2. accounts.receivable + Value[p] \in Int /\ accounts.suspense - Value[p] \in Int
            BY <1>0, <3>1
        <3> QED BY <1>0, <2>1, <3>2, AccountsSet
    <2>3. /\ ParkedSum(parked') = ParkedSum(parked) + Value[p]
          /\ IsFiniteSet(parked') /\ ParkedSum(parked') \in Int /\ Value[p] \in Int
        <3>1. parked \cup {p} \in SUBSET Captures
            BY <1>0
        <3>2. /\ ParkedSum(parked \cup {p}) = ParkedSum(parked) + Value[p]
              /\ IsFiniteSet(parked \cup {p})
            BY <1>0, <2>1, ParkedSumIs
        <3>3. ParkedSum(parked \cup {p}) \in Int
            BY <3>1, <3>2, ParkedSumIs
        <3>4. Value[p] \in Int
            BY ReconAssumption DEF Records
        <3> QED BY <2>1, <3>2, <3>3, <3>4
    <2>4. /\ accounts'.suspense \in Int
          /\ accounts'.suspense + ParkedSum(parked') = accounts.suspense + ParkedSum(parked)
        BY <1>2, <1>0, <2>2, <2>3
    <2>5. BreaksFit' /\ Ingested' = Ingested /\ SuspenseIsExplained' /\ CreditBookedOnce'
        BY <2>1, <2>2, <2>3, <2>4, BooksStay
    <2>6. RowsFit' /\ PostsFit'
        BY <1>2, <1>6, <1>0, <2>1, <2>2, <2>3, <2>5 DEF RowsFit, Records
    <2> QED BY <1>1, <2>5, <2>6 DEF ReconInv
<1> QED BY <1>7, <1>8, <1>9, <1>10, <1>11, <1>12, <1>13, <1>14, <1>15, <1>16 DEF ReconNext, Ingests

\* The rows of settlements, breaks and accounts are always well typed
\* (internal/recon).
THEOREM ReconTypeAlways == ReconSpec => []ReconTypeOK
<1>1. ReconInv => ReconTypeOK
    BY ReconTypes DEF ReconInv
<1> QED BY <1>1, ReconInvInit, ReconInvStep, PTL DEF ReconSpec

\* No difference a settlement shows is absorbed anywhere but in suspense, and
\* none leaves it but by a decision (Reconcile, move); what else is there are
\* the captures of another amount that applyCapture parked, and they stay.
THEOREM SuspenseIsAlwaysExplained == ReconSpec => []SuspenseIsExplained
<1>1. ReconInv => SuspenseIsExplained
    BY DEF ReconInv
<1> QED BY <1>1, ReconInvInit, ReconInvStep, PTL DEF ReconSpec

\* However many cycles fetched a settlement and run beside each other, its
\* credit is booked once (CreateSettlement).
THEOREM CreditAlwaysBookedOnce == ReconSpec => []CreditBookedOnce
<1>1. ReconInv => CreditBookedOnce
    BY DEF ReconInv
<1> QED BY <1>1, ReconInvInit, ReconInvStep, PTL DEF ReconSpec

-----------------------------------------------------------------------------
(* Collection                                                              *)

\* Nothing is credited before it is received: what makes OrderFollowsMoney
\* inductive.
NothingEarly == \A p \in Payments : phase[p] # "received" => credited[p] = {}

CollectionInv == CollectionTypeOK /\ NothingEarly /\ OrderFollowsMoney

-----------------------------------------------------------------------------
\* An order that gives up was waiting, and waits no more; the others stay.
LEMMA GivingUp ==
    ASSUME CollectionTypeOK, NEW p \in Payments, OrderGivesUp(p)
    PROVE  /\ orders' \in [Payments -> {"pending_payment", "paid", "failed", "cancelled"}]
           /\ \A q \in Payments : q # p => orders'[q] = orders[q]
           /\ ForOrder(p) => orders'[p] # "pending_payment"
           /\ orders'[p] = "paid" <=> orders[p] = "paid"
  <1>1. CASE ForOrder(p) /\ orders[p] = "pending_payment"
    BY <1>1 DEF CollectionTypeOK, OrderGivesUp
  <1>2. CASE ~ (ForOrder(p) /\ orders[p] = "pending_payment")
    BY <1>2 DEF CollectionTypeOK, OrderGivesUp
  <1> QED BY <1>1, <1>2

LEMMA CollectionInitInv == CollectionInit => CollectionInv
  <1> SUFFICES ASSUME CollectionInit PROVE CollectionInv
    OBVIOUS
  <1>1. CollectionTypeOK /\ NothingEarly
    BY DEF CollectionInit, CollectionTypeOK, NothingEarly
  <1>2. OrderFollowsMoney
    BY DEF CollectionInit, OrderFollowsMoney
  <1> QED BY <1>1, <1>2 DEF CollectionInv

LEMMA OpenKeepsInv ==
    ASSUME CollectionInv, NEW p \in Payments, OpenPayment(p)
    PROVE  CollectionInv'
  <1> USE DEF CollectionInv
  <1>1. CollectionTypeOK'
    BY DEF CollectionTypeOK, OpenPayment
  <1>2. NothingEarly'
    BY DEF CollectionTypeOK, NothingEarly, OpenPayment
  <1>3. OrderFollowsMoney'
    BY DEF CollectionTypeOK, OrderFollowsMoney, OpenPayment
  <1> QED BY <1>1, <1>2, <1>3

LEMMA CloseKeepsInv ==
    ASSUME CollectionInv, NEW p \in Payments, ClosePayment(p)
    PROVE  CollectionInv'
  <1> USE DEF CollectionInv
  <1>0. OrderGivesUp(p)
    BY DEF ClosePayment
  <1>1. CollectionTypeOK'
    BY <1>0, GivingUp DEF CollectionTypeOK, ClosePayment
  <1>2. NothingEarly'
    BY DEF CollectionTypeOK, NothingEarly, ClosePayment
  <1>3. OrderFollowsMoney'
    <2> SUFFICES ASSUME NEW q \in Payments, ForOrder(q)
                 PROVE  /\ orders'[q] = "paid" <=> \E sum \in Sums : credited'[q] = {<<"sales", sum>>}
                        /\ orders'[q] = "pending_payment" =>
                              \/ phase'[q] \in {"none", "open"}
                              \/ \E sum \in Sums : credited'[q] = {<<"suspense", sum>>}
      BY DEF OrderFollowsMoney, ForOrder
    <2>1. credited' = credited
      BY DEF ClosePayment
    <2>2. CASE q = p
      BY <1>0, <2>1, <2>2, GivingUp DEF OrderFollowsMoney
    <2>3. CASE q # p
      <3>1. phase'[q] = phase[q] /\ orders'[q] = orders[q]
        BY <1>0, <2>3, GivingUp DEF CollectionTypeOK, ClosePayment
      <3> QED BY <2>1, <3>1 DEF OrderFollowsMoney
    <2> QED BY <2>2, <2>3
  <1> QED BY <1>1, <1>2, <1>3

LEMMA ReceiveKeepsInv ==
    ASSUME CollectionInv, NEW p \in Payments, Receive(p)
    PROVE  CollectionInv'
  <1> USE DEF CollectionInv
  <1>1. PICK sum \in Sums, account \in {Beneficiary(p), "refunds_payable", "suspense"} :
            /\ credited' = [credited EXCEPT ![p] = {<<account, sum>>}]
            /\ CASE account = "sales" -> /\ orders[p] = "pending_payment"
                                         /\ orders' = [orders EXCEPT ![p] = "paid"]
                 [] account = "refunds_payable" -> OrderGivesUp(p)
                 [] OTHER -> UNCHANGED orders
    BY DEF Receive
  <1>2. account \in {"sales", "wallet", "refunds_payable", "suspense"}
    BY DEF Beneficiary
  <1>3. ForOrder(p) => account # "wallet"
    BY DEF Beneficiary
  <1>4. orders' \in [Payments -> {"pending_payment", "paid", "failed", "cancelled"}]
    BY <1>1, GivingUp DEF CollectionTypeOK
  <1>5. CollectionTypeOK'
    <2>1. {<<account, sum>>} \in SUBSET ({"wallet", "sales", "refunds_payable", "suspense"} \X Sums)
      BY <1>2
    <2>2. credited' \in [Payments -> SUBSET ({"wallet", "sales", "refunds_payable", "suspense"} \X Sums)]
      BY <1>1, <2>1 DEF CollectionTypeOK
    <2>3. phase' \in [Payments -> {"none", "open", "closed", "received"}]
      BY DEF CollectionTypeOK, Receive
    <2> QED BY <1>4, <2>2, <2>3 DEF CollectionTypeOK
  <1>6. NothingEarly'
    BY <1>1 DEF CollectionTypeOK, NothingEarly, Receive
  <1>7. OrderFollowsMoney'
    <2> SUFFICES ASSUME NEW q \in Payments, ForOrder(q)
                 PROVE  /\ orders'[q] = "paid" <=> \E n \in Sums : credited'[q] = {<<"sales", n>>}
                        /\ orders'[q] = "pending_payment" =>
                              \/ phase'[q] \in {"none", "open"}
                              \/ \E n \in Sums : credited'[q] = {<<"suspense", n>>}
      BY DEF OrderFollowsMoney, ForOrder
    <2>1. CASE q = p
      <3>1. credited'[p] = {<<account, sum>>} /\ credited[p] = {}
        BY <1>1 DEF CollectionTypeOK, NothingEarly, Receive
      <3>2. orders[p] # "paid"
        BY <2>1, <3>1 DEF OrderFollowsMoney
      <3>3. CASE account = "sales"
        BY <1>1, <2>1, <3>1, <3>3 DEF CollectionTypeOK
      <3>4. CASE account = "refunds_payable"
        <4>1. orders'[p] # "paid" /\ orders'[p] # "pending_payment"
          BY <1>1, <2>1, <3>2, <3>4, GivingUp
        <4>2. \A n \in Sums : credited'[p] # {<<"sales", n>>}
          <5> SUFFICES ASSUME NEW n \in Sums, credited'[p] = {<<"sales", n>>} PROVE FALSE
            OBVIOUS
          <5>1. <<account, sum>> \in {<<"sales", n>>}
            BY <3>1
          <5>2. account = "sales"
            BY <5>1
          <5> QED BY <3>4, <5>2
        <4> QED BY <2>1, <4>1, <4>2
      <3>5. CASE account = "suspense"
        BY <1>1, <2>1, <3>1, <3>2, <3>5
      <3> QED BY <1>2, <1>3, <2>1, <3>3, <3>4, <3>5
    <2>2. CASE q # p
      <3>1. orders'[q] = orders[q]
        BY <1>1, <2>2, GivingUp DEF CollectionTypeOK
      <3>2. phase'[q] = phase[q] /\ credited'[q] = credited[q]
        BY <1>1, <2>2 DEF CollectionTypeOK, Receive
      <3> QED BY <3>1, <3>2 DEF OrderFollowsMoney
    <2> QED BY <2>1, <2>2
  <1> QED BY <1>5, <1>6, <1>7

LEMMA CollectionStepInv ==
    CollectionInv /\ [CollectionNext]_collectionVars => CollectionInv'
  <1> SUFFICES ASSUME CollectionInv, [CollectionNext]_collectionVars PROVE CollectionInv'
    OBVIOUS
  <1>1. CASE UNCHANGED collectionVars
    BY <1>1 DEF CollectionInv, CollectionTypeOK, NothingEarly, OrderFollowsMoney, collectionVars
  <1>2. CASE CollectionNext
    BY <1>2, OpenKeepsInv, CloseKeepsInv, ReceiveKeepsInv DEF CollectionNext
  <1> QED BY <1>1, <1>2

-----------------------------------------------------------------------------
\* Whatever is opened, closed or received, an order is paid exactly by the
\* money booked as its sales, and waits only for money that may still come or
\* is in suspense.
THEOREM OrdersFollowMoney == CollectionSpec => []OrderFollowsMoney
  <1>1. CollectionInv => OrderFollowsMoney
    BY DEF CollectionInv
  <1> QED BY <1>1, CollectionInitInv, CollectionStepInv, PTL DEF CollectionSpec

\* Money once received is never moved back nor credited again, and the order
\* it paid, or failed to pay, does not change with the payment any more.
THEOREM ReceivedIsForGood == CollectionSpec => ReceivedStays
  <1>1. CollectionInv /\ [CollectionNext]_collectionVars => [ReceivedStaysStep]_collectionVars
    <2> SUFFICES ASSUME CollectionInv, CollectionNext, NEW q \in Payments, phase[q] = "received"
                 PROVE  phase'[q] = "received" /\ credited'[q] = credited[q] /\ orders'[q] = orders[q]
      BY DEF ReceivedStaysStep
    <2>0. CollectionTypeOK
      BY DEF CollectionInv
    <2>1. PICK p \in Payments : OpenPayment(p) \/ ClosePayment(p) \/ Receive(p)
      BY DEF CollectionNext
    <2>2. q # p
      BY <2>1 DEF OpenPayment, ClosePayment, Receive
    <2>3. CASE OpenPayment(p)
      BY <2>0, <2>2, <2>3 DEF CollectionTypeOK, OpenPayment
    <2>4. CASE ClosePayment(p)
      BY <2>0, <2>2, <2>4, GivingUp DEF CollectionTypeOK, ClosePayment
    <2>5. CASE Receive(p)
      <3>1. orders'[q] = orders[q]
        BY <2>0, <2>2, <2>5, GivingUp DEF CollectionTypeOK, Receive
      <3> QED BY <2>0, <2>2, <2>5, <3>1 DEF CollectionTypeOK, Receive
    <2> QED BY <2>1, <2>3, <2>4, <2>5
  <1> QED BY <1>1, CollectionInitInv, CollectionStepInv, PTL DEF CollectionSpec, ReceivedStays
=============================================================================
