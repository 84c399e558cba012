----------------------------- MODULE Idempotency -----------------------------
(***************************************************************************)
(* Retry-safe requests: internal/service/idempotency.go over               *)
(* repository/postgresql/idempotency.go.                                   *)
(*                                                                         *)
(*   claim                     committed on its own                        *)
(*   WithTx( work; complete )  the response commits with the work          *)
(*   release on failure        so that a retry runs the work again         *)
(*                                                                         *)
(* A caller repeats a request under its key whenever it got no answer.  A  *)
(* process may die anywhere, and a sweeper drops the keys that expired.    *)
(***************************************************************************)
EXTENDS Naturals

CONSTANTS
    Requests,    \* calls of the API; each is sent again and again
    Keys,        \* idempotency keys, within one scope
    KeyOf,       \* the key each request carries
    Fingerprint  \* what each request asks for

NoAnswer == "no answer"

ASSUME IdempotencyAssumption ==
    /\ KeyOf \in [Requests -> Keys]
    /\ \A r \in Requests : Fingerprint[r] # NoAnswer

VARIABLES
    rows,   \* idempotency_keys
    at,     \* where each request is
    answer, \* what the answer each request got last was computed for
    worked, \* how often work was committed under a key since its last sweep
    slow    \* whether, in this history, requests may outlive their keys

idemVars == <<rows, at, answer, worked>>
allIdemVars == <<rows, at, answer, worked, slow>>

\* A response is known by the request it was computed for: usually, but not
\* by construction, the request whose fingerprint the row carries.
NoRow == [status |-> "absent"]
Row == [status : {"in_progress", "completed"}, expired : BOOLEAN,
        fingerprint : {Fingerprint[r] : r \in Requests},
        response : {Fingerprint[r] : r \in Requests} \cup {NoAnswer}]

IdemTypeOK ==
    /\ rows \in [Keys -> Row \cup {NoRow}]
    /\ at \in [Requests -> {"idle", "reading", "working", "finishing", "releasing"}]
    /\ answer \in [Requests -> {Fingerprint[r] : r \in Requests} \cup {NoAnswer}]
    /\ worked \in [Keys -> Nat]
    /\ slow \in BOOLEAN

\* The transaction of a request that is finishing has updated its key's row,
\* and keeps it locked.
Locked(k) == \E r \in Requests : KeyOf[r] = k /\ at[r] = "finishing"

-----------------------------------------------------------------------------
\* ClaimIdempotencyKey inserts the row, or finds one there.
Claim(r) ==
    LET k == KeyOf[r]
    IN  /\ at[r] = "idle"
        /\ IF rows[k] = NoRow
           THEN /\ rows' = [rows EXCEPT ![k] =
                              [status |-> "in_progress", expired |-> FALSE,
                               fingerprint |-> Fingerprint[r], response |-> NoAnswer]]
                /\ at' = [at EXCEPT ![r] = "working"]
           ELSE at' = [at EXCEPT ![r] = "reading"] /\ UNCHANGED rows
        /\ UNCHANGED <<answer, worked>>

\* Mutant: whatever the recorded request asked for.
ReplayAny(r) ==
    LET row == rows[KeyOf[r]]
    IN  /\ at[r] = "reading"
        /\ at' = [at EXCEPT ![r] = "idle"]
        /\ answer' = IF row # NoRow /\ row.status = "completed"
                     THEN [answer EXCEPT ![r] = row.response] ELSE answer
        /\ UNCHANGED <<rows, worked>>

\* It then loads the row in a second statement, and replay answers from it.
\* A row that is gone by now, that is in progress, or that is another
\* request's refuses this one.
Replay(r) ==
    LET row == rows[KeyOf[r]]
    IN  /\ at[r] = "reading"
        /\ at' = [at EXCEPT ![r] = "idle"]
        /\ answer' = IF row # NoRow /\ row.fingerprint = Fingerprint[r] /\ row.status = "completed"
                     THEN [answer EXCEPT ![r] = row.response] ELSE answer
        /\ UNCHANGED <<rows, worked>>

\* Mutant: without "AND status = 'in_progress'".
CompleteAny(r) ==
    /\ at[r] = "working" /\ ~ Locked(KeyOf[r])
    /\ at' = [at EXCEPT ![r] = IF rows[KeyOf[r]] = NoRow THEN "releasing" ELSE "finishing"]
    /\ UNCHANGED <<rows, answer, worked>>

\* The work is done, and CompleteIdempotencyKey updates the row if it is in
\* progress; otherwise, as when the work itself fails, all is rolled back.
Complete(r) ==
    LET k == KeyOf[r]
    IN  /\ at[r] = "working" /\ ~ Locked(k)
        /\ at' = [at EXCEPT ![r] = IF rows[k].status = "in_progress" THEN "finishing" ELSE "releasing"]
        /\ UNCHANGED <<rows, answer, worked>>

WorkFails(r) ==
    /\ at[r] \in {"working", "finishing"}
    /\ at' = [at EXCEPT ![r] = "releasing"]
    /\ UNCHANGED <<rows, answer, worked>>

\* The work and its response commit; the caller hears of it, or the commit is
\* reported as failed and the key released.
Commit(r) ==
    LET k == KeyOf[r]
    IN  /\ at[r] = "finishing"
        /\ rows' = [rows EXCEPT ![k].status = "completed", ![k].response = Fingerprint[r]]
        /\ worked' = [worked EXCEPT ![k] = @ + 1]
        /\ \/ /\ answer' = [answer EXCEPT ![r] = Fingerprint[r]]
              /\ at' = [at EXCEPT ![r] = "idle"]
           \/ /\ at' = [at EXCEPT ![r] = "releasing"]
              /\ UNCHANGED answer

\* ReleaseIdempotencyKey deletes the row if it is still in progress.
Release(r) ==
    LET k == KeyOf[r]
    IN  /\ at[r] = "releasing" /\ ~ Locked(k)
        /\ at' = [at EXCEPT ![r] = "idle"]
        /\ rows' = IF rows[k].status = "in_progress" THEN [rows EXCEPT ![k] = NoRow] ELSE rows
        /\ UNCHANGED <<answer, worked>>

\* The process dies, or the release fails: its transaction is rolled back and
\* the claim stays.
Crash(r) ==
    /\ at[r] # "idle"
    /\ at' = [at EXCEPT ![r] = "idle"]
    /\ UNCHANGED <<rows, answer, worked>>

\* expires_at passes, 24 hours after the claim.
Expire(k) ==
    /\ rows[k] # NoRow /\ ~ rows[k].expired
    /\ slow \/ \A r \in Requests : KeyOf[r] = k => at[r] \in {"idle", "reading"}
    /\ rows' = [rows EXCEPT ![k].expired = TRUE]
    /\ UNCHANGED <<at, answer, worked>>

\* Mutant: completed keys only.
SweepCompleted(k) ==
    /\ rows[k].status = "completed" /\ rows[k].expired /\ ~ Locked(k)
    /\ rows' = [rows EXCEPT ![k] = NoRow]
    /\ worked' = [worked EXCEPT ![k] = 0]
    /\ UNCHANGED <<at, answer>>

\* DeleteExpiredIdempotencyKeys, completed or not.
Sweep(k) ==
    /\ rows[k] # NoRow /\ rows[k].expired /\ ~ Locked(k)
    /\ rows' = [rows EXCEPT ![k] = NoRow]
    /\ worked' = [worked EXCEPT ![k] = 0]
    /\ UNCHANGED <<at, answer>>

-----------------------------------------------------------------------------
IdemInit ==
    /\ rows = [k \in Keys |-> NoRow]
    /\ at = [r \in Requests |-> "idle"]
    /\ answer = [r \in Requests |-> NoAnswer]
    /\ worked = [k \in Keys |-> 0]
    /\ slow \in BOOLEAN

IdemNext ==
    /\ UNCHANGED slow
    /\ \/ \E r \in Requests : \/ Claim(r) \/ Replay(r) \/ Complete(r) \/ WorkFails(r)
                              \/ Commit(r) \/ Release(r) \/ Crash(r)
       \/ \E k \in Keys : Expire(k) \/ Sweep(k)

IdemSpec == IdemInit /\ [][IdemNext]_allIdemVars

\* Requests end one way or another, keys expire, and the sweeper runs.
FairIdemSpec ==
    /\ IdemSpec
    /\ \A r \in Requests : WF_idemVars(at[r] # "idle" /\ (Replay(r) \/ Complete(r) \/ WorkFails(r)
                                                          \/ Commit(r) \/ Release(r) \/ Crash(r)))
    /\ \A k \in Keys : SF_idemVars(Expire(k)) /\ SF_idemVars(Sweep(k))

-----------------------------------------------------------------------------
\* "A recorded response always implies the work committed"
\* (CompleteIdempotencyKey), and work that committed is recorded until its key
\* is swept: while a key is kept, its work is done once, however requests are
\* retried, fail, die or overlap with a claim that expired under them.
RecordedIffDone ==
    \A k \in Keys : worked[k] = IF rows[k].status = "completed" THEN 1 ELSE 0

\* Nobody is answered for what somebody else asked under the same key
\* (replay), in a history where no request outlives its key.
AnswersFit ==
    slow \/ \A r \in Requests : answer[r] \in {Fingerprint[r], NoAnswer}

\* A key whose request died is freed again (DeleteExpiredIdempotencyKeys).
ClaimsEnd ==
    \A k \in Keys : rows[k].status = "in_progress" ~> rows[k].status # "in_progress"
=============================================================================
