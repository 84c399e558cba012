------------------------------- MODULE Circuit -------------------------------
(***************************************************************************)
(* The circuit breaker around every provider call:                         *)
(* internal/provider/resilient.go.                                         *)
(*                                                                         *)
(* Callers share a count of consecutive failures and the time until which  *)
(* the circuit is open; each holds the mutex only for record and Health,   *)
(* never across a call or a backoff.  Here `open` says that the clock is   *)
(* not yet past openUntil.                                                 *)
(***************************************************************************)
EXTENDS Naturals, FiniteSets

CONSTANTS
    Callers,
    Threshold, \* FailureThreshold: consecutive failures that open the circuit
    Retries    \* how many more times a call is tried

ASSUME CircuitAssumption == Threshold \in Nat \ {0} /\ Retries \in Nat

VARIABLES
    well,     \* whether the provider answers; if not it may or may not
    failures, \* up to Threshold, where it stops counting here
    open,
    stage,    \* where each caller is
    tries,    \* its attempts so far
    late,     \* calls it has made since the circuit last opened, and not closed
    trial     \* the calls let in since the cooldown ended, while none has a result

cirVars == <<well, failures, open, stage, tries, late, trial>>

CirTypeOK ==
    /\ well \in BOOLEAN /\ open \in BOOLEAN
    /\ trial \in [on : BOOLEAN, calls : SUBSET Callers]
    /\ failures \in 0 .. Threshold
    /\ stage \in [Callers -> {"idle", "ready", "calling", "failed", "waiting"}]
    /\ tries \in [Callers -> 0 .. Retries + 1]
    /\ late \in [Callers -> Nat]

NoTrial == [on |-> FALSE, calls |-> {}]

-----------------------------------------------------------------------------
\* do finds the circuit closed; an open one refuses the call at once.
Enter(c) ==
    /\ stage[c] = "idle" /\ ~ open
    /\ stage' = [stage EXCEPT ![c] = "ready"]
    /\ tries' = [tries EXCEPT ![c] = 0]
    /\ trial' = IF trial.on THEN [trial EXCEPT !.calls = @ \cup {c}] ELSE trial
    /\ UNCHANGED <<well, failures, open, late>>

\* The first attempt, or one after a backoff: nothing looks at the circuit.
Call(c) ==
    /\ stage[c] \in {"ready", "waiting"}
    /\ stage' = [stage EXCEPT ![c] = "calling"]
    /\ tries' = [tries EXCEPT ![c] = @ + 1]
    /\ late' = IF open THEN [late EXCEPT ![c] = @ + 1] ELSE late
    /\ UNCHANGED <<well, failures, open, trial>>

Least(m, n) == IF m <= n THEN m ELSE n

\* Mutant: a success falls through to the threshold.
RecordThrough(unavailable) ==
    /\ failures' = IF unavailable THEN Least(failures + 1, Threshold) ELSE failures
    /\ open' = (open \/ failures' = Threshold)

\* record: anything but Unavailable is the provider working.
Record(unavailable) ==
    /\ failures' = IF unavailable THEN Least(failures + 1, Threshold) ELSE 0
    /\ open' = (open \/ failures' = Threshold)

\* An attempt returns, and its result is recorded.
Answer(c, unavailable) ==
    /\ stage[c] = "calling"
    /\ well => ~ unavailable
    /\ Record(unavailable)
    /\ stage' = [stage EXCEPT ![c] = IF unavailable THEN "failed" ELSE "idle"]
    /\ trial' = NoTrial
    /\ UNCHANGED <<well, tries, late>>

\* Mutant: a failed attempt always has another.
RetryForever(c) ==
    /\ stage[c] = "failed"
    /\ stage' = [stage EXCEPT ![c] = "waiting"]
    /\ UNCHANGED <<well, failures, open, tries, late, trial>>

\* A failed attempt is the last one, or finds the circuit open, or backs off.
Retry(c) ==
    /\ stage[c] = "failed"
    /\ stage' = [stage EXCEPT ![c] = IF tries[c] > Retries \/ open THEN "idle" ELSE "waiting"]
    /\ UNCHANGED <<well, failures, open, tries, late, trial>>

\* The caller's context ends during a backoff.
GiveUp(c) ==
    /\ stage[c] = "waiting"
    /\ stage' = [stage EXCEPT ![c] = "idle"]
    /\ UNCHANGED <<well, failures, open, tries, late, trial>>

\* The clock passes openUntil.
Cooldown ==
    /\ open
    /\ open' = FALSE
    /\ late' = [c \in Callers |-> 0]
    /\ trial' = [on |-> TRUE, calls |-> {}]
    /\ UNCHANGED <<well, failures, stage, tries>>

\* The provider has an outage, or recovers from it.
Turns ==
    /\ well' = ~ well
    /\ UNCHANGED <<failures, open, stage, tries, late, trial>>

-----------------------------------------------------------------------------
CirInit ==
    /\ well = TRUE /\ failures = 0 /\ open = FALSE
    /\ stage = [c \in Callers |-> "idle"]
    /\ tries = [c \in Callers |-> 0]
    /\ late = [c \in Callers |-> 0]
    /\ trial = NoTrial

Proceeds(c) == Call(c) \/ (\E u \in BOOLEAN : Answer(c, u)) \/ Retry(c) \/ GiveUp(c)

CirNext ==
    \/ \E c \in Callers : Enter(c) \/ Proceeds(c)
    \/ Cooldown
    \/ Turns

CirSpec == CirInit /\ [][CirNext]_cirVars

\* Every call has a timeout, and time passes.
FairCirSpec == CirSpec /\ WF_cirVars(Cooldown) /\ \A c \in Callers : WF_cirVars(Proceeds(c))

-----------------------------------------------------------------------------
\* An open circuit sheds load: a caller that was past the check when it opened
\* reaches the provider at most once more, whatever it had left to retry
\* ("retrying would only add load", do).
LoadIsShed == \A c \in Callers : late[c] <= 1

\* Once the provider is well for good, the circuit closes and stays closed:
\* no late failure or reset of the count keeps it open (record).
CircuitRecovers == <>[]well => <>[]~ open

\* "Cooldown is how long an open circuit refuses calls before one probe"
\* (ResilienceConfig): one call is let in, and the others wait for its result.
OneProbe == Cardinality(trial.calls) <= 1
=============================================================================
