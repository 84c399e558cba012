--------------------------- MODULE MCIdempotency ----------------------------
(* A request and its duplicate, and a third that reuses their key to ask    *)
(* for something else.                                                      *)
EXTENDS Idempotency

CONSTANTS r1, r2, r3, k1

MCKeyOf == [r \in Requests |-> k1]
MCFingerprint == [r \in Requests |-> IF r = r3 THEN "grant" ELSE "transfer"]
=============================================================================
