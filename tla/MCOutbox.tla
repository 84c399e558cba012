------------------------------ MODULE MCOutbox -------------------------------
(* Events drained two at a time by two drainers.                            *)
EXTENDS Outbox

CONSTANTS d1, d2
=============================================================================
