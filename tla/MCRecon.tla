------------------------------ MODULE MCRecon -------------------------------
(***************************************************************************)
(* A payment of 3, and a refund of 1 of it, in settlements that report     *)
(* them right, twice, at another amount, with a net that does not add up,  *)
(* beside a reference nobody knows, or not at all.                         *)
(***************************************************************************)
EXTENDS Recon

CONSTANTS p1, r1, ghost, w1, w2

MCValue == [x \in Records |-> IF x = r1 THEN -1 ELSE 3]

MCLine(x, gross, fee, net) == [ref |-> x, gross |-> gross, fee |-> fee, net |-> net]

Clean == MCLine(p1, 3, 1, 2)
Back  == MCLine(r1, -1, 0, -1)
Much  == MCLine(p1, 4, 0, 4)
Wrong == MCLine(p1, 3, 1, 3)
Stray == MCLine(ghost, -2, 0, -2)

MCReports == {<<Clean, Clean>>, <<Much>>}
AllReports == {<<>>, <<Clean, Back>>, <<Clean, Clean>>, <<Much>>, <<Wrong>>, <<Stray>>}
=============================================================================
