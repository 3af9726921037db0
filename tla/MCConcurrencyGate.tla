------------------------- MODULE MCConcurrencyGate -------------------------
(***************************************************************************)
(* Model values for the gate.  Six callers on two leases with room for     *)
(* three waiters: both lanes fill, a full queue refuses, and after two     *)
(* critical dispatches in a row (10 in the code) the normal lane is due.   *)
(***************************************************************************)
EXTENDS ConcurrencyGate

CONSTANTS c1, c2, c3, c4, c5, c6
MCCallers == {c1, c2, c3, c4, c5, c6}
=============================================================================
