-------------------------- MODULE MCResourceLocks --------------------------
(***************************************************************************)
(* Model values for the lock registry: four calls over two resources, so   *)
(* that sets overlap, both lanes hold waiters, a release can find two       *)
(* waiters with disjoint free sets, and a free resource can be taken past  *)
(* a waiter.                                                               *)
(***************************************************************************)
EXTENDS ResourceLocks

CONSTANTS c1, c2, c3, c4, ra, rb
MCCalls == {c1, c2, c3, c4}
MCResources == {ra, rb}
=============================================================================
