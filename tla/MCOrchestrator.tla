--------------------------- MODULE MCOrchestrator ---------------------------
(***************************************************************************)
(* Model values for the orchestrator: a step b with a dependency a, a step *)
(* c beside them, and an id d that only a revised plan may bring in; one   *)
(* retry, one replan, two leases and two sessions.                         *)
(***************************************************************************)
EXTENDS Orchestrator, TLC

CONSTANTS a, b, c, d

MCSteps == {a, b, c, d}
MCInitialSteps == {a, b, c}
MCInitialDeps == a :> {} @@ b :> {a} @@ c :> {} @@ d :> {}
MCUndoable == {a, b}
=============================================================================
