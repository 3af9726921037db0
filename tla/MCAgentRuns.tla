---------------------------- MODULE MCAgentRuns ----------------------------
(***************************************************************************)
(* Model values for agent runs: four runs of one agent with two leases, at *)
(* most two of them a user's, so that two parents can hold every lease     *)
(* their children wait for, with two tool calls for a user's run.          *)
(***************************************************************************)
EXTENDS AgentRuns, TLC

CONSTANTS A
=============================================================================
