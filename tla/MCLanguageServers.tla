-------------------------- MODULE MCLanguageServers --------------------------
(***************************************************************************)
(* Model values for the pool of language servers: two languages over a     *)
(* pool of one, so that every second session needs an eviction, and two    *)
(* callers.                                                                *)
(***************************************************************************)
EXTENDS LanguageServers

CONSTANTS k1, k2, c1, c2
=============================================================================
