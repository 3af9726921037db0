---------------------------- MODULE MCEvolution ----------------------------
(***************************************************************************)
(* Model values for the self-development loop: two experiments, the second *)
(* of which mutates the candidate of the first, and two switches of the    *)
(* runtime under way at a time.                                            *)
(***************************************************************************)
EXTENDS Evolution, TLC

CONSTANTS e1, e2, Base0, t1, t2

MCParentOf == e1 :> Base0 @@ e2 :> e1
=============================================================================
