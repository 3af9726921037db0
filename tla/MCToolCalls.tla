---------------------------- MODULE MCToolCalls ----------------------------
(***************************************************************************)
(* Model values for the tool calls: three calls of one required key and    *)
(* one of another, on a tool with a single lease and one place in its      *)
(* queue; the process may end once.                                        *)
(***************************************************************************)
EXTENDS ToolCalls, TLC

CONSTANTS c1, c2, c3, c4, k1, k2, t1

MCCalls == {c1, c2, c3, c4}
MCKeyOf == c1 :> k1 @@ c2 :> k1 @@ c3 :> k1 @@ c4 :> k2
MCToolOf == k1 :> t1 @@ k2 :> t1
=============================================================================
