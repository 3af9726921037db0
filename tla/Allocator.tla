----------------------------- MODULE Allocator -----------------------------
(***************************************************************************)
(* What a lock registry promises: a set of resources is granted as a       *)
(* whole, and only when none of them is held by anybody else.              *)
(***************************************************************************)
CONSTANTS
    Calls,      \* the acquisitions, each granted at most once
    Resources   \* the named resources

VARIABLE
    held        \* held[c]: the resources call c holds

Init == held = [c \in Calls |-> {}]

HeldByOthers(c) == UNION {held[d] : d \in Calls \ {c}}

Grant(c) ==
    \E R \in SUBSET Resources :
        /\ held[c] = {}
        /\ R \cap HeldByOthers(c) = {}
        /\ held' = [held EXCEPT ![c] = R]

Free(c) == held' = [held EXCEPT ![c] = {}]

\* The resources one call gives back are granted to another in the same step.
PassOn(c, d) ==
    \E R \in SUBSET Resources :
        /\ held[d] = {}
        /\ \A e \in Calls \ {c, d} : R \cap held[e] = {}
        /\ held' = [held EXCEPT ![c] = {}, ![d] = R]

Next ==
    \E c \in Calls :
        \/ Grant(c)
        \/ Free(c)
        \/ \E d \in Calls \ {c} : PassOn(c, d)

Spec == Init /\ [][Next]_held

-----------------------------------------------------------------------------
\* No resource is held by two calls.
Exclusive == \A c, d \in Calls : c # d => held[c] \cap held[d] = {}
=============================================================================
