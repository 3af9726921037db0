----------------------------- MODULE LeasePool -----------------------------
(***************************************************************************)
(* What a concurrency gate promises to its callers, with no queues in it:  *)
(* at most Limit leases are out at a time, a lease is only refused while   *)
(* all of them are out, a returned lease goes straight to somebody who is  *)
(* waiting, and nobody waits for ever while leases keep being returned.    *)
(* ConcurrencyGate is shown to implement this module.                      *)
(***************************************************************************)
EXTENDS Integers, FiniteSets

CONSTANTS
    Callers,    \* whoever asks for a lease
    Limit       \* leases that may be out at the same time

VARIABLES
    holding,    \* the callers that hold a lease
    waiting     \* the callers that asked and were not served yet

vars == <<holding, waiting>>

Init == holding = {} /\ waiting = {}

Idle(c) == c \notin holding \cup waiting

\* A caller is served at once.  Nobody may be waiting: a free lease is never
\* taken past a caller that waits.
Take(c) ==
    /\ Idle(c)
    /\ waiting = {}
    /\ Cardinality(holding) < Limit
    /\ holding' = holding \cup {c}
    /\ UNCHANGED waiting

\* A caller starts to wait, which it does only when every lease is out.
Wait(c) ==
    /\ Idle(c)
    /\ Cardinality(holding) = Limit
    /\ waiting' = waiting \cup {c}
    /\ UNCHANGED holding

\* A waiting caller is cancelled.
GiveUp(c) ==
    /\ c \in waiting
    /\ waiting' = waiting \ {c}
    /\ UNCHANGED holding

\* A lease is returned and passes to a waiting caller in the same step.
HandOver(c, d) ==
    /\ c \in holding
    /\ d \in waiting
    /\ holding' = (holding \ {c}) \cup {d}
    /\ waiting' = waiting \ {d}

\* A lease is returned while nobody waits.
Return(c) ==
    /\ c \in holding
    /\ waiting = {}
    /\ holding' = holding \ {c}
    /\ UNCHANGED waiting

Next ==
    \E c \in Callers :
        \/ Take(c)
        \/ Wait(c)
        \/ GiveUp(c)
        \/ Return(c)
        \/ \E d \in Callers : HandOver(c, d)

\* Every caller that keeps waiting is served.
Service == \A d \in Callers : WF_vars(\E c \in Callers : HandOver(c, d))

Spec == Init /\ [][Next]_vars /\ Service
=============================================================================
