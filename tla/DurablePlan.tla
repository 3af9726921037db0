---------------------------- MODULE DurablePlan ----------------------------
(***************************************************************************)
(* What a checkpoint promises: one plan, whatever becomes of the processes *)
(* that run it.  Each step is completed after everything it depends on,    *)
(* and only a planner, by revising a completed step, takes that back.      *)
(* Crashes, aborts, retries and resumes are not seen here: none of them    *)
(* changes what is done.                                                   *)
(***************************************************************************)
CONSTANTS
    Steps,      \* the steps
    Ids         \* what a step may depend on

VARIABLES
    done,       \* the completed steps
    needs,      \* needs[s]: what step s depends on
    revoked,    \* the steps that were done when they were revised
    open        \* the plan can still go on, in this process or a later one

vars == <<done, needs, revoked, open>>

Init ==
    /\ done = {}
    /\ needs \in [Steps -> SUBSET Ids]
    /\ revoked = {}
    /\ open = TRUE

Complete(s) ==
    /\ open
    /\ s \notin done
    /\ needs[s] \subseteq done
    /\ done' = done \cup {s}
    /\ UNCHANGED <<needs, revoked, open>>

\* A planner puts the steps of R in the plan, whether they were there or not.
Revise(R) ==
    /\ open
    /\ needs' \in [Steps -> SUBSET Ids]
    /\ \A s \in Steps \ R : needs'[s] = needs[s]
    /\ done' = done \ R
    /\ revoked' = revoked \cup (done \cap R)
    /\ UNCHANGED open

\* The plan is finished or given up, for good.
Close ==
    /\ open
    /\ open' = FALSE
    /\ UNCHANGED <<done, needs, revoked>>

Next ==
    \/ \E s \in Steps : Complete(s)
    \/ \E R \in SUBSET Steps : Revise(R)
    \/ Close

Spec == Init /\ [][Next]_vars

-----------------------------------------------------------------------------
\* Whatever is done rests on what is done, or on what a revision took back.
Founded == \A s \in done : needs[s] \subseteq done \cup revoked
=============================================================================
