----------------------------- MODULE Scheduler -----------------------------
(***************************************************************************)
(* src/core/tasks/task-graph.ts and scheduler.ts: a graph of task nodes    *)
(* and the Scheduler that drains it, as GraphStrategy uses them.           *)
(*                                                                         *)
(* drain() is a loop and a set of workers on one JavaScript thread.  A     *)
(* worker runs the executor for the node it claimed, applies the outcome   *)
(* and releases its locks in one synchronous block, and in a later         *)
(* callback leaves the worker list and calls launch().  launch() claims    *)
(* node after node; nothing else runs until it ends, so a step of it is    *)
(* an action and Busy keeps the others out.  The locks are the tables of   *)
(* ResourceLocks; only tryAcquire is used, so nobody queues for them.      *)
(***************************************************************************)
EXTENDS Integers, FiniteSets

CONSTANTS
    Nodes,          \* the nodes of the graph
    Resources,      \* the resource names nodes may declare
    MaxParallel,    \* maxParallel
    AddedAt,        \* AddedAt[n]: the order in which nodes were added
    Plans           \* the graphs that may be drained, see PlanType

PlanType ==
    [ dependencies : [Nodes -> SUBSET Nodes],    \* not checked for cycles by drain
      critical : SUBSET Nodes,                   \* nodes of priority "critical"
      resourceLocks : [Nodes -> SUBSET Resources],
      exclusive : SUBSET Nodes,
      maxRetries : [Nodes -> Nat],
      deadline : SUBSET Nodes ]                  \* nodes with a deadlineMs

ASSUME SchedulerAssumption ==
    /\ IsFiniteSet(Nodes)
    /\ MaxParallel \in Nat \ {0}
    /\ AddedAt \in [Nodes -> Nat]
    /\ \A m, n \in Nodes : AddedAt[m] = AddedAt[n] => m = n
    /\ Plans \subseteq PlanType

VARIABLES
    plan,       \* the graph being drained
    status,     \* status[n], a GraphNodeStatus
    attempt,    \* attempt[n], how often n was started
    holders,    \* the lock registry's tables
    heldBy,
    worker,     \* worker[n]: "none", "running" its executor, "settled" or
                \* "threw" when it is done and still in the worker list
    inFlight,   \* the scheduler's own count of claims
    launching,  \* a worker's callback is inside launch()
    loop,       \* where drain's loop is: "launch", "check", "await", or it has
                \* "returned" or "rejected"
    aborted,    \* the signal
    expired     \* the nodes whose deadline has passed

registry == <<holders, heldBy>>
vars == <<plan, status, attempt, holders, heldBy, worker, inFlight, launching,
          loop, aborted, expired>>

Locks == INSTANCE ResourceLocks
           WITH Calls <- Nodes, waiters <- <<>>, served <- {}

Statuses == {"pending", "ready", "running", "blocked",
             "completed", "failed", "cancelled", "skipped"}
Terminal == {"completed", "failed", "skipped", "cancelled"}

-----------------------------------------------------------------------------
(* TaskGraph *)

TRANSITIONS ==
    [ pending   |-> {"ready", "failed", "blocked", "cancelled", "skipped"},
      ready     |-> {"running", "failed", "blocked", "cancelled", "skipped"},
      running   |-> {"completed", "failed", "blocked", "cancelled"},
      blocked   |-> {"ready", "pending", "cancelled", "skipped"},
      failed    |-> {"ready", "pending", "cancelled", "skipped"},
      completed |-> {},
      cancelled |-> {},
      skipped   |-> {} ]

\* Mutant: the table is not consulted.
Moved_Unchecked(st, n, to) == [st EXCEPT ![n] = to]

\* transition(): an illegal transition is ignored.
Moved(st, n, to) ==
    IF to \in TRANSITIONS[st[n]] THEN [st EXCEPT ![n] = to] ELSE st

\* Mutant: a dependency that ended in any way will do.
DepsSatisfied_AnyEnd(st, n) == \A d \in plan.dependencies[n] : st[d] \in Terminal

DepsSatisfied(st, n) == \A d \in plan.dependencies[n] : st[d] = "completed"

ReadyNodes(st) == {n \in Nodes : st[n] = "pending" /\ DepsSatisfied(st, n)}

RunningNodes(st) == {n \in Nodes : st[n] = "running"}

\* Mutant: only the skipped nodes are kept.
CascadeSkip_DropsRest(st, n) ==
    LET skipped == {m \in Nodes : st[m] = "pending" /\ n \in plan.dependencies[m]}
    IN  [m \in skipped |-> "skipped"]

\* cascadeSkip(): from n along dependents, through the nodes it skips.
CascadeSkip(st, n) ==
    LET open == {m \in Nodes : st[m] \in {"pending", "ready", "blocked"}}
        Closed(S) == \A m \in open : plan.dependencies[m] \cap (S \cup {n}) # {} => m \in S
        skipped == {m \in open : \A S \in SUBSET open : Closed(S) => m \in S}
    IN  [m \in Nodes |-> IF m \in skipped THEN "skipped" ELSE st[m]]

-----------------------------------------------------------------------------
(* Scheduler *)

AllKnownResources == UNION {plan.resourceLocks[n] : n \in Nodes}

\* Mutant: an exclusive candidate does not wait for the others.
Isolated_Forgotten(n) == TRUE

\* An exclusive candidate needs an empty graph.
Isolated(n) == n \in plan.exclusive => RunningNodes(status) = {}

Wanted(n) == IF n \in plan.exclusive THEN AllKnownResources ELSE plan.resourceLocks[n]

\* failExpiredNodes(), which every claim runs first.
Swept == [n \in Nodes |->
             IF n \in expired /\ status[n] \in {"pending", "ready"} THEN "failed" ELSE status[n]]

Claimable ==
    {n \in ReadyNodes(Swept) : Isolated(n) /\ Locks!FreeSet(holders, Wanted(n))}

\* Critical first, then first added.
Precedes(m, n) ==
    \/ m \in plan.critical /\ n \notin plan.critical
    \/ (m \in plan.critical <=> n \in plan.critical) /\ AddedAt[m] < AddedAt[n]

\* Mutant: nodes that started are left alone.
Cancelled_WaitingOnly == [n \in Nodes |->
                             IF status[n] \in {"pending", "ready"} THEN "cancelled" ELSE status[n]]

\* cancelPending()
Cancelled == [n \in Nodes |->
                 IF status[n] \in {"pending", "ready", "blocked", "running"}
                 THEN Moved(status, n, "cancelled")[n] ELSE status[n]]

\* Mutant: the loop looks at its workers only.
HasRunnableWork_Never == FALSE

HasRunnableWork == ~aborted /\ ReadyNodes(status) # {}

Workers == {n \in Nodes : worker[n] # "none"}
Executing == {n \in Nodes : worker[n] = "running"}

InLaunch == launching \/ loop = "launch"
Busy == InLaunch \/ loop = "check"

-----------------------------------------------------------------------------
Init ==
    /\ plan \in Plans
    /\ status = [n \in Nodes |-> "pending"]
    /\ attempt = [n \in Nodes |-> 0]
    /\ holders = [r \in Resources |-> {}]
    /\ heldBy = [n \in Nodes |-> {}]
    /\ worker = [n \in Nodes |-> "none"]
    /\ inFlight = 0
    /\ launching = FALSE
    /\ loop = "launch"
    /\ aborted = FALSE
    /\ expired = {}

\* launch() may go on, and claimNext() gets past its early returns.
MayClaim ==
    /\ InLaunch
    /\ Cardinality(Workers) < MaxParallel
    /\ ~aborted
    /\ inFlight < MaxParallel
    /\ RunningNodes(status) \cap plan.exclusive = {}

\* claimNext() returns a node and launch() starts its worker.
Claim(n) ==
    /\ MayClaim
    /\ n \in Claimable
    /\ \A m \in Claimable \ {n} : Precedes(n, m)
    /\ Locks!TryAcquire(n, Wanted(n))
    /\ status' = [Swept EXCEPT ![n] = "running"]
    /\ attempt' = [attempt EXCEPT ![n] = @ + 1]
    /\ inFlight' = inFlight + 1
    /\ worker' = [worker EXCEPT ![n] = "running"]
    /\ UNCHANGED <<plan, launching, loop, aborted, expired>>

LaunchEnds ==
    /\ InLaunch
    /\ launching' = FALSE
    /\ loop' = IF loop = "launch" THEN "check" ELSE loop
    /\ UNCHANGED <<plan, attempt, registry, worker, inFlight, aborted, expired>>

\* launch() stops because every worker slot is taken; claimNext is not called.
LaunchFull ==
    /\ Cardinality(Workers) >= MaxParallel
    /\ LaunchEnds
    /\ UNCHANGED status

\* claimNext() finds the signal aborted.
LaunchAborted ==
    /\ Cardinality(Workers) < MaxParallel
    /\ aborted
    /\ LaunchEnds
    /\ status' = Cancelled

\* claimNext() returns null: the parallel limit, an exclusive node in flight,
\* or nothing that can start.
LaunchIdle ==
    /\ Cardinality(Workers) < MaxParallel
    /\ ~aborted
    /\ MayClaim => Claimable = {}
    /\ LaunchEnds
    /\ status' = IF inFlight < MaxParallel THEN Swept ELSE status

\* Mutant: the slot is given back, the locks are not.
FinishClaim_SlotOnly(n) ==
    /\ inFlight' = IF inFlight > 0 THEN inFlight - 1 ELSE 0
    /\ UNCHANGED registry

\* finishClaim(): the claim's release.
FinishClaim(n) ==
    /\ inFlight' = IF inFlight > 0 THEN inFlight - 1 ELSE 0
    /\ holders' = Locks!Returned(holders, n, heldBy[n])
    /\ heldBy' = [heldBy EXCEPT ![n] = {}]

\* Mutant: dependents are skipped although a retry is left.
Failed_AlwaysCascades(n) ==
    LET st == CascadeSkip(Moved(status, n, "failed"), n)
    IN  IF attempt[n] <= plan.maxRetries[n] THEN Moved(st, n, "ready") ELSE st

\* complete() with outcome "failure".
Failed(n) ==
    LET st == Moved(status, n, "failed")
    IN  IF attempt[n] <= plan.maxRetries[n] THEN Moved(st, n, "ready") ELSE CascadeSkip(st, n)

\* The executor of n ends; complete() and the release run in one block.
Finish(n, st) ==
    /\ ~Busy
    /\ worker[n] = "running"
    /\ status' = st
    /\ FinishClaim(n)
    /\ worker' = [worker EXCEPT ![n] = "settled"]
    /\ UNCHANGED <<plan, attempt, launching, loop, aborted, expired>>

Succeed(n) == Finish(n, Moved(status, n, "completed"))
Fail(n) == Finish(n, Failed(n))
Block(n) == Finish(n, Moved(status, n, "blocked"))

\* The executor throws (no parallel slot left in the budget, say): the release
\* runs, complete() does not.
Throw(n) ==
    /\ ~Busy
    /\ worker[n] = "running"
    /\ FinishClaim(n)
    /\ worker' = [worker EXCEPT ![n] = "threw"]
    /\ UNCHANGED <<plan, status, attempt, launching, loop, aborted, expired>>

\* The worker's callback: it leaves the list and launches.  drain() rejects
\* with the worker if it was already awaiting it.
Settle(n) ==
    /\ ~Busy
    /\ worker[n] \in {"settled", "threw"}
    /\ worker' = [worker EXCEPT ![n] = "none"]
    /\ launching' = TRUE
    /\ loop' \in IF worker[n] = "threw" /\ loop = "await" THEN {"await", "rejected"} ELSE {loop}
    /\ UNCHANGED <<plan, status, attempt, registry, inFlight, aborted, expired>>

\* drain's loop wakes up, after 10 ms or when all workers are done.
Wake ==
    /\ ~Busy
    /\ loop = "await"
    /\ loop' = "launch"
    /\ UNCHANGED <<plan, status, attempt, registry, worker, inFlight, launching, aborted, expired>>

\* The loop's condition, after each launch.
CheckWait ==
    /\ loop = "check"
    /\ Workers # {}
    /\ loop' = "await"
    /\ UNCHANGED <<plan, status, attempt, registry, worker, inFlight, launching, aborted, expired>>

\* Mutant: the loop leaves the stuck nodes as they are.
Stuck_Kept == {}

\* What the loop marks blocked when nothing runs and nothing can be claimed.
Stuck == {n \in Nodes : status[n] \in {"pending", "ready"}}

\* No worker, and work that cannot be claimed: drain ends unless some is left.
CheckStuck ==
    /\ loop = "check"
    /\ Workers = {}
    /\ HasRunnableWork
    /\ status' = [n \in Nodes |-> IF n \in Stuck THEN "blocked" ELSE status[n]]
    /\ loop' = IF ReadyNodes(status') = {} THEN "returned" ELSE "await"
    /\ UNCHANGED <<plan, attempt, registry, worker, inFlight, launching, aborted, expired>>

CheckDone ==
    /\ loop = "check"
    /\ Workers = {}
    /\ ~HasRunnableWork
    /\ loop' = "returned"
    /\ UNCHANGED <<plan, status, attempt, registry, worker, inFlight, launching, aborted, expired>>

\* The operator cancels the run.
Abort ==
    /\ ~Busy
    /\ ~aborted
    /\ loop # "returned"
    /\ aborted' = TRUE
    /\ UNCHANGED <<plan, status, attempt, registry, worker, inFlight, launching, loop, expired>>

\* The clock passes the deadline of n.
Expire(n) ==
    /\ n \in plan.deadline \ expired
    /\ loop # "returned"
    /\ expired' = expired \cup {n}
    /\ UNCHANGED <<plan, status, attempt, registry, worker, inFlight, launching, loop, aborted>>

Next ==
    \/ \E n \in Nodes :
           \/ Claim(n)
           \/ Succeed(n)
           \/ Fail(n)
           \/ Block(n)
           \/ Throw(n)
           \/ Settle(n)
           \/ Expire(n)
    \/ LaunchFull
    \/ LaunchAborted
    \/ LaunchIdle
    \/ Wake
    \/ CheckWait
    \/ CheckStuck
    \/ CheckDone
    \/ Abort

\* A launch and a check run to their end; the timer fires; the callback of a
\* settled worker runs.  Executors end: they are model runs with a turn limit
\* and timeouts.  The last two are disabled for the length of each launch, so
\* they need strong fairness.
Fairness ==
    /\ WF_vars(LaunchFull \/ LaunchAborted \/ LaunchIdle \/ \E n \in Nodes : Claim(n))
    /\ WF_vars(CheckWait \/ CheckStuck \/ CheckDone)
    /\ WF_vars(Wake)
    /\ \A n \in Nodes :
           /\ SF_vars(Succeed(n) \/ Fail(n) \/ Block(n) \/ Throw(n))
           /\ SF_vars(Settle(n))

Spec == Init /\ [][Next]_vars /\ Fairness

-----------------------------------------------------------------------------
TypeOK ==
    /\ plan \in Plans
    /\ status \in [Nodes -> Statuses]
    /\ attempt \in [Nodes -> Nat]
    /\ holders \in [Resources -> SUBSET Nodes]
    /\ heldBy \in [Nodes -> SUBSET Resources]
    /\ worker \in [Nodes -> {"none", "running", "settled", "threw"}]
    /\ inFlight \in Nat
    /\ launching \in BOOLEAN
    /\ loop \in {"launch", "check", "await", "returned", "rejected"}
    /\ aborted \in BOOLEAN
    /\ expired \subseteq Nodes

\* What runs together may run together: two nodes whose executors are running
\* share no resource, and an exclusive node runs alone, also after an abort
\* has cancelled nodes that still execute and after executors threw.
SafeOverlap ==
    \A m, n \in Executing :
        m # n => /\ plan.resourceLocks[m] \cap plan.resourceLocks[n] = {}
                 /\ m \notin plan.exclusive

\* A node runs only on completed dependencies, and they stay completed.
DependenciesFirst ==
    \A n \in Executing : \A d \in plan.dependencies[n] : status[d] = "completed"

\* The scheduler's own count is the number of executors that run; it is within
\* the limit, and only they hold locks: no ending leaks a slot or a lock.
CapacityExact ==
    /\ inFlight = Cardinality(Executing)
    /\ inFlight <= MaxParallel
    /\ \A n \in Nodes : heldBy[n] # {} => n \in Executing

\* A node is skipped only because of a dependency that failed or was skipped.
SkippedForCause ==
    \A n \in Nodes : status[n] = "skipped" =>
        \E d \in plan.dependencies[n] : status[d] \in {"failed", "skipped"}

\* A late outcome changes nothing that is final: a completed, cancelled or
\* skipped node keeps its status, whatever its executor reports afterwards.
FinalStays ==
    [][\A n \in Nodes : status[n] \in {"completed", "cancelled", "skipped"}
           => status'[n] = status[n]]_vars

\* drain returns when there is nothing left to run: no executor, no lock, and
\* no pending node whose dependencies are all completed.
ReturnsWhenIdle ==
    loop = "returned" => /\ Workers = {}
                         /\ \A r \in Resources : holders[r] = {}
                         /\ aborted \/ ReadyNodes(status) = {}

\* An abort before drain returns leaves no node open: by the time it returns
\* every node has a final status, running and stuck ones included.
AbortClosesGraph ==
    loop = "returned" /\ aborted => \A n \in Nodes : status[n] \in Terminal

\* drain ends, whatever fails, throws, expires or is cancelled, and also on a
\* graph with a dependency cycle.
DrainEnds == <>(loop \in {"returned", "rejected"})

\* "retries        failed nodes with retry budget re-enter the ready set
\*  (with capped attempts)": a drained graph has no retry left over.
RetriesTaken ==
    loop = "returned" => \A n \in Nodes : status[n] # "ready"
=============================================================================
