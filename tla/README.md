# TLA+ models of the Nexum execution kernel

Nexum (devagent-ts) is an agent platform in TypeScript: a kernel that runs
agents, models and tools, a control plane that runs plans, and products (a
coding agent, a trading agent, a terminal UI) mounted on top. Everything runs
on one JavaScript thread, and what makes it hard is what happens between two
awaits: queues handed on in callbacks, polls beside completions, timeouts
beside late answers, aborts and crashes between two saves. This directory
models the parts that decide who runs when, and what survives: the concurrency
gate, the resource locks, the task-graph scheduler, the plan orchestrator with
its checkpoint, the tool gateway with its idempotency keys, agent runs that
delegate, the self-development loop, and the language servers. Source paths below are relative to `src/src/`.

## The system's parts

| part | state it keeps | operations | what is hard | what makes it correct |
|---|---|---|---|---|
| Concurrency gate, `core/concurrency/gate.ts` | count of leases, two FIFO lanes, burst counter | acquire, abort of a waiter, release with dispatch | hand-over in closures, aborts in the queue, starvation | the count is exact; no slot idle beside a queue; bounded overtaking |
| Resource locks, `core/concurrency/resource-locks.ts` | holders by resource, resources by holder, waiters | acquire, tryAcquire, timeout, release with pump | one grant per pump, timeouts, two tables | exclusive all-or-nothing grants; a queue always has a release to come |
| Task graph and scheduler, `core/tasks/` | node statuses and attempts, claims in flight, locks, workers | drain, claim, complete, cascade, cancel, deadline sweep | callbacks beside a polling loop, executors that throw, abort of running nodes | no forbidden overlap, no leak, final statuses final, drain ends |
| Orchestrator, checkpoint, resume: `orchestration/orchestrator.ts`, `runtime/checkpoint.ts`, `cli/services/execution-manager.ts` | the plan, retry and replan counts, order of completion; the checkpoint file | run, replan, rollback, abort, resume | crash between steps, abort while queued, replans that change the plan | nothing lost by a crash, nothing done twice unless a revision asks for it, dependencies first, sessions end |
| Tool gateway, idempotency: `tools/gateway/`, `tools/idempotency.ts` | gates by tool, entries by key, the file | invoke, timeout, completion, expiry, restart | handlers that run on after the timer, retries, records that outlive their call | a required mutation at most once until an attempt fails; replays are real; no key stays blocked |
| Agent runtime, delegation, cancellation: `runtime/agent/`, `orchestration/delegation/`, `runtime/context/` | gates by agent, child records, signals and controllers | execute, delegate, observe, cancel | parents that hold what children wait for; aborts beside queueing and delegation | what an abort or a cancel reaches calls no tool any more; only one kind of knot can wait for ever |
| Budgets, `runtime/budget/` | counters over a tree | consume, derive | propagation that throws half way; siblings that share what is left | a tree stays within the budget of its root |
| Self-development loop, `evolution/` | lifecycle of experiments and its store, version registry, manifest of the runtime, worktrees | cycle, CI and review reports, accept, rework, regress, activate, roll back | reports late, twice or out of order; hooks beside the cycle; switches that race | only what CI and a review let through is promoted or run; rollbacks and worktrees end as documented |
| Language server pool, `lsp/` | a session by language, processes, open documents | acquire, evict, release, sweep, stopAll | awaits between lookup and insert, starts that fail late | no process is lost, but in two known ways; open documents are not evicted; acquires end |
| Model keys, `models/router/key-manager.ts` | slots bound to models, busy flags | acquire, release | an await between check and set | not used by the program |
| Trading execution, `domains/trading/execution/` | portfolio, mode | submit | decisions on a snapshot | limits hold when the order executes |
| Event store, policy, approvals, UI, CLI, rails, learning, MCP, docs | see `PROJECT.json` | | mostly input and output, parsing or presentation | not modelled |

How they interact: the orchestrator sends each batch of steps through a
concurrency gate from the gate registry and saves a checkpoint on every
transition; a step is a run of an agent; an agent run holds a lease of its
agent's gate, calls models and tools through further gates, and may delegate to
child runs; its graph strategy drains a task graph with the scheduler, which
takes locks from a registry of its own and parallel slots from the run's
budget. Abort signals link a run to what it delegates, along two chains: that of
the contexts, which reaches everything below, and that of the strategies. `PROJECT.json` lists
every component, and the hazards at the lines where they bite.

## Modules

| module | models | |
|---|---|---|
| `LeasePool` | abstract: leases, waiting callers | what a gate promises |
| `ConcurrencyGate` | `gate.ts` | implements `LeasePool` |
| `Allocator` | abstract: sets of resources held by calls | what a lock registry promises |
| `ResourceLocks` | `resource-locks.ts` | implements `Allocator` |
| `Scheduler` | `scheduler.ts` with `task-graph.ts` | uses the table operators of `ResourceLocks`; implements `Allocator` |
| `DurablePlan` | abstract: a plan that knows no crashes | what a checkpoint promises |
| `Orchestrator` | `orchestrator.ts`, `checkpoint.ts`, resume | implements `DurablePlan`; uses the gate as a pool of leases |
| `ToolCalls` | `tool-gateway.ts` (invoke), `idempotency.ts` | uses the gate as its lanes and leases; its leases are `LeasePool`s |
| `AgentRuns` | `agent-runtime.ts`, `delegator.ts`, `execution-context.ts`, the tool calls of `runtime/budget/` and of the strategy loop | uses the gate likewise |
| `Evolution` | `engine-v2.ts`, `state-machine.ts`, the experiment controller, the registry, activation and rollback | |
| `LanguageServers` | `lsp/pool.ts`, `session.ts`, `client.ts` | |
| `MC...` | model values for TLC | |
| `..._proofs` | lemmas and theorems about the module they name | |

### ConcurrencyGate

`active`, the two lanes and the burst counter are the fields of the class.
A lease is the closure `grantLease` returns, so the callers holding an unused
one are the set `holders`, which the code does not have: that the two agree is
the point of `LeasesExact`. Each method call is one action, because nothing in
it awaits. `dispatchNext` lowers `active` and the served entry raises it again
in the same call (`active - 1 + 1`). Aborting a waiter's signal runs its
listener synchronously, so the waiter is out of its lane before anything else
runs; the check for an aborted signal inside the queue entry (lines 69 to 73)
is therefore never true and has no action. Calls that only throw are not steps.
`headOvertaken` is a history variable that stops one past the burst limit (the
value that would break `BoundedOvertaking`), which keeps the model finite even
for a gate with no limit. The burst limit of 10 is a constant.

### ResourceLocks

The two maps of the registry are `holders` and `heldBy`; each element of
`Calls` is one call of `acquire` or `tryAcquire` and stands for its holder id.
A release and the one grant its pump makes are one action. A timer may fire at
any time while its call is queued.

### Scheduler

`drain` is a loop (`loop`) and callbacks on one thread. A worker's outcome, its
transition and the release of its locks are one block (`Succeed`, `Fail`,
`Block`, `Throw`); its callback that leaves the worker list and launches is a
later one (`Settle`), and the loop's poll is another (`Wake`). `launch` claims
in a loop without awaiting: each claim is an action, and `Busy` keeps all others
out until it is done. Every claim runs the deadline sweep first. The graph is a
value of the constant `Plans`; dependency cycles are allowed, since nothing
between the planner and `drain` rejects them. The loop after a rejection is gone but
callbacks still launch, as in the code. An executor that throws also leaves a
promise nobody handles (line 139), on which Node ends the process unless the
embedder installed a handler: the model lets the process go on.

### Orchestrator

The plan is a record that exists twice, in memory and on disk. A block between
two awaits is one action and passes a step through several statuses, each saved
by a rename of a complete file; the action writes the last one, and `implementing`
stands for every status between pending and the end. A crash keeps `disk` and
`effect` (the work that is in place, a history variable) and nothing else. The
runner never throws (`AgentStepRunner` turns exceptions into outcomes). The
planner may revise any steps, completed ones too, since `applyReplan` puts its
answer in the plan by id and `validateSteps` looks at no id; it may add new ones,
keep or drop their dependencies, and depend on an id that does not exist.
`redone`, a history variable, holds the completed steps that a revision set back:
the properties that promise finished work except these and no others. A revised
step has no `rollbackCommand` any more; its rollback goes like one whose command
fails. Three inputs are left out: dependencies that a revision adds between steps
of the plan, dependency cycles, which make `topologicalOrder` throw just as the
unknown id does, and a batch larger than the gate's leases and queue together (104
by default).

### ToolCalls

A call of `invoke` is one element of `Calls`; what it does before its await is
one action (`Replay`, `Conflict`, `Admit`), what follows it another (`Settle`),
and in between the gate has already given the lease on (`Release`). A timer that
fires settles the call and leaves its handler in `executing`. A key is a tool
with its arguments; keys in `Required` are those of tools in that mode, and all
others behave as if they had none, which is also what `auto` comes to. The
manager's `file` is chosen at the start: the products make managers without one
(`dev-agent.ts:71`, `crypto-agent.ts:86`), and the class can keep one. Writes of
the file are taken to succeed. The history variables `started`, `failing` and
`forgotten` say which keys the promises still cover.

### AgentRuns

Runs are numbered in the order they start and `line` holds a run and its
ancestors. A context's signal is in `ctx`, a strategy's controller in `ctl`;
since listeners are called synchronously, an abort and everything it reaches
below is one action. A run delegates from its strategy, whose signal the child's
context then heeds, or from a hook: hooks are not given the strategy's context
(`strategies/strategy-hooks.ts`), so that such a child heeds the context that
`execute` was given. `heeds` says of each run which strategies above it its context
listens to. An abort by the user reaches all descendants (`AbortUser`);
`cancel(runId)` reaches the run and those that heed it (`Cancel`). `End` is the `finally` of `execute` with the hand-over of
the lease. The budget tree counts tool calls alone: the ones a parent and its
descendants make are counted before they are made, and the first count that is
over its limit throws (`Counted`). An abort that lands in a hook between the
loop's check and the call is not modelled apart: the gateway then refuses the
call, which has been counted and is not made.

### Evolution

`life` is the state machine's state, `stored` what the experiment store was
given, `lineage` and `status` the version registry, `pointer` the harness that
the runtime's manifest names. What `runExperiment` does, from the results to
CI_PENDING or REJECTED, is one step, because nothing in it awaits. The reports
of CI and review reach the lifecycle from the cycle (`SyncCi`, `SyncReview`) and
from outside (`OutsideCi`, `OutsideReview`), as often as they like. Illegal
moves throw and change nothing. `task` holds activations and rollbacks that
await git; the constant `Policy` is the engine's `generalizationPolicy`.
Left out: the merge of the pull request, on which nothing depends; the verdict
that a report notes in the record before it throws; a worktree git fails to
remove, which the next cycle prunes; `retainWorkspace`; the freeze marker, which
nothing in these parts reads; metrics and envelopes. The older engine
(`engine.ts:133-137`) promotes in the same registry without CI or review and is
left out as well: `ServedWasEarned` is about the closed-loop engine alone.

### LanguageServers

A session is a number; `pool` says which one each language has. `alive` holds
the processes that run and were not told to exit. An `acquire` that finds the
pool full evicts (`Evict`) and goes on later, without looking again
(`Proceed`); its session is `starting` until the server answers (`Started`), or
the start fails or times out (`StartFails`), which deletes the language's entry
whoever made it. A stop is a request with a timeout, too (`StopEnds`). `shared`
is a history variable: the languages of which two acquires were under way at
once, which is when sessions are replaced. `getSession` and `ensureSession` of
the manager come down to `Reuse` and `Acquire`.

## Runs

| run | constants | distinct states | shows |
|---|---|---|---|
| `gate` | 6 callers, 2 leases, 3 queue places, burst 2 | 10 852 | all properties of the gate, and that it implements `LeasePool` with its liveness |
| `locks` | 4 calls, 2 resources, all sets | 14 608 | all properties of the registry, and that it implements `Allocator` |
| `scheduler` | 4 graphs of 4 nodes, 2 workers | 29 021 | all properties of the scheduler |
| `orchestrator` | 3 steps and 1 of a replan, 1 retry, 1 replan, 2 leases, 2 sessions, revisions of up to 2 steps | 566 485 | all properties of the orchestrator |
| `tool_calls` | 4 calls, 3 of one key, 1 lease, queue of 1, 1 restart | 250 647 | all properties of the tool calls, with a file and without |
| `agent_runs` | 4 runs, 2 of users, 1 agent with 2 leases, 2 children each, 2 tool calls | 555 636 | all properties of the agent runs |
| `evolution` | 2 experiments in a row, 2 activations or rollbacks at a time, policy `required-for-production` | 1 441 563 | all properties of the loop |
| `language_servers` | 2 languages, pool of 1, 2 acquires at a time, 3 sessions | 561 048 | all properties of the pool |
| `tool_retries` | as `tool_calls` | violation | a key executes twice at once |
| `scheduler_retries` | as `scheduler` | violation | a retry is never taken |
| `orchestrator_resume` | as `orchestrator` | violation | an aborted plan does not resume |
| `orchestrator_rollback` | as `orchestrator` | violation | a rollback cut short leaves undone steps completed |

Why the bounds are enough. In `gate`, both lanes fill and overflow, and with two
leases a lease can be released while the other lane is being served; a burst of
two makes the counter saturate, reset and saturate again. In `locks`, two
resources give disjoint, nested and equal sets, and four calls give two holders
with two waiters that one release frees together. The graphs of `scheduler` are a
diamond with a retry, a shared lock and a deadline; an exclusive node among
others; a chain with a retry and an exclusive node that must wait for a gap; and
a cycle beside free nodes. The orchestrator's four steps give a dependency, a
step beside it, and a step a replan brings in, and two sessions one crash or
abort and its resume. A revision of two steps can set back a completed step
together with the one that failed, or with one that depends on it. `MaxSessions`
and `MaxRevised` are the bounds that the code does not have; the theorems hold for
any value of both.
In `tool_calls`, one lease and one place in the queue make a call run, one wait
and one be refused, and three calls of a key are a first attempt, a second one
beside its handler, and one that is told of both. In `agent_runs`, two parents on
two leases and a child of each are the smallest knot; one parent with two
children, each given one of its two tool calls, is the smallest tree that could
make more calls than its root may. The two experiments of `evolution` make a candidate of a
candidate, so that a rollback of the second restores the first, and two tasks
are the smallest race of switches; the strictest policy takes every branch of the
gate, and the proofs cover the other two. In `language_servers`, a pool of one
makes every second language evict, two callers give a language acquired twice
at once, and the third session is one that replaces what the first two left.
`CHECK_DEADLOCK FALSE` stands in the runs whose system stops: every call was
served, drain returned, the last session ended, the calls, runs or sessions of
the bound are used up, the cycles are over. The gate goes on for ever and is
checked for deadlock.

### Properties

* Gate: `LeasesExact` (the count admits exactly the leases that are out),
  `BoundedOvertaking`, `ImplementsLeasePool` (in which a newcomer takes a free
  lease only when nobody waits: `NoIdleSlot`, which is proved as well).
* Locks: `TablesAgree`, `ChainAlive` (why one grant per pump is enough for
  progress), `ServedInOrder`, `EveryWaiterLeaves`, `ImplementsAllocator`.
* Scheduler: `SafeOverlap`, `DependenciesFirst`, `CapacityExact`,
  `SkippedForCause`, `ReturnsWhenIdle`, `AbortClosesGraph`, `FinalStays`,
  `DrainEnds`.
* Orchestrator: `RunsAfterDependencies`, `CrashLosesNothing`,
  `CompletedStaysDone`, `AbortStops`, `DependentsUndoneFirst`,
  `ImplementsDurablePlan` (over all its sessions a plan is one that never crashed:
  steps are completed in the order of dependencies, and only a revision of a
  completed step takes it back), `SessionEnds`.
* Tool calls: `RunsOnceUntilFailure`, `ReplayIsReal` (over late completions and
  expired records), `NoOrphanKeys` (no way out of `invoke` leaves a key blocked),
  `GatesAreLeasePools` (no timeout, abort or settled call loses or doubles a
  lease), `EveryCallAnswers`.
* Agent runs: `CancelStopsTree` (a user's abort stops everything below, a cancel
  what the strategy delegated and all below that, also children that were queued or
  delegated after it; a cancel does not reach what a hook delegated),
  `TreeWithinBudget`, `BlockedOnlyInKnots` and `ServedOrKnotted`
  (the deadlock that the code does have, described exactly: whoever is stuck, and
  whoever waits for ever, is in it).
* Evolution: `ServedWasEarned`, `PolicyEnforced` (with the one gap of the
  policy), `StoreKeepsUp` (with the one state that is not saved), `RollbackTrue`
  (with the race that makes it false), `WorktreeDies`.
* Language servers: `NoStrayServer` (with the two ways in which a process is
  lost), `DocumentsKept`, `AcquiresEnd`.

Where the code breaks what it says in a known way, the property names exactly
that way, so that the run shows there is no other.

Beside each property stands, in `PROJECT.json`, a mutation of the model that a
plausible bug would cause and that violates it; its operator (`LeaseFree_OffByOne`
and the like) is kept next to the definition it mutates.

### Fairness

* Gate and locks: a lease or grant that is out is released, because every user
  releases in a `finally` block. Callers may ask again at once, on the critical
  lane; timers need not fire.
* Scheduler: a launch and the loop's check run to their end, since they are
  synchronous; the loop's timer fires; executors end, as agent runs bounded by
  turns and timeouts, and a settled worker's callback runs. The last two are strong fairness, as they are
  disabled while a launch runs: the event loop does run a callback that is due
  again and again.
* Orchestrator: every await of a live session resolves: the planner's answer, the step
  runs, the rollback commands. No fairness on abort, crash or resume.
* Tool calls: the timer fires and the continuation of a settled call runs. A
  handler owes nothing.
* Agent runs: a strategy that does not wait for a child comes to its end, as
  its turns are bounded and its calls have timeouts. Nobody has to wait, cancel
  or abort.
* Language servers: requests that are not answered time out, and what awaits
  them goes on. No server is trusted to answer.
* Evolution has no liveness property and no fairness.

## Findings

1. **A failed node's retry is lost** (`scheduler.ts:175`). The module's comment
   promises that failed nodes with budget left re-enter the ready set;
   `complete` moves them to `ready`, and only `pending` nodes are claimed.
2. **An aborted plan does not resume** (`checkpoint.ts:16`). The abort keeps
   the checkpoint "so the plan can be resumed", but it marks the open steps
   `cancelled`, which a resume trusts: it runs nothing and clears the checkpoint.
3. **A rollback cut short is forgotten** (`orchestrator.ts:314`). Undone steps
   stay `completed`; after a crash or an abort during the rollback, the resumed
   plan runs their dependents on work that is gone.
4. **A key whose attempt failed is unguarded** (`tool-gateway.ts:385`). A timed-out
   call marks its key failed while its handler runs on; calls of a failed key are
   neither refused nor recorded, so that the key executes beside itself, which
   `idempotency.ts:10-11` says the gateway refuses.

Further, within properties that hold: parents that wait for children of the same
agent can use up its leases (`agent-runtime.ts:222`, `Knotted`); a held-out matrix
takes an ineligible candidate to CI under `required-for-production`
(`engine-v2.ts:385`, `PolicyEnforced`); acceptance is not saved
(`engine-v2.ts:737`, `StoreKeepsUp`); `cancel(runId)` aborts the strategy's signal,
which a child that a hook delegated does not hear, so that its tool calls go on,
although the comment at `agent-runtime.ts:262-267` has child agents cancelled too
(`CancelStopsTree` is stated on what a cancel does reach); a replan that reuses the
id of a completed step sets it back (`orchestrator.ts:280`), so that it runs again, its
completed dependents rest meanwhile on a step that is pending, and a rollback lists it
twice, once before they are undone (`redone` in `CompletedStaysDone`,
`ImplementsDurablePlan` and `DependentsUndoneFirst`); a switch that lands between a rollback's own
switch and its verdict makes its report false (`runtime-activation.ts:180-210`,
`RollbackTrue`); a start that fails leaves its server running, and two acquires of
a language at once lose a session (`pool.ts:37-46`, `NoStrayServer`).

## Proofs

TLAPS checks, for every value of the constants under the modules' assumptions
(finite sets of callers, calls, nodes and steps, positive limits, distinct positions of
nodes, a checkpoint told apart from none):

* **Gate** (`ConcurrencyGate_proofs`). Inductive invariant: `TypeOK`, `OnePlace`
  (a caller is in one lane, once, or holds a lease: without it a hand-over could
  grow the set of holders by nothing), `LeasesExact`, `NoIdleSlot`, and
  `OvertakingCounted` (the burst counter is at least what the head of the normal
  lane has seen: that carries `BoundedOvertaking`). From it: the four
  invariants, and `GateStepsArePoolSteps`: the initial state and every step of
  the gate are those of `LeasePool`, where `NoIdleSlot` is what makes an
  `Acquire` a `Take`.
* **Locks** (`ResourceLocks_proofs`). Inductive invariant: `TypeOK`,
  `TablesAgree`, `QueuedOnce`, `ChainAlive`. `ChainAlive` is inductive because a
  waiter that a release leaves behind is contended by somebody. From it: the
  three invariants, `ServedInOrder`, and that the registry implements `Allocator`.
* **Scheduler** (`Scheduler_proofs`). Inductive invariant: `TypeOK`,
  `LocksAgree` and `Holding` (the lock tables say what the running executors
  hold), `Counted`, `Started` (an executor runs only for a node that is running
  or was cancelled under it), `SafeOverlap`, `DependenciesFirst`, `Position` and
  `Closing` (what holds when the loop is at its check or has returned), and
  `SkippedForCause`. From it: seven invariants and the action property
  `FinalStays`, for every graph, cyclic ones included. `SchedulerImplementsAllocator`
  shows the scheduler to be a client that keeps the registry's promise: a claim is
  a grant of all the node wants, and every ending, a throw too, frees it.
* **Tool calls** (`ToolCalls_proofs`). Inductive invariant: `TypeOK`,
  `QueuesHoldWaiters`, `StartedCallsGoOn`, `EntriesTrue` (who may have written a
  key's entry: a recorded one belongs to a live call or an earlier process, a
  completed one to a call that was answered), `SoundKeysTriedOnce` (a key neither
  failed nor forgotten has at most one call that got past the check) and
  `RunsOnceUntilFailure`. From it: three invariants. A second invariant,
  `GatesSound`, says that a tool has at most `MaxConcurrent` leases out, and all of
  them while a call waits; `ToolCallsUsePools` shows with it that every step of
  `invoke` is, for each tool, a step of `LeasePool` or none, so that what was
  proved of the gate alone survives its use (`GatesAreLeasePools`).
* **Agent runs** (`AgentRuns_proofs`). Inductive: `LinesGoUp` (a line is the
  parent's and the run, and a run heeds what its line heeds), `AbortsGoDown` (below
  an aborted context everything is aborted, and below an aborted strategy whatever
  heeds it), `SpentIsCounted` (what was made was counted, in every
  budget of the line, within its limit). From it: `TreeWithinBudget` and the
  action property `CancelStopsTree`. With `GatesSound`, as for tools, and
  `AwaitsUnended` (no run waits for one that has ended) it
  gives `AgentRunsUsePools` and `BlockedOnlyInKnots`: close a queued run under what
  it waits for, the holders of its agent's leases, and for each of them the child
  it awaits; if nothing in there is free to go on, every queued run in it has its
  agent's leases held by runs in it, which is the knot.
* **Evolution** (`Evolution_proofs`). Three inductive invariants that need each
  other little. `LifeInv`: every state past CI is one of a green experiment, and
  past the review one of a signed one (`Earns`), with `Delivers`, `StoreKeepsUp`
  and `PolicyEnforced`. `WorkInv`: `WorktreeDies`. `RuntimeInv`: whatever a task
  will switch to is earned (`TasksEarned`), and a task that checks the health of
  the parent runs it unless it was overtaken (`Verifies`). From them: all five
  properties of the run, for every policy and any number of experiments.
* **Orchestrator** (`Orchestrator_proofs`). Inductive: `BatchOnly` and
  `StagedReady` (a step of the batch is not completed and its dependencies are),
  `CrashLosesNothing` with `UnsavedRunsOn` (before the first save nobody has asked
  for a replan, whose count would be lost), and for the rollback `ExecutedSound`
  and `ExecutedInOrder` (no step depends on one that completed after it, unless a
  revision had set that one back: it had its dependencies completed when it
  completed) and `UndoesBackwards`. `EffectIsDone` says that work in place is
  recorded as completed or was set back. `CompletedStaysDone` joins them: the
  checkpoint tells what memory does, and no step of the batch is completed there.
  From it: the three invariants and both action properties of the run, for every
  plan, every revision, and any number of sessions, retries and replans. And the
  refinement of `DurablePlan`: with what the checkpoint holds (the plan in memory
  until the first save) as the plan's state, a completed step is a `Complete`, a
  replan a `Revise` of the steps the planner names, clearing the checkpoint or ending before the first save a
  `Close`, and every retry, failure, abort, rollback, resume and other crash a
  stutter. `OrchestratorCheckpointFounded` follows: what is completed in a
  checkpoint rests on completed steps, or on ones a revision set back.
* **Language servers** (`LanguageServers_proofs`). Inductive: `PooledSessions` (a
  session is pooled under its own language and until its stop only, so that it has
  one place), `Awaited` (a start is waited for by the one caller that made its
  session), `Alone` (while a language has one acquire under way, its place in the
  pool is that caller's or empty: without it a failed start could delete the
  session of another), `Made` (evictions in flight have room for the session each
  makes way for) and `NoStrayServer`. From it: `NoStrayServer`, the action property
  `DocumentsKept`, and `LanguageServersPoolLive` (no session is pooled once its
  stop has begun), for any number of languages, callers and sessions.

What removing from, appending to and taking the tail of a sequence of distinct
elements does to its elements and its distinctness stands at the head of each
proof module that has queues. The type invariants are proved for every module and
checked in no run of their own, since each proof starts from them.

Only model-checked: all liveness (`EveryWaiterLeaves`, `DrainEnds`,
`SessionEnds`, `EveryCallAnswers`, `ServedOrKnotted`, `AcquiresEnd`, the liveness
half of `ImplementsLeasePool`), which needs fairness and ENABLED and is beyond
TLAPS. `ServedOrKnotted` and `EveryWaiterLeaves` have their safety halves proved:
`BlockedOnlyInKnots` and `ChainAlive`. Every invariant and action property that a
run checks is proved.

## Plan

1. An abstract at-most-once table for the keys of tool calls, and the version
   registry of the self-development loop as a chain of earned versions, each shown
   to be implemented as the plan of the orchestrator is.
2. The trading pipeline: risk checks on a snapshot, orders after an await.
3. Model calls and parallel slots in the budget tree, beside the tool calls.
4. The run scope of the command line over several sessions of the orchestrator.

## Not modelled

Formatting, wording, events for display, logging, token counting and prompts
are left out everywhere. The components of the last table rows, and those marked
`not_modelled` in `PROJECT.json`, are not modelled because they are input and output, pure
functions over text, or presentation, or because they stand in the plan above.
`KeyManager` is finished code that nothing makes (a plan of the repository keeps
it unwired), so that it is not modelled either. The registry of cancellation scopes
appears in no module: the scope that a run registers has no listeners, and aborts
reach the work along the signals of `AgentRuns`.
`TaskGraph.retry` and adding nodes during a drain exist in the code and are called
by nothing in it.
