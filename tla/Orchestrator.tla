---------------------------- MODULE Orchestrator ----------------------------
(***************************************************************************)
(* src/orchestration/orchestrator.ts with src/runtime/checkpoint.ts and    *)
(* the resume of src/cli/services/execution-manager.ts: a plan of steps    *)
(* run in batches behind a concurrency gate, retried, replanned and rolled *)
(* back, with a checkpoint on disk after every transition, across crashes, *)
(* aborts and resumes.                                                     *)
(*                                                                         *)
(* A session is one Orchestrator.run().  What runs between two awaits is   *)
(* one action.  Such a block passes a step through several statuses and    *)
(* saves each; the action saves the last one, which a resume treats like   *)
(* the others of the block: only "completed" is told apart, and it is      *)
(* always the last.  The gate is a LeasePool: whichever queued step gets   *)
(* the next lease.                                                         *)
(***************************************************************************)
EXTENDS Integers, Sequences, FiniteSets, SequencesExt

CONSTANTS
    Steps,          \* the step ids of the first plan and of revised plans
    InitialSteps,   \* the steps of the first plan
    InitialDeps,    \* InitialDeps[s]: their dependencies
    Missing,        \* an id that names no step; a planner may depend on it
    Undoable,       \* the steps with a rollbackCommand
    MaxRetries,     \* maxRetries (3)
    MaxReplans,     \* maxReplans (5)
    Limit,          \* concurrencyLimit (4)
    NoCheckpoint,   \* there is no checkpoint file
    MaxSessions,    \* bound: how often the plan is run or resumed
    MaxRevised      \* bound: how many steps the planner revises at once

ASSUME OrchestratorAssumption ==
    /\ IsFiniteSet(Steps)
    /\ InitialSteps \subseteq Steps
    /\ InitialDeps \in [Steps -> SUBSET InitialSteps]
    /\ Missing \notin Steps
    /\ Undoable \subseteq Steps
    /\ MaxRetries \in Nat
    /\ MaxReplans \in Nat
    /\ Limit \in Nat \ {0}
    /\ MaxSessions \in Nat \ {0}
    /\ MaxRevised \in Nat

VARIABLES
    mem,            \* the plan in memory: status, deps, retries and replanCount
    disk,           \* the checkpoint, a copy of such a plan, or NoCheckpoint
    phase,          \* where run() is: "loop" top, "batch" in flight, "replan",
                    \* "rollback"; it "returned" or "threw"; the process is "down"
    stage,          \* stage[s] in the batch: "out", "queued" at the gate, "running"
    replanNeeded,   \* a step of the batch asked for a replan
    executedOrder,  \* the steps this session completed, in that order
    undo,           \* rollbackAll: what is left of executedOrder
    aborted,        \* the signal
    sessions,       \* sessions started
    effect,         \* history: the steps whose work is in place
    redone          \* history: the completed steps that a revision set back

vars == <<mem, disk, phase, stage, replanNeeded, executedOrder, undo, aborted,
          sessions, effect, redone>>

StepStatus == {"pending", "implementing", "completed", "failed", "skipped", "cancelled"}
Plan ==
    [ status : [Steps -> StepStatus \cup {"absent"}],   \* "absent": not in the map
      deps : [Steps -> SUBSET (Steps \cup {Missing})],
      retries : [Steps -> Nat],
      replanCount : Nat ]

ASSUME NoCheckpointAssumption == NoCheckpoint \notin Plan

Live == phase \in {"loop", "batch", "replan", "rollback"}

-----------------------------------------------------------------------------
Present(p) == {s \in Steps : p.status[s] # "absent"}

\* Mutant: a dependency that ended in any way will do.
DependenciesSatisfied_AnyEnd(s) ==
    \A d \in mem.deps[s] : mem.status[d] \in {"completed", "failed", "skipped"}

DependenciesSatisfied(s) ==
    \A d \in mem.deps[s] : d \in Steps /\ mem.status[d] = "completed"

Ready == {s \in Steps : mem.status[s] = "pending" /\ DependenciesSatisfied(s)}

\* topologicalOrder() throws: a step depends on one that is not in the plan.
\* (It throws on a cycle as well; the plans modelled here have none.)
OrderThrows(p) == \E s \in Present(p) : ~ p.deps[s] \subseteq Present(p)

\* Mutant: completed steps are run again.
Trusted_Nothing == {"cancelled", "absent"}

\* TRUSTED_ON_RESUME, as far as the statuses occur ("rolledback" is never set).
Trusted == {"completed", "cancelled", "absent"}

\* sanitizeResumedSteps()
Sanitized(p) ==
    [p EXCEPT !.status =
        [s \in Steps |-> IF p.status[s] \in Trusted THEN p.status[s] ELSE "pending"]]

\* cancelRemaining(): every step that is not final, by a legal transition.
CancelRemaining(p) ==
    [p EXCEPT !.status = [s \in Steps |->
        IF p.status[s] \in {"pending", "implementing"} THEN "cancelled" ELSE p.status[s]]]

\* cascadeFailure(): pending dependents of n, and theirs.
Cascaded(st, n) ==
    LET open == {s \in Steps : st[s] = "pending"}
        Closed(S) == \A s \in open : mem.deps[s] \cap (S \cup {n}) # {} => s \in S
    IN  {s \in open : \A S \in SUBSET open : Closed(S) => s \in S}

\* Mutant: the checkpoint is not written.
Save_MemoryOnly(p) == mem' = p /\ UNCHANGED disk

\* The plan in memory changes and is saved.
Save(p) == mem' = p /\ disk' = p

-----------------------------------------------------------------------------
Init ==
    /\ mem = [ status |-> [s \in Steps |-> IF s \in InitialSteps THEN "pending" ELSE "absent"],
               deps |-> InitialDeps,
               retries |-> [s \in Steps |-> 0],
               replanCount |-> 0 ]
    /\ disk = NoCheckpoint
    /\ phase = "loop"
    /\ stage = [s \in Steps |-> "out"]
    /\ replanNeeded = FALSE
    /\ executedOrder = <<>>
    /\ undo = <<>>
    /\ aborted = FALSE
    /\ sessions = 1
    /\ effect = {}
    /\ redone = {}

\* The loop finds the signal aborted.
LoopAborted ==
    /\ phase = "loop"
    /\ aborted
    /\ Save(CancelRemaining(mem))
    /\ phase' = "returned"
    /\ UNCHANGED <<stage, replanNeeded, executedOrder, undo, aborted, sessions, effect, redone>>

\* The ready steps go to the gate together.
ScheduleBatch ==
    /\ phase = "loop"
    /\ ~aborted
    /\ Ready # {}
    /\ stage' = [s \in Steps |-> IF s \in Ready THEN "queued" ELSE "out"]
    /\ replanNeeded' = FALSE
    /\ phase' = "batch"
    /\ UNCHANGED <<mem, disk, executedOrder, undo, aborted, sessions, effect, redone>>

\* Mutant: rollback in the order of execution.
UndoOrder_Forward == executedOrder

\* rollbackAll(): from the last completed step to the first.
UndoOrder == Reverse(executedOrder)

\* Nothing is ready: roll back after a failure, clear the checkpoint otherwise.
LoopFailed ==
    /\ phase = "loop"
    /\ ~aborted
    /\ Ready = {}
    /\ \E s \in Steps : mem.status[s] = "failed"
    /\ undo' = UndoOrder
    /\ phase' = "rollback"
    /\ UNCHANGED <<mem, disk, stage, replanNeeded, executedOrder, aborted, sessions, effect, redone>>

LoopDone ==
    /\ phase = "loop"
    /\ ~aborted
    /\ Ready = {}
    /\ \A s \in Steps : mem.status[s] # "failed"
    /\ disk' = NoCheckpoint
    /\ phase' = "returned"
    /\ UNCHANGED <<mem, stage, replanNeeded, executedOrder, undo, aborted, sessions, effect, redone>>

\* A queued step gets a lease of the gate.
Leased(s) ==
    /\ stage[s] = "queued"
    /\ Cardinality({t \in Steps : stage[t] = "running"}) < Limit

\* Mutant: runStep does not look at the signal.
Barred_Never == FALSE

\* runStep() looks at the signal before its first transition.
Barred == aborted

\* runStep() up to the runner.
Start(s) ==
    /\ Leased(s)
    /\ ~Barred
    /\ stage' = [stage EXCEPT ![s] = "running"]
    /\ Save([mem EXCEPT !.status[s] = "implementing"])
    /\ UNCHANGED <<phase, replanNeeded, executedOrder, undo, aborted, sessions, effect, redone>>

\* runStep() bails out: the abort landed while the step was queued.
BailOut(s) ==
    /\ Leased(s)
    /\ Barred
    /\ stage' = [stage EXCEPT ![s] = "out"]
    /\ UNCHANGED <<mem, disk, phase, replanNeeded, executedOrder, undo, aborted, sessions, effect, redone>>

\* The runner succeeded, before or after an abort.
Succeed(s) ==
    /\ stage[s] = "running"
    /\ stage' = [stage EXCEPT ![s] = "out"]
    /\ Save([mem EXCEPT !.status[s] = "completed"])
    /\ executedOrder' = Append(executedOrder, s)
    /\ effect' = effect \cup {s}
    /\ UNCHANGED <<phase, replanNeeded, undo, aborted, sessions, redone>>

\* The runner did not succeed and the signal is aborted.
CutShort(s) ==
    /\ stage[s] = "running"
    /\ aborted
    /\ stage' = [stage EXCEPT ![s] = "out"]
    /\ Save([mem EXCEPT !.status[s] = "cancelled"])
    /\ UNCHANGED <<phase, replanNeeded, executedOrder, undo, aborted, sessions, effect, redone>>

\* Mutant: the retry is not counted.
Retried_Uncounted(s) == [mem EXCEPT !.status[s] = "pending"]

Retried(s) == [mem EXCEPT !.status[s] = "pending", !.retries[s] = @ + 1]

\* A retryable outcome within the retry budget: the next batch runs it again.
Retry(s) ==
    /\ stage[s] = "running"
    /\ ~aborted
    /\ mem.retries[s] < MaxRetries
    /\ stage' = [stage EXCEPT ![s] = "out"]
    /\ Save(Retried(s))
    /\ UNCHANGED <<phase, replanNeeded, executedOrder, undo, aborted, sessions, effect, redone>>

\* A blocking outcome, or a retryable one out of budget.
Fail(s) ==
    /\ stage[s] = "running"
    /\ ~aborted
    /\ stage' = [stage EXCEPT ![s] = "out"]
    /\ LET st == [mem.status EXCEPT ![s] = "failed"]
           skipped == Cascaded(st, s)
       IN  Save([mem EXCEPT !.status =
                    [t \in Steps |-> IF t \in skipped THEN "skipped" ELSE st[t]]])
    /\ replanNeeded' = TRUE
    /\ UNCHANGED <<phase, executedOrder, undo, aborted, sessions, effect, redone>>

\* Promise.all over the batch resolves.
BatchOver == phase = "batch" /\ \A s \in Steps : stage[s] = "out"

BatchAborted ==
    /\ BatchOver
    /\ aborted
    /\ Save(CancelRemaining(mem))
    /\ phase' = "returned"
    /\ UNCHANGED <<stage, replanNeeded, executedOrder, undo, aborted, sessions, effect, redone>>

BatchContinue ==
    /\ BatchOver
    /\ ~aborted
    /\ ~replanNeeded
    /\ phase' = "loop"
    /\ UNCHANGED <<mem, disk, stage, replanNeeded, executedOrder, undo, aborted, sessions, effect, redone>>

\* The count of replans goes up in memory; applyReplan saves it.
BatchReplan ==
    /\ BatchOver
    /\ ~aborted
    /\ replanNeeded
    /\ mem' = [mem EXCEPT !.replanCount = @ + 1]
    /\ phase' = IF mem.replanCount + 1 > MaxReplans THEN "threw" ELSE "replan"
    /\ UNCHANGED <<disk, stage, replanNeeded, executedOrder, undo, aborted, sessions, effect, redone>>

\* applyReplan: the revised steps are put in the plan by id, pending and not yet
\* retried, also over steps that are completed, for no id is looked at; with the
\* dependencies they had, with none, or with one that does not exist.
Revised(R, free, broken) ==
    [mem EXCEPT
        !.status = [s \in Steps |-> IF s \in R THEN "pending" ELSE mem.status[s]],
        !.retries = [s \in Steps |-> IF s \in R THEN 0 ELSE mem.retries[s]],
        !.deps = [s \in Steps |->
                     CASE s \in broken -> {Missing}
                       [] s \in free \ broken -> {}
                       [] OTHER -> mem.deps[s]]]

\* The planner answers with revised steps; then the order is computed again and
\* may throw.
Replan ==
    /\ phase = "replan"
    /\ \E R \in (SUBSET Steps) \ {{}} :
       \E free, broken \in SUBSET R :
           LET p == Revised(R, free, broken)
           IN  /\ Cardinality(R) <= MaxRevised
               /\ Save(p)
               /\ phase' = IF OrderThrows(p) THEN "threw" ELSE "loop"
               /\ redone' = redone \cup {s \in R : mem.status[s] = "completed"}
    /\ UNCHANGED <<stage, replanNeeded, executedOrder, undo, aborted, sessions, effect>>

\* The planner throws: the model call fails or its answer does not parse.
PlannerThrows ==
    /\ phase = "replan"
    /\ phase' = "threw"
    /\ UNCHANGED <<mem, disk, stage, replanNeeded, executedOrder, undo, aborted, sessions, effect, redone>>

\* The command works or fails, which is logged; a step without one is passed over.
\* What a planner revised has none (plan-generator.ts:43-49): it goes like a failed one.
Rollback ==
    /\ phase = "rollback"
    /\ undo # <<>>
    /\ undo' = Tail(undo)
    /\ effect' \in IF Head(undo) \in Undoable THEN {effect, effect \ {Head(undo)}} ELSE {effect}
    /\ UNCHANGED <<mem, disk, phase, stage, replanNeeded, executedOrder, aborted, sessions, redone>>

RollbackOver ==
    /\ phase = "rollback"
    /\ undo = <<>>
    /\ disk' = IF aborted THEN disk ELSE NoCheckpoint
    /\ phase' = "returned"
    /\ UNCHANGED <<mem, stage, replanNeeded, executedOrder, undo, aborted, sessions, effect, redone>>

\* The operator aborts.
Abort ==
    /\ Live
    /\ ~aborted
    /\ aborted' = TRUE
    /\ UNCHANGED <<mem, disk, phase, stage, replanNeeded, executedOrder, undo, sessions, effect, redone>>

\* The process dies: the checkpoint and the work done remain.
Crash ==
    /\ Live
    /\ phase' = "down"
    /\ stage' = [s \in Steps |-> "out"]
    /\ UNCHANGED <<mem, disk, replanNeeded, executedOrder, undo, aborted, sessions, effect, redone>>

\* resumePlannedTask() on what the last session left behind.
Resume ==
    /\ ~Live
    /\ disk # NoCheckpoint
    /\ sessions < MaxSessions
    /\ sessions' = sessions + 1
    /\ mem' = Sanitized(disk)
    /\ phase' = IF OrderThrows(disk) THEN "threw" ELSE "loop"
    /\ replanNeeded' = FALSE
    /\ executedOrder' = <<>>
    /\ undo' = <<>>
    /\ aborted' = FALSE
    /\ UNCHANGED <<disk, stage, effect, redone>>

StepEnds(s) == Succeed(s) \/ CutShort(s) \/ Retry(s) \/ Fail(s)

Next ==
    \/ \E s \in Steps :
           \/ Start(s)
           \/ BailOut(s)
           \/ Succeed(s)
           \/ CutShort(s)
           \/ Retry(s)
           \/ Fail(s)
    \/ LoopAborted
    \/ ScheduleBatch
    \/ LoopFailed
    \/ LoopDone
    \/ BatchAborted
    \/ BatchContinue
    \/ BatchReplan
    \/ Replan
    \/ PlannerThrows
    \/ Rollback
    \/ RollbackOver
    \/ Abort
    \/ Crash
    \/ Resume

\* The loop runs on, step runs end (they are bounded by turns and timeouts),
\* the planner answers or throws, rollback commands end.  Nobody has to
\* abort, crash or resume.
Fairness ==
    /\ WF_vars(LoopAborted \/ ScheduleBatch \/ LoopFailed \/ LoopDone)
    /\ WF_vars(BatchAborted \/ BatchContinue \/ BatchReplan)
    /\ WF_vars(Replan \/ PlannerThrows)
    /\ WF_vars(Rollback \/ RollbackOver)
    /\ \A s \in Steps : WF_vars(Start(s) \/ BailOut(s)) /\ WF_vars(StepEnds(s))

Spec == Init /\ [][Next]_vars /\ Fairness

-----------------------------------------------------------------------------
TypeOK ==
    /\ mem \in Plan
    /\ disk \in Plan \cup {NoCheckpoint}
    /\ phase \in {"loop", "batch", "replan", "rollback", "returned", "threw", "down"}
    /\ stage \in [Steps -> {"out", "queued", "running"}]
    /\ replanNeeded \in BOOLEAN
    /\ executedOrder \in Seq(Steps)
    /\ undo \in Seq(Steps)
    /\ aborted \in BOOLEAN
    /\ sessions \in 1..MaxSessions
    /\ effect \subseteq Steps
    /\ redone \subseteq Steps

\* A step runs only while each of its dependencies is completed, whatever was
\* retried, skipped, revised or resumed before.
RunsAfterDependencies ==
    \A s \in Steps : stage[s] = "running" =>
        \A d \in mem.deps[s] : d \in Steps /\ mem.status[d] = "completed"

\* A crash loses no progress: at every moment of a session, what a resume
\* would make of the checkpoint is what it would make of the plan in memory
\* (the replan count apart, which goes to disk with the revised plan).
CrashLosesNothing ==
    Live => LET Kept(p) == [Sanitized(p) EXCEPT !.replanCount = 0]
            IN  IF disk = NoCheckpoint
                THEN Kept(mem) = mem
                ELSE Kept(disk) = Kept(mem)

\* Completed work is run again only when a revision asked for it: no step starts
\* that the checkpoint has as completed, and none whose work is in place but one
\* that a revision set back, in this session or after any number of crashes and
\* resumes (checkpoint.ts:14-15).
CompletedStaysDone ==
    [][\A s \in Steps : stage[s] # "running" /\ stage'[s] = "running" =>
          /\ disk # NoCheckpoint => disk.status[s] # "completed"
          /\ s \in effect => s \in redone]_vars

\* After an abort no step starts, none is failed or skipped, and neither the
\* planner nor the rollback is entered, also for steps still queued at the gate.
AbortStops ==
    [][aborted /\ aborted' =>
          /\ \A s \in Steps :
                 /\ stage'[s] = "running" => stage[s] = "running"
                 /\ mem'.status[s] \in {"failed", "skipped"} => mem'.status[s] = mem.status[s]
          /\ phase' \in {"replan", "rollback"} => phase' = phase]_vars

\* A completed step is rolled back only after every step of the session that
\* depends on it; a step that a revision set back, which is listed anew when it
\* completes again, after its dependents, is not covered (orchestrator.ts:253, 310).
DependentsUndoneFirst ==
    phase = "rollback" =>
        \A s \in Range(executedOrder) \ (Range(undo) \cup redone) :
            \A t \in Range(undo) : s \notin mem.deps[t]

\* Over all its sessions a plan is one plan that never crashed: steps are completed,
\* in the checkpoint or in memory until the first save, in the order of the
\* dependencies, and no retry, abort, crash or resume takes any of that back or
\* opens the plan again.  A revision may: applyReplan looks at no status
\* (orchestrator.ts:205-220, 279-284, checkpoint.ts:12-20).
\* A rollback undoes work and leaves the record of it: see WorkInPlace.
Saved == IF disk = NoCheckpoint THEN mem ELSE disk
Durable ==
    INSTANCE DurablePlan
        WITH Ids <- Steps \cup {Missing},
             done <- {s \in Steps : Saved.status[s] = "completed"},
             needs <- Saved.deps,
             revoked <- redone,
             open <- Live \/ disk # NoCheckpoint
ImplementsDurablePlan == Durable!Spec

\* A session ends: retry and replan budgets bound the loop.
SessionEnds == Live ~> ~Live

\* "The checkpoint is deliberately kept so the plan can be resumed": a resumed
\* session that returns by itself has left no step cancelled by the abort.
CancelledStepsResume ==
    phase = "returned" /\ ~aborted =>
        \A s \in Steps : mem.status[s] # "cancelled"

\* '"completed" steps are kept so a resumed run doesn't redo finished work':
\* a step that starts finds the work of its dependencies in place.
WorkInPlace ==
    \A s \in Steps : stage[s] = "running" => mem.deps[s] \subseteq effect
=============================================================================
