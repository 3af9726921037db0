----------------------------- MODULE Evolution -----------------------------
(***************************************************************************)
(* The self-development loop of src/evolution: ClosedLoopEngine            *)
(* (engine-v2.ts) runs cycles that mutate the harness in a worktree,       *)
(* evaluate the candidate and deliver it as a pull request; CI and review  *)
(* drive the experiment through its lifecycle (state-machine.ts,           *)
(* experiments/); an accepted candidate is promoted in the version         *)
(* registry (registry.ts) and switched onto the runtime, and taken off it  *)
(* by a rollback when it regresses (monitoring/).                          *)
(*                                                                         *)
(* An experiment names its candidate harness too.  Everything between two  *)
(* awaits of input or output is one step, so that the states a method runs *)
(* through within one call are not seen.  The cycle reports CI and review  *)
(* itself; the same hooks are open to others, at any time and more than    *)
(* once.  A regression may be found at any time.  Telemetry, envelopes and *)
(* the metrics of promotions are left out, and of a record all but its     *)
(* state and decision.                                                     *)
(***************************************************************************)
EXTENDS Naturals, Sequences, FiniteSets, SequencesExt

CONSTANTS
    Exps,       \* experiments, each with a candidate of its own
    Base,       \* the harness the first of them mutates
    ParentOf,   \* the harness each experiment mutates
    Policy,     \* generalizationPolicy of the engine
    Tasks,      \* activations and rollbacks under way at a time
    Nobody      \* no harness; no experiment

Harnesses == Exps \cup {Base}

ASSUME EvolutionAssumption ==
    /\ ParentOf \in [Exps -> Harnesses]
    /\ \A e \in Exps : ParentOf[e] # e
    /\ Base \notin Exps /\ Nobody \notin Harnesses
    /\ Policy \in {"optional", "required", "required-for-production"}

\* state-machine.ts: where each state may go.
Legal == [
    OBSERVED |-> {"DIAGNOSED"}, DIAGNOSED |-> {"TARGETED"}, TARGETED |-> {"HYPOTHESIS"},
    HYPOTHESIS |-> {"CANDIDATE"}, CANDIDATE |-> {"EVALUATING"},
    EVALUATING |-> {"VALIDATED", "REJECTED"}, VALIDATED |-> {"GENERALIZED"},
    GENERALIZED |-> {"ELIGIBLE", "REJECTED"}, ELIGIBLE |-> {"DELIVERED"},
    DELIVERED |-> {"CI_PENDING"}, CI_PENDING |-> {"CI_PASSED", "CI_FAILED"},
    CI_PASSED |-> {"REVIEW_PENDING"}, REVIEW_PENDING |-> {"APPROVED", "CHANGES_REQUESTED"},
    APPROVED |-> {"ACCEPTED"}, ACCEPTED |-> {"ACTIVE"}, ACTIVE |-> {"REGRESSED"},
    REJECTED |-> {}, CI_FAILED |-> {"CANDIDATE"}, CHANGES_REQUESTED |-> {"CANDIDATE"},
    REGRESSED |-> {"ROLLBACK"}, ROLLBACK |-> {"ACTIVE"}]
States == DOMAIN Legal

VARIABLES
    life,       \* the state of each experiment, or none before it has a record
    decision,   \* the decision in its record
    stored,     \* the state in its record as last saved
    status,     \* the registry's status of each version
    lineage,    \* versions in the order they were first saved
    pointer,    \* the harness the runtime's manifest points at
    cycle,      \* where runEvolutionCycle is for each experiment
    tree,       \* experiments whose worktree exists
    task,       \* activations and rollbacks: stage, experiment, harness to restore
    evidence,   \* history: the matrix that took an experiment to CI
    green,      \* history: experiments that CI moved on
    signed,     \* history: experiments that a review then approved
    overtaken   \* history: rollbacks that saw another switch after their own

experiments == <<life, decision, stored, evidence>>
registry == <<status, lineage>>
runtime == <<pointer, task, overtaken>>
work == <<cycle, tree>>
vars == <<experiments, registry, runtime, work, green, signed>>

Stages == {"idle", "working", "pushing", "checking", "reviewing", "disposing", "over"}
TaskStages == {"idle", "switching", "verifying", "restoring", "activating"}
Idle == [stage |-> "idle", exp |-> Nobody, from |-> Nobody]

TypeOK ==
    /\ life \in [Exps -> States \cup {"none"}] /\ stored \in [Exps -> States \cup {"none"}]
    /\ decision \in [Exps -> {"none", "eligible", "inconclusive", "rejected"}]
    /\ evidence \in [Exps -> {"none", "failed", "held_out", "transfer"}]
    /\ status \in [Harnesses -> {"none", "candidate", "validated", "rejected", "promoted",
                                 "rolled_back"}]
    /\ lineage \in Seq(Harnesses)
    /\ pointer \in Harnesses \cup {Nobody}
    /\ cycle \in [Exps -> Stages]
    /\ task \in [Tasks -> [stage : TaskStages, exp : Exps \cup {Nobody},
                           from : Harnesses \cup {Nobody}]]
    /\ tree \subseteq Exps /\ green \subseteq Exps /\ signed \subseteq Exps
    /\ overtaken \subseteq Tasks

\* The parent of the first experiment may be a registered version, or a name of
\* git's that the registry does not know.
Init ==
    /\ life = [e \in Exps |-> "none"] /\ stored = life
    /\ decision = life /\ evidence = life
    /\ \/ /\ lineage = <<Base>>
          /\ status = [h \in Harnesses |-> IF h = Base THEN "promoted" ELSE "none"]
       \/ /\ lineage = <<>>
          /\ status = [h \in Harnesses |-> "none"]
    /\ pointer = Nobody
    /\ cycle = [e \in Exps |-> "idle"]
    /\ tree = {}
    /\ task = [t \in Tasks |-> Idle]
    /\ green = {} /\ signed = {} /\ overtaken = {}

-----------------------------------------------------------------------------
(* The lifecycle: EvolutionStateMachine, ExperimentController, and the      *)
(* registry.                                                                *)

\* transition(), several in a row: each must be legal, or the call throws.
MayGo(e, path) ==
    \A i \in DOMAIN path : path[i] \in Legal[IF i = 1 THEN life[e] ELSE path[i - 1]]

\* advance(): the machine moves, and the record with its new state is saved.
\* Mutant: it is saved before it gets the new state.
Advance_SavesFirst(e, path) ==
    /\ life' = [life EXCEPT ![e] = Last(path)]
    /\ stored' = [stored EXCEPT ![e] = life[e]]
Advance(e, path) ==
    /\ life' = [life EXCEPT ![e] = Last(path)]
    /\ stored' = [stored EXCEPT ![e] = Last(path)]

\* A verdict from outside: a move that is not legal throws.
\* Mutant: a lax machine moves all the same.
Feedback_Lax(e, path) == Advance(e, path)
Feedback(e, path) == IF MayGo(e, path) THEN Advance(e, path) ELSE UNCHANGED <<life, stored>>

ReportCi(e, verdict) ==
    /\ CASE verdict = "passed" -> Feedback(e, <<"CI_PASSED", "REVIEW_PENDING">>)
         [] verdict = "failed" -> Feedback(e, <<"CI_FAILED">>)
         [] verdict = "pending" -> UNCHANGED <<life, stored>>
    /\ green' = green \cup {x \in {e} : verdict = "passed" /\ life[e] = "CI_PENDING"}
    /\ UNCHANGED <<decision, evidence>>

Signs(e) == signed' = signed \cup {x \in {e} : life[e] = "REVIEW_PENDING" /\ e \in green}
ReportReview(e, verdict) ==
    /\ \/ verdict = "approved" /\ Feedback(e, <<"APPROVED">>) /\ Signs(e)
       \/ verdict = "changes_requested" /\ Feedback(e, <<"CHANGES_REQUESTED">>) /\ UNCHANGED signed
    /\ UNCHANGED <<decision, evidence>>

\* getActiveVersion: the newest promoted version, if there is one.
Promoted == {i \in DOMAIN lineage : status[lineage[i]] = "promoted"}
ActiveVersion(h) ==
    \/ Promoted = {} /\ h = Nobody
    \/ \E i \in Promoted : h = lineage[i] /\ \A j \in Promoted : j <= i

Place(h) == CHOOSE i \in DOMAIN lineage : lineage[i] = h

\* rollbackTo of a known version: what was promoted after it is rolled back.
RollbackTo(h) ==
    /\ status' = [x \in Harnesses |->
          IF x = h THEN "promoted"
          ELSE IF status[x] = "promoted" /\ Place(x) > Place(h) THEN "rolled_back"
          ELSE status[x]]
    /\ UNCHANGED lineage

\* finalizeAcceptance: ACCEPTED and ACTIVE are not saved.
\* Mutant: the state is not looked at.
MayAccept_Any(e) == life[e] # "none"
MayAccept(e) == life[e] = "APPROVED"
Accept(e) ==
    /\ life' = [life EXCEPT ![e] = "ACTIVE"]
    /\ status' = [status EXCEPT ![e] = "promoted"]
    /\ UNCHANGED <<decision, evidence, lineage>>

-----------------------------------------------------------------------------
(* runExperiment, from the results of the benchmark to CI_PENDING or        *)
(* REJECTED.  stage is the verdict of the two-stage selector, matrix that of *)
(* the generalization gate: none without cells, failed, or passed with      *)
(* transfer executors or on held-out tasks alone.                           *)

Missing(matrix) ==
    \/ Policy # "optional" /\ matrix = "none"
    \/ Policy = "required-for-production" /\ matrix = "held_out"
Blocked(matrix) == Missing(matrix) \/ matrix = "failed"

\* Mutant: the policy is not asked for a missing matrix.
ToGate_NoPolicy(stage, matrix) == stage = "eligible" /\ matrix # "failed"
\* The gate's verdict is looked at before the policy's.
ToGate(stage, matrix) ==
    stage = "eligible" /\ (matrix \in {"held_out", "transfer"} \/ ~Blocked(matrix))

Evaluated(e, stage, matrix) ==
    LET eligible == stage = "eligible" /\ ~Blocked(matrix) IN
    /\ Advance(e, <<IF ToGate(stage, matrix) THEN "CI_PENDING" ELSE "REJECTED">>)
    /\ decision' = [decision EXCEPT ![e] = IF eligible THEN "eligible"
                                           ELSE IF stage = "eligible" THEN "inconclusive"
                                           ELSE stage]
    /\ evidence' = [evidence EXCEPT ![e] = IF ToGate(stage, matrix) THEN matrix ELSE @]
    /\ status' = [status EXCEPT ![e] = IF eligible THEN "validated"
                                       ELSE IF stage = "rejected" THEN "rejected"
                                       ELSE "candidate"]
    /\ lineage' = Append(lineage, e)

-----------------------------------------------------------------------------
(* runEvolutionCycle.                                                       *)

Goes(e, stage) == cycle' = [cycle EXCEPT ![e] = stage]

\* The worktree, at a parent that git resolves.
Prepare(e) ==
    /\ cycle[e] = "idle"
    /\ ParentOf[e] \in {Base} \cup {x \in Exps : life[x] # "none"}
    /\ \/ Goes(e, "working") /\ tree' = tree \cup {e}
       \/ Goes(e, "over") /\ UNCHANGED tree
    /\ UNCHANGED <<experiments, registry, runtime, green, signed>>

\* inspect, implement, verify, finalize or the benchmark fails.
\* Mutant: an early return outside the try.
Fail_KeepsTree(e) == Goes(e, "over")
Fail(e) == Goes(e, "disposing")
WorkFails(e) ==
    /\ cycle[e] = "working"
    /\ Fail(e)
    /\ UNCHANGED <<experiments, registry, runtime, tree, green, signed>>

\* The candidate is committed and benchmarked; it is delivered if GitHub is
\* asked for and a report was prepared.
Evaluate(e, stage, matrix) ==
    /\ cycle[e] = "working"
    /\ Evaluated(e, stage, matrix)
    /\ \/ Goes(e, "disposing")
       \/ decision'[e] = "eligible" /\ Goes(e, "pushing")
    /\ UNCHANGED <<runtime, tree, green, signed>>

\* deliverExperiment: the branch is pushed and the pull request opened.
Deliver(e) ==
    /\ cycle[e] = "pushing"
    /\ Goes(e, "checking") \/ Fail(e)
    /\ UNCHANGED <<experiments, registry, runtime, tree, green, signed>>

\* syncCiFeedback: the checks' verdict, or pending after checksTimeoutMs.  The
\* cycle goes on to the review if CI passed and the report did not throw.
SyncCi(e, verdict) ==
    /\ cycle[e] = "checking"
    /\ ReportCi(e, verdict)
    /\ Goes(e, IF verdict = "passed" /\ life[e] = "CI_PENDING" THEN "reviewing" ELSE "disposing")
    /\ UNCHANGED <<registry, runtime, tree, signed>>

\* syncReviewFeedback, once: no review yet, or the latest one; with autoAccept an
\* approval that the lifecycle takes is followed by finalizeAcceptance, and that by
\* the merge, which nothing here depends on.
SyncReview(e) ==
    /\ cycle[e] = "reviewing"
    /\ \/ /\ UNCHANGED <<experiments, registry, signed>>
       \/ /\ \E verdict \in {"approved", "changes_requested"} : ReportReview(e, verdict)
          /\ UNCHANGED registry
       \/ /\ MayGo(e, <<"APPROVED">>)
          /\ Accept(e)
          /\ stored' = [stored EXCEPT ![e] = "APPROVED"]
          /\ Signs(e)
    /\ Goes(e, "disposing")
    /\ UNCHANGED <<runtime, tree, green>>

\* The finally.
Dispose(e) ==
    /\ cycle[e] = "disposing"
    /\ tree' = tree \ {e}
    /\ Goes(e, "over")
    /\ UNCHANGED <<experiments, registry, runtime, green, signed>>

Verdicts == {"pending", "passed", "failed"}
CycleStep(e) ==
    \/ Prepare(e)
    \/ WorkFails(e)
    \/ \E stage \in {"eligible", "inconclusive", "rejected"},
          matrix \in {"none", "failed", "held_out", "transfer"} : Evaluate(e, stage, matrix)
    \/ Deliver(e)
    \/ \E verdict \in Verdicts : SyncCi(e, verdict)
    \/ SyncReview(e)
    \/ Dispose(e)

-----------------------------------------------------------------------------
(* The engine's hooks: reportCi, reportReview, finalizeAcceptance,          *)
(* beginRework and, without a runtime, handleRegression.                    *)

Known(e) == life[e] # "none"

OutsideCi(e) ==
    /\ Known(e)
    /\ \E verdict \in Verdicts \ {"pending"} : ReportCi(e, verdict)
    /\ UNCHANGED <<registry, runtime, work, signed>>

OutsideReview(e) ==
    /\ Known(e)
    /\ \E verdict \in {"approved", "changes_requested"} : ReportReview(e, verdict)
    /\ UNCHANGED <<registry, runtime, work, green>>

OutsideAccept(e) ==
    /\ Known(e) /\ MayAccept(e)
    /\ Accept(e)
    /\ UNCHANGED <<stored, runtime, work, green, signed>>

BeginRework(e) ==
    /\ life[e] \in {"CI_FAILED", "CHANGES_REQUESTED"}
    /\ Advance(e, <<"CANDIDATE">>)
    /\ UNCHANGED <<decision, evidence, registry, runtime, work, green, signed>>

\* An unknown parent throws when the lifecycle is at ROLLBACK already.
HandleRegression(e) ==
    /\ life[e] = "ACTIVE"
    /\ Advance(e, <<"REGRESSED", "ROLLBACK">>)
    /\ IF status[ParentOf[e]] = "none" THEN UNCHANGED registry ELSE RollbackTo(ParentOf[e])
    /\ UNCHANGED <<decision, evidence, runtime, work, green, signed>>

Hooks(e) ==
    \/ OutsideCi(e) \/ OutsideReview(e) \/ OutsideAccept(e)
    \/ BeginRework(e) \/ HandleRegression(e)

-----------------------------------------------------------------------------
(* activateOnRuntime and rollbackActive over the manifest of the runtime.   *)
(* switchTo asks git twice and then writes the manifest in one step.        *)

ActiveHarness(h) == IF pointer # Nobody THEN h = pointer ELSE ActiveVersion(h)

Points(t, h) ==
    /\ pointer' = h
    /\ overtaken' = (overtaken \ {t}) \cup
                       {u \in Tasks \ {t} : task[u].stage = "verifying"}
Ends(t) == task' = [task EXCEPT ![t] = Idle]

StartActivation(t, e) ==
    /\ task[t].stage = "idle" /\ life[e] = "ACTIVE"
    /\ task' = [task EXCEPT ![t] = [stage |-> "activating", exp |-> e, from |-> Nobody]]
    /\ UNCHANGED <<experiments, registry, pointer, overtaken, work, green, signed>>

Activated(t) ==
    /\ task[t].stage = "activating"
    /\ Points(t, task[t].exp)
    /\ Ends(t)
    /\ UNCHANGED <<experiments, registry, work, green, signed>>

\* Up to the first await of git: what runs is noted, and the regression reported.
StartRollback(t, e) ==
    /\ task[t].stage = "idle"
    /\ \/ life[e] = "ACTIVE" /\ Advance(e, <<"REGRESSED">>)
       \/ life[e] = "REGRESSED" /\ UNCHANGED <<life, stored>>
    /\ \E h \in Harnesses \cup {Nobody} :
          /\ ActiveHarness(h)
          /\ task' = [task EXCEPT ![t] = [stage |-> "switching", exp |-> e, from |-> h]]
    /\ UNCHANGED <<decision, evidence, registry, pointer, overtaken, work, green, signed>>

Switched(t) ==
    /\ task[t].stage = "switching"
    /\ Points(t, ParentOf[task[t].exp])
    /\ task' = [task EXCEPT ![t].stage = "verifying"]
    /\ UNCHANGED <<experiments, registry, work, green, signed>>

\* git does not know the harness.
\* Mutant: a failed switch is let pass.
Abandons_GoesOn(t) ==
    task' = [task EXCEPT ![t] = IF @.stage = "switching" THEN [@ EXCEPT !.stage = "verifying"]
                                ELSE Idle]
Abandons(t) == Ends(t)
SwitchFails(t) ==
    /\ task[t].stage \in {"activating", "switching", "restoring"}
    /\ Abandons(t)
    /\ UNCHANGED <<experiments, registry, pointer, overtaken, work, green, signed>>

\* The parent is healthy: REGRESSED to ROLLBACK, which throws if another rollback
\* has been here, the registry, which throws if it does not know the parent, and
\* the reactivation.
Completes(t) ==
    LET e == task[t].exp
        h == ParentOf[e]
    IN
    /\ task[t].stage = "verifying"
    /\ Ends(t)
    /\ IF life[e] # "REGRESSED"
       THEN UNCHANGED <<life, stored, registry>>
       ELSE IF status[h] = "none"
       THEN Advance(e, <<"ROLLBACK">>) /\ UNCHANGED registry
       ELSE Advance(e, <<"ROLLBACK", "ACTIVE">>) /\ RollbackTo(h)
    /\ overtaken' = overtaken \ {t}
    /\ UNCHANGED <<decision, evidence, pointer, work, green, signed>>

\* The parent is not: back to what ran before.
Unhealthy(t) ==
    /\ task[t].stage = "verifying"
    /\ task' = [task EXCEPT ![t].stage = "restoring"]
    /\ overtaken' = overtaken \ {t}
    /\ UNCHANGED <<experiments, registry, pointer, work, green, signed>>

Restored(t) ==
    /\ task[t].stage = "restoring" /\ task[t].from # Nobody
    /\ Points(t, task[t].from)
    /\ Ends(t)
    /\ UNCHANGED <<experiments, registry, work, green, signed>>

TaskStep(t) ==
    \/ \E e \in Exps : StartActivation(t, e) \/ StartRollback(t, e)
    \/ Activated(t) \/ Switched(t) \/ SwitchFails(t)
    \/ Completes(t) \/ Unhealthy(t) \/ Restored(t)

Next ==
    \/ \E e \in Exps : CycleStep(e) \/ Hooks(e)
    \/ \E t \in Tasks : TaskStep(t)

Spec == Init /\ [][Next]_vars

-----------------------------------------------------------------------------
\* Whatever is promoted or running was approved by a review after CI had passed,
\* or it is what such a candidate was made from and rolled back to:
\* reports that come late, twice or out of order, hooks that race the cycle, and
\* rollbacks that race each other promote nothing else (state-machine.ts:112-134,
\* engine-v2.ts:731-746).
Earned == signed \cup {ParentOf[e] : e \in signed} \cup {Base}
ServedWasEarned ==
    /\ \A h \in Harnesses : status[h] = "promoted" => h \in Earned
    /\ pointer # Nobody => pointer \in Earned

\* What goes on to CI was found eligible by the selector and the policy, and never
\* with a failed matrix, or without one unless the policy is "optional".  There is
\* one gap: "required-for-production" asks for transfer evidence, but a matrix that
\* passes the gate without any takes the candidate on to CI with the decision
\* "inconclusive" (engine-v2.ts:315-323, 388-390).
PolicyEnforced ==
    \A e \in Exps :
        life[e] \notin {"none", "REJECTED"} =>
            /\ evidence[e] # "failed"
            /\ evidence[e] = "none" => Policy = "optional"
            /\ \/ decision[e] = "eligible"
               \/ /\ decision[e] = "inconclusive" /\ evidence[e] = "held_out"
                  /\ Policy = "required-for-production"

\* The store holds the state of every experiment ("with each transition
\* persisted", experiment-controller.ts:20-22), except that one accepted and never
\* found regressed is still APPROVED there.
StoreKeepsUp ==
    \A e \in Exps :
        \/ stored[e] = life[e]
        \/ stored[e] = "APPROVED" /\ life[e] = "ACTIVE"

\* "A rollback is never reported as complete unless the prior harness is actually
\* running again" (runtime-activation.ts:16-18): so it is, unless another switch
\* of the runtime landed between this one's own switch and its verdict.
RollbackTrue ==
    [][\A t \in Tasks :
        task[t].stage = "verifying" /\ task'[t].stage = "idle"
            => pointer = ParentOf[task[t].exp] \/ t \in overtaken]_vars

\* "The worktree is disposed on every exit path" (engine-v2.ts:489-494): there is
\* one as long as the cycle that made it runs, and none after it, whichever of its
\* stages failed.
WorktreeDies == \A e \in Exps : e \in tree <=> cycle[e] \notin {"idle", "over"}
=============================================================================
