------------------------ MODULE Orchestrator_proofs ------------------------
(***************************************************************************)
(* A plan runs its steps after their dependencies, loses nothing in a      *)
(* crash, runs completed work again only where a revision asks for it,     *)
(* stops at an abort and rolls back dependents first: for every plan,      *)
(* every revision of it, also of completed steps, and any number of        *)
(* sessions, retries and replans.                                          *)
(***************************************************************************)
EXTENDS Orchestrator, SequenceTheorems, TLAPS

\* Steps are queued or run in a batch only.
BatchOnly == \A s \in Steps : stage[s] # "out" => phase = "batch"

\* A step of the batch is not completed, and its dependencies are.
StagedReady ==
    \A s \in Steps : stage[s] # "out" => mem.status[s] # "completed" /\ DependenciesSatisfied(s)

\* Without a checkpoint nobody has asked for a replan.
UnsavedRunsOn == Live /\ disk = NoCheckpoint => ~replanNeeded

\* What this session completed depends on completed steps only, on ones that a
\* revision set back, or, since it was revised itself, on one that is not there.
ExecutedSound ==
    \A i \in 1..Len(executedOrder) :
        \A d \in mem.deps[executedOrder[i]] :
            d = Missing \/ mem.status[d] = "completed" \/ d \in redone

\* No step depends on one that was completed after it, unless that one was
\* completed before and set back.
ExecutedInOrder ==
    \A i, j \in 1..Len(executedOrder) :
        i < j => executedOrder[j] \notin mem.deps[executedOrder[i]] \ redone

\* What a rollback has left to undo is what was completed first, backwards.
UndoesBackwards ==
    phase = "rollback" =>
        /\ Len(undo) <= Len(executedOrder)
        /\ \A i \in 1..Len(undo) : undo[i] = executedOrder[Len(undo) + 1 - i]

BatchInv == TypeOK /\ BatchOnly /\ StagedReady
SavedInv == UnsavedRunsOn /\ CrashLosesNothing
UndoInv == ExecutedSound /\ ExecutedInOrder /\ UndoesBackwards
Inv == BatchInv /\ SavedInv /\ UndoInv

-----------------------------------------------------------------------------
\* A plan with other statuses.
LEMMA WithStatus ==
    ASSUME NEW p \in Plan, NEW st \in [Steps -> StepStatus \cup {"absent"}]
    PROVE  /\ [p EXCEPT !.status = st] \in Plan
           /\ [p EXCEPT !.status = st].status = st
           /\ [p EXCEPT !.status = st].deps = p.deps
           /\ [p EXCEPT !.status = st].retries = p.retries
           /\ [p EXCEPT !.status = st].replanCount = p.replanCount
BY DEF Plan

\* What a resume makes of a plan: the trusted statuses stay, the rest is
\* pending, and doing it twice makes no difference.
LEMMA SanitizedPlan ==
    ASSUME NEW p \in Plan
    PROVE  /\ Sanitized(p) \in Plan
           /\ Sanitized(p).deps = p.deps
           /\ Sanitized(p).retries = p.retries
           /\ Sanitized(p).replanCount = p.replanCount
           /\ \A s \in Steps : Sanitized(p).status[s] =
                  IF p.status[s] \in Trusted THEN p.status[s] ELSE "pending"
           /\ Sanitized(Sanitized(p)) = Sanitized(p)
<1> DEFINE st == [s \in Steps |-> IF p.status[s] \in Trusted THEN p.status[s] ELSE "pending"]
<1>1. st \in [Steps -> StepStatus \cup {"absent"}]
  BY DEF Plan, StepStatus
<1>2. Sanitized(p) = [p EXCEPT !.status = st]
  BY DEF Sanitized
<1>3. /\ Sanitized(p) \in Plan
      /\ Sanitized(p).status = st
      /\ Sanitized(p).deps = p.deps
      /\ Sanitized(p).retries = p.retries
      /\ Sanitized(p).replanCount = p.replanCount
  <2> HIDE DEF st
  <2> QED BY <1>1, <1>2, WithStatus
<1>4. Sanitized(Sanitized(p)) = [Sanitized(p) EXCEPT !.status = st]
  <2>1. st = [s \in Steps |-> IF st[s] \in Trusted THEN st[s] ELSE "pending"]
    OBVIOUS
  <2> QED BY <1>3, <2>1 DEF Sanitized
<1>5. [Sanitized(p) EXCEPT !.status = st] = Sanitized(p)
  BY <1>3 DEF Plan
<1> QED BY <1>3, <1>4, <1>5

\* The plan that an abort leaves.
LEMMA CancelledPlan ==
    ASSUME NEW p \in Plan
    PROVE  /\ CancelRemaining(p) \in Plan
           /\ CancelRemaining(p).deps = p.deps
           /\ \A s \in Steps : CancelRemaining(p).status[s] =
                  IF p.status[s] \in {"pending", "implementing"} THEN "cancelled" ELSE p.status[s]
<1> DEFINE st == [s \in Steps |->
        IF p.status[s] \in {"pending", "implementing"} THEN "cancelled" ELSE p.status[s]]
<1>1. st \in [Steps -> StepStatus \cup {"absent"}]
  BY DEF Plan, StepStatus
<1>2. CancelRemaining(p) = [p EXCEPT !.status = st]
  BY DEF CancelRemaining
<1>3. /\ CancelRemaining(p) \in Plan
      /\ CancelRemaining(p).status = st
      /\ CancelRemaining(p).deps = p.deps
  <2> HIDE DEF st
  <2> QED BY <1>1, <1>2, WithStatus
<1> QED BY <1>3

\* A list read backwards.
LEMMA ReverseList ==
    ASSUME NEW S, NEW q \in Seq(S)
    PROVE  /\ Reverse(q) \in Seq(S)
           /\ Len(Reverse(q)) = Len(q)
           /\ \A i \in 1..Len(q) : Reverse(q)[i] = q[Len(q) + 1 - i]
<1>1. \A i \in 1..Len(q) : (Len(q) - i) + 1 \in 1..Len(q)
  OBVIOUS
<1>2. \A i \in 1..Len(q) : Reverse(q)[i] = q[(Len(q) - i) + 1]
  BY DEF Reverse
<1>3. Reverse(q) \in [1..Len(q) -> S]
  BY <1>1 DEF Reverse
<1>4. Len(q) \in Nat
  OBVIOUS
<1>5. Reverse(q) \in Seq(S) /\ Len(Reverse(q)) = Len(q)
  BY <1>3, <1>4
<1> QED BY <1>2, <1>5

\* One step gets another status.
LEMMA OneStatus ==
    ASSUME NEW p \in Plan, NEW s \in Steps, NEW to \in StepStatus
    PROVE  /\ [p EXCEPT !.status[s] = to] \in Plan
           /\ [p EXCEPT !.status[s] = to].deps = p.deps
           /\ [p EXCEPT !.status[s] = to].retries = p.retries
           /\ [p EXCEPT !.status[s] = to].status = [p.status EXCEPT ![s] = to]
BY DEF Plan

LEMMA RetriedPlan ==
    ASSUME NEW s \in Steps, mem \in Plan
    PROVE  /\ Retried(s) \in Plan
           /\ Retried(s).deps = mem.deps
           /\ Retried(s).status = [mem.status EXCEPT ![s] = "pending"]
<1> DEFINE st == [mem.status EXCEPT ![s] = "pending"]
           re == [mem.retries EXCEPT ![s] = mem.retries[s] + 1]
<1>1. Retried(s) = [mem EXCEPT !.status = st, !.retries = re]
  BY DEF Retried, Plan
<1>2. st \in [Steps -> StepStatus \cup {"absent"}] /\ re \in [Steps -> Nat]
  BY DEF Plan, StepStatus
<1> HIDE DEF st, re
<1>3. Retried(s) \in Plan /\ Retried(s).deps = mem.deps /\ Retried(s).status = st
  BY <1>1, <1>2 DEF Plan
<1> QED BY <1>3 DEF st

\* The plan of a failure: the failed step, and pending steps that are skipped.
LEMMA FailedPlan ==
    ASSUME NEW s \in Steps, mem \in Plan, Fail(s)
    PROVE  /\ mem' \in Plan
           /\ mem'.deps = mem.deps
           /\ mem'.status[s] \in {"failed", "skipped"}
           /\ \A t \in Steps \ {s} :
                  \/ mem'.status[t] = mem.status[t]
                  \/ mem.status[t] = "pending" /\ mem'.status[t] = "skipped"
<1> DEFINE st == [mem.status EXCEPT ![s] = "failed"]
           skipped == Cascaded(st, s)
           new == [t \in Steps |-> IF t \in skipped THEN "skipped" ELSE st[t]]
<1>1. st \in [Steps -> StepStatus \cup {"absent"}]
  BY DEF Plan, StepStatus
<1>2. skipped \subseteq {t \in Steps : st[t] = "pending"}
  BY DEF Cascaded
<1>3. new \in [Steps -> StepStatus \cup {"absent"}]
  BY <1>1 DEF StepStatus
<1>4. mem' = [mem EXCEPT !.status = new]
  BY DEF Fail, Save
<1>5. mem' \in Plan /\ mem'.status = new /\ mem'.deps = mem.deps
  <2> HIDE DEF new
  <2> QED BY <1>3, <1>4, WithStatus
<1>6. st[s] = "failed" /\ \A t \in Steps \ {s} : st[t] = mem.status[t]
  BY DEF Plan
<1>7. \A t \in Steps : new[t] = IF t \in skipped THEN "skipped" ELSE st[t]
  OBVIOUS
<1> HIDE DEF st, skipped, new
<1> QED BY <1>2, <1>5, <1>6, <1>7

\* The plan of a revision: the revised steps are pending, with no dependency that
\* is a step they did not have, and the completed ones among them are set back.
LEMMA RevisedPlan ==
    ASSUME mem \in Plan, Replan
    PROVE  /\ mem' \in Plan
           /\ disk' = mem'
           /\ phase' \in {"threw", "loop"}
           /\ \E R \in SUBSET Steps :
                  /\ redone' = redone \cup {s \in R : mem.status[s] = "completed"}
                  /\ \A s \in R : /\ mem'.status[s] = "pending"
                                  /\ mem'.deps[s] \subseteq mem.deps[s] \cup {Missing}
                  /\ \A s \in Steps \ R : /\ mem'.status[s] = mem.status[s]
                                          /\ mem'.deps[s] = mem.deps[s]
<1>1. PICK R \in SUBSET Steps, free \in SUBSET Steps, broken \in SUBSET Steps :
        /\ free \subseteq R /\ broken \subseteq R
        /\ Save(Revised(R, free, broken))
        /\ phase' \in {"threw", "loop"}
        /\ redone' = redone \cup {s \in R : mem.status[s] = "completed"}
  BY DEF Replan
<1> DEFINE st == [s \in Steps |-> IF s \in R THEN "pending" ELSE mem.status[s]]
           re == [s \in Steps |-> IF s \in R THEN 0 ELSE mem.retries[s]]
           de == [s \in Steps |-> CASE s \in broken -> {Missing}
                                    [] s \in free \ broken -> {}
                                    [] OTHER -> mem.deps[s]]
<1>2. mem' = [mem EXCEPT !.status = st, !.retries = re, !.deps = de] /\ disk' = mem'
  BY <1>1 DEF Save, Revised
<1>3. /\ st \in [Steps -> StepStatus \cup {"absent"}]
      /\ re \in [Steps -> Nat]
  BY DEF Plan, StepStatus
<1>4. de \in [Steps -> SUBSET (Steps \cup {Missing})]
  <2>1. \A s \in Steps : mem.deps[s] \subseteq Steps \cup {Missing}
    BY DEF Plan
  <2> QED BY <2>1
<1>5. \A s \in Steps \ R : st[s] = mem.status[s] /\ de[s] = mem.deps[s]
  BY <1>1
<1>6. \A s \in R : s \in Steps /\ st[s] = "pending" /\ de[s] \subseteq mem.deps[s] \cup {Missing}
  OBVIOUS
<1>7. mem' \in Plan /\ mem'.status = st /\ mem'.deps = de
  <2> HIDE DEF st, re, de
  <2> QED BY <1>2, <1>3, <1>4 DEF Plan
<1> HIDE DEF st, re, de
<1> QED BY <1>1, <1>2, <1>5, <1>6, <1>7

-----------------------------------------------------------------------------
\* The steps that save a new plan.
Saves ==
    \/ \E s \in Steps : Start(s) \/ Succeed(s) \/ CutShort(s) \/ Retry(s) \/ Fail(s)
    \/ LoopAborted
    \/ BatchAborted
    \/ Replan

\* The steps that leave the plan and its checkpoint alone, or drop the latter.
Keeps ==
    \/ \E s \in Steps : BailOut(s)
    \/ ScheduleBatch \/ LoopFailed \/ LoopDone \/ BatchContinue \/ PlannerThrows
    \/ Rollback \/ RollbackOver \/ Abort \/ Crash

LEMMA NextSplit == Next <=> Saves \/ Keeps \/ BatchReplan \/ Resume
BY DEF Next, Saves, Keeps

LEMMA CountedPlan ==
    ASSUME mem \in Plan, BatchReplan
    PROVE  /\ mem' \in Plan
           /\ mem'.status = mem.status
           /\ mem'.deps = mem.deps
           /\ mem'.retries = mem.retries
BY DEF BatchReplan, Plan

\* What a step saves is a plan: it is well formed, and only a planner takes a
\* completed step back or changes what a step depends on.
LEMMA SavesPlan ==
    ASSUME BatchInv, Saves
    PROVE  /\ mem' \in Plan
           /\ disk' = mem'
           /\ phase # "replan" =>
                  /\ \A s \in Steps : mem.status[s] = "completed" => mem'.status[s] = "completed"
                  /\ mem'.deps = mem.deps
                  /\ redone' = redone
<1> USE DEF BatchInv, TypeOK
<1>1. ASSUME NEW s \in Steps, Start(s)
      PROVE  /\ mem' \in Plan /\ disk' = mem' /\ mem'.deps = mem.deps
             /\ mem'.status = [mem.status EXCEPT ![s] = "implementing"]
             /\ mem.status[s] # "completed"
  <2>1. mem' = [mem EXCEPT !.status[s] = "implementing"] /\ disk' = mem'
    BY <1>1 DEF Start, Save
  <2>2. mem.status[s] # "completed"
    BY <1>1 DEF Start, Leased, StagedReady
  <2>3. "implementing" \in StepStatus
    BY DEF StepStatus
  <2> QED BY <2>1, <2>2, <2>3, OneStatus
<1>2. ASSUME NEW s \in Steps, Succeed(s)
      PROVE  /\ mem' \in Plan /\ disk' = mem' /\ mem'.deps = mem.deps
             /\ mem'.status = [mem.status EXCEPT ![s] = "completed"]
  <2>1. mem' = [mem EXCEPT !.status[s] = "completed"] /\ disk' = mem'
    BY <1>2 DEF Succeed, Save
  <2>2. "completed" \in StepStatus
    BY DEF StepStatus
  <2> QED BY <2>1, <2>2, OneStatus
<1>3. ASSUME NEW s \in Steps, CutShort(s)
      PROVE  /\ mem' \in Plan /\ disk' = mem' /\ mem'.deps = mem.deps
             /\ mem'.status = [mem.status EXCEPT ![s] = "cancelled"]
             /\ mem.status[s] # "completed"
  <2>1. mem' = [mem EXCEPT !.status[s] = "cancelled"] /\ disk' = mem'
    BY <1>3 DEF CutShort, Save
  <2>2. mem.status[s] # "completed"
    BY <1>3 DEF CutShort, StagedReady
  <2>3. "cancelled" \in StepStatus
    BY DEF StepStatus
  <2> QED BY <2>1, <2>2, <2>3, OneStatus
<1>4. ASSUME NEW s \in Steps, Retry(s)
      PROVE  /\ mem' \in Plan /\ disk' = mem' /\ mem'.deps = mem.deps
             /\ mem'.status = [mem.status EXCEPT ![s] = "pending"]
             /\ mem.status[s] # "completed"
  <2>1. mem' = Retried(s) /\ disk' = mem'
    BY <1>4 DEF Retry, Save
  <2>2. mem.status[s] # "completed"
    BY <1>4 DEF Retry, StagedReady
  <2> QED BY <2>1, <2>2, RetriedPlan
<1>5. ASSUME NEW s \in Steps, Fail(s)
      PROVE  disk' = mem' /\ mem.status[s] # "completed"
  <2>1. disk' = mem'
    BY <1>5 DEF Fail, Save
  <2> QED BY <1>5, <2>1 DEF Fail, StagedReady
<1>6. ASSUME LoopAborted \/ BatchAborted
      PROVE  mem' = CancelRemaining(mem) /\ disk' = mem'
  BY <1>6 DEF LoopAborted, BatchAborted, Save
<1>7. ASSUME Replan PROVE phase = "replan"
  BY <1>7 DEF Replan
<1>8. /\ mem.status \in [Steps -> StepStatus \cup {"absent"}]
      /\ phase # "replan" => redone' = redone
  BY DEF Plan, Saves, Start, Succeed, CutShort, Retry, Fail, LoopAborted, BatchAborted, Replan
<1> USE <1>8
<1>9. CASE \E s \in Steps : Start(s)
  BY <1>1, <1>9
<1>10. CASE \E s \in Steps : Succeed(s)
  BY <1>2, <1>10
<1>11. CASE \E s \in Steps : CutShort(s)
  BY <1>3, <1>11
<1>12. CASE \E s \in Steps : Retry(s)
  BY <1>4, <1>12
<1>13. CASE \E s \in Steps : Fail(s)
  BY <1>5, <1>13, FailedPlan
<1>14. CASE LoopAborted \/ BatchAborted
  BY <1>6, <1>14, CancelledPlan
<1>15. CASE Replan
  BY <1>7, <1>15, RevisedPlan
<1> QED BY <1>9, <1>10, <1>11, <1>12, <1>13, <1>14, <1>15 DEF Saves

LEMMA KeepsPlan ==
    ASSUME Keeps
    PROVE  mem' = mem /\ disk' \in {disk, NoCheckpoint}
BY DEF Keeps, BailOut, ScheduleBatch, LoopFailed, LoopDone, BatchContinue, PlannerThrows,
       Rollback, RollbackOver, Abort, Crash

LEMMA ResumesPlan ==
    ASSUME TypeOK, Resume
    PROVE  disk \in Plan /\ mem' = Sanitized(disk) /\ mem' \in Plan /\ disk' = disk
BY SanitizedPlan DEF Resume, TypeOK

LEMMA BatchInit == Init => BatchInv
<1> SUFFICES ASSUME Init PROVE BatchInv
  OBVIOUS
<1>1. mem \in Plan
  BY OrchestratorAssumption DEF Init, Plan, StepStatus
<1>2. TypeOK
  <2>1. 1 \in 1..MaxSessions
    BY OrchestratorAssumption
  <2>2. executedOrder \in Seq(Steps) /\ undo \in Seq(Steps)
    BY DEF Init
  <2> QED BY <1>1, <2>1, <2>2 DEF Init, TypeOK
<1> QED BY <1>2 DEF Init, BatchInv, BatchOnly, StagedReady

LEMMA TypeStep ==
    ASSUME BatchInv, [Next]_vars
    PROVE  TypeOK'
<1> USE DEF BatchInv, TypeOK
<1>1. ASSUME Saves PROVE TypeOK'
  <2>1. mem' \in Plan /\ disk' \in Plan
    BY <1>1, SavesPlan
  <2>2. ASSUME NEW s \in Steps, Start(s) \/ CutShort(s) \/ Retry(s) \/ Fail(s) PROVE TypeOK'
    BY <2>1, <2>2 DEF Start, CutShort, Retry, Fail
  <2>3. ASSUME NEW s \in Steps, Succeed(s) PROVE TypeOK'
    <3>1. executedOrder' \in Seq(Steps)
      BY <2>3 DEF Succeed
    <3> QED BY <2>1, <2>3, <3>1 DEF Succeed
  <2>4. CASE LoopAborted \/ BatchAborted
    BY <2>1, <2>4 DEF LoopAborted, BatchAborted
  <2>5. CASE Replan
    <3>1. phase' \in {"threw", "loop"}
      BY <2>5, RevisedPlan
    <3>2. UNCHANGED <<stage, replanNeeded, executedOrder, undo, aborted, sessions, effect>>
      BY <2>5 DEF Replan
    <3>3. redone' \subseteq Steps
      BY <2>5, RevisedPlan
    <3> QED BY <2>1, <3>1, <3>2, <3>3
  <2> QED BY <1>1, <2>2, <2>3, <2>4, <2>5 DEF Saves
<1>2. ASSUME Keeps PROVE TypeOK'
  <2>1. mem' \in Plan /\ disk' \in Plan \cup {NoCheckpoint}
    BY <1>2, KeepsPlan
  <2>2. CASE \E s \in Steps : BailOut(s)
    BY <2>1, <2>2 DEF BailOut
  <2>3. CASE ScheduleBatch \/ LoopDone \/ BatchContinue \/ PlannerThrows
    BY <2>1, <2>3 DEF ScheduleBatch, LoopDone, BatchContinue, PlannerThrows
  <2>4. CASE LoopFailed
    <3>1. undo' \in Seq(Steps)
      BY <2>4, ReverseList DEF LoopFailed, UndoOrder
    <3> QED BY <2>1, <2>4, <3>1 DEF LoopFailed
  <2>5. CASE Rollback
    <3>1. undo' \in Seq(Steps) /\ effect' \subseteq Steps
      BY <2>5 DEF Rollback
    <3> QED BY <2>1, <2>5, <3>1 DEF Rollback
  <2>6. CASE RollbackOver \/ Abort \/ Crash
    BY <2>1, <2>6 DEF RollbackOver, Abort, Crash
  <2> QED BY <1>2, <2>2, <2>3, <2>4, <2>5, <2>6 DEF Keeps
<1>3. ASSUME BatchReplan PROVE TypeOK'
  BY <1>3, CountedPlan DEF BatchReplan
<1>4. ASSUME Resume PROVE TypeOK'
  <2>1. mem' \in Plan /\ disk' \in Plan
    BY <1>4, ResumesPlan
  <2>2. sessions' \in 1..MaxSessions
    BY <1>4, OrchestratorAssumption DEF Resume
  <2>3. executedOrder' \in Seq(Steps) /\ undo' \in Seq(Steps)
    BY <1>4 DEF Resume
  <2> QED BY <1>4, <2>1, <2>2, <2>3 DEF Resume
<1>5. ASSUME UNCHANGED vars PROVE TypeOK'
  BY <1>5 DEF vars
<1> QED BY <1>1, <1>2, <1>3, <1>4, <1>5, NextSplit

\* A step of the batch keeps its dependencies completed.
LEMMA BatchStep ==
    ASSUME BatchInv, [Next]_vars
    PROVE  BatchInv'
<1> USE DEF BatchInv
<1>1. TypeOK'
  BY TypeStep
<1>2. ASSUME Saves PROVE BatchOnly' /\ StagedReady'
  <2>1. phase # "replan" =>
            /\ \A s \in Steps : mem.status[s] = "completed" => mem'.status[s] = "completed"
            /\ mem'.deps = mem.deps
    BY <1>2, SavesPlan
  <2>2. ASSUME NEW s \in Steps, Start(s) PROVE BatchOnly' /\ StagedReady'
    <3>1. /\ stage' = [stage EXCEPT ![s] = "running"]
          /\ mem' = [mem EXCEPT !.status[s] = "implementing"]
          /\ stage[s] = "queued" /\ UNCHANGED phase
      BY <2>2 DEF Start, Leased, Save
    <3>2. phase = "batch"
      BY <3>1 DEF BatchOnly
    <3>3. \A t \in Steps : stage'[t] # "out" =>
              stage[t] # "out" /\ (t = s \/ mem'.status[t] = mem.status[t])
      BY <3>1 DEF TypeOK, Plan
    <3>4. mem'.status[s] = "implementing"
      BY <3>1 DEF TypeOK, Plan
    <3> QED BY <2>1, <3>1, <3>2, <3>3, <3>4 DEF BatchOnly, StagedReady, DependenciesSatisfied
  <2>3. ASSUME NEW s \in Steps, Succeed(s) \/ CutShort(s) \/ Retry(s) \/ Fail(s)
        PROVE BatchOnly' /\ StagedReady'
    <3>1. /\ stage' = [stage EXCEPT ![s] = "out"] /\ stage[s] = "running" /\ UNCHANGED phase
      BY <2>3 DEF Succeed, CutShort, Retry, Fail
    <3>2. phase = "batch"
      BY <3>1 DEF BatchOnly
    <3>3. \A t \in Steps : stage'[t] # "out" => stage[t] # "out" /\ t # s
      BY <3>1 DEF TypeOK
    <3>4. \A t \in Steps \ {s} :
              mem'.status[t] = mem.status[t] \/ mem'.status[t] # "completed"
      <4>1. CASE Fail(s)
        BY <4>1, FailedPlan DEF TypeOK
      <4>2. CASE Succeed(s) \/ CutShort(s)
        BY <4>2 DEF Succeed, CutShort, Save, TypeOK, Plan
      <4>3. CASE Retry(s)
        <5>1. mem' = Retried(s) /\ mem \in Plan
          BY <4>3 DEF Retry, Save, TypeOK
        <5>2. mem'.status = [mem.status EXCEPT ![s] = "pending"]
          BY <5>1, RetriedPlan
        <5> QED BY <5>1, <5>2 DEF Plan
      <4> QED BY <2>3, <4>1, <4>2, <4>3
    <3> QED BY <2>1, <3>1, <3>2, <3>3, <3>4 DEF BatchOnly, StagedReady, DependenciesSatisfied
  <2>4. ASSUME LoopAborted \/ BatchAborted \/ Replan PROVE BatchOnly' /\ StagedReady'
    <3>1. stage' = stage /\ \A s \in Steps : stage[s] = "out"
      BY <2>4 DEF LoopAborted, BatchAborted, Replan, BatchOver, BatchOnly
    <3> QED BY <3>1 DEF BatchOnly, StagedReady
  <2> QED BY <1>2, <2>2, <2>3, <2>4 DEF Saves
<1>3. ASSUME Keeps PROVE BatchOnly' /\ StagedReady'
  <2>1. mem' = mem
    BY <1>3, KeepsPlan
  <2>2. CASE ScheduleBatch
    <3>1. phase' = "batch" /\ stage' = [s \in Steps |-> IF s \in Ready THEN "queued" ELSE "out"]
      BY <2>2 DEF ScheduleBatch
    <3>2. \A s \in Steps : stage'[s] # "out" => s \in Ready
      BY <3>1
    <3> QED BY <2>1, <3>1, <3>2 DEF BatchOnly, StagedReady, Ready, DependenciesSatisfied
  <2>3. CASE \E s \in Steps : BailOut(s)
    <3>1. PICK s \in Steps : BailOut(s)
      BY <2>3
    <3>2. stage' = [stage EXCEPT ![s] = "out"] /\ UNCHANGED phase
      BY <3>1 DEF BailOut
    <3>3. \A t \in Steps : stage'[t] # "out" => stage[t] # "out"
      BY <3>2 DEF TypeOK
    <3> QED BY <2>1, <3>2, <3>3 DEF BatchOnly, StagedReady, DependenciesSatisfied
  <2>4. CASE Abort
    <3>1. UNCHANGED <<stage, phase>>
      BY <2>4 DEF Abort
    <3> QED BY <2>1, <3>1 DEF BatchOnly, StagedReady, DependenciesSatisfied
  <2>5. ASSUME LoopFailed \/ LoopDone \/ BatchContinue \/ PlannerThrows \/ Rollback
               \/ RollbackOver \/ Crash
        PROVE BatchOnly' /\ StagedReady'
    <3>1. \A s \in Steps : stage'[s] = "out"
      BY <2>5 DEF LoopFailed, LoopDone, BatchContinue, PlannerThrows, Rollback, RollbackOver,
                  Crash, BatchOver, BatchOnly
    <3> QED BY <3>1 DEF BatchOnly, StagedReady
  <2> QED BY <1>3, <2>2, <2>3, <2>4, <2>5 DEF Keeps
<1>4. ASSUME BatchReplan \/ Resume PROVE BatchOnly' /\ StagedReady'
  <2>1. \A s \in Steps : stage'[s] = "out"
    BY <1>4 DEF BatchReplan, Resume, Live, BatchOver, BatchOnly
  <2> QED BY <2>1 DEF BatchOnly, StagedReady
<1>5. ASSUME UNCHANGED vars PROVE BatchOnly' /\ StagedReady'
  BY <1>5 DEF vars, BatchOnly, StagedReady, DependenciesSatisfied
<1> QED BY <1>1, <1>2, <1>3, <1>4, <1>5, NextSplit

-----------------------------------------------------------------------------
\* What a resume would make of a plan.
Kept(p) == [Sanitized(p) EXCEPT !.replanCount = 0]

LEMMA CrashLosesNothingKept ==
    CrashLosesNothing <=>
        (Live => IF disk = NoCheckpoint THEN Kept(mem) = mem ELSE Kept(disk) = Kept(mem))
BY DEF CrashLosesNothing, Kept

LEMMA KeptPlan ==
    ASSUME NEW p \in Plan
    PROVE  /\ Kept(p).status = Sanitized(p).status
           /\ Kept(Sanitized(p)) = Kept(p)
           /\ \A s \in Steps : Kept(p).status[s] = "completed" <=> p.status[s] = "completed"
<1>1. Sanitized(p) \in Plan
  BY SanitizedPlan
<1>2. Kept(p).status = Sanitized(p).status
  BY <1>1 DEF Kept, Plan
<1>3. \A s \in Steps : Sanitized(p).status[s] = "completed" <=> p.status[s] = "completed"
  BY SanitizedPlan DEF Trusted
<1> QED BY <1>2, <1>3, SanitizedPlan DEF Kept

LEMMA CountIsApart ==
    ASSUME mem \in Plan, BatchReplan
    PROVE  Kept(mem') = Kept(mem)
<1>1. mem' = [mem EXCEPT !.replanCount = mem.replanCount + 1]
  BY DEF BatchReplan
<1>2. /\ Sanitized(mem) \in Plan /\ Sanitized(mem') \in Plan
      /\ Sanitized(mem').deps = Sanitized(mem).deps
      /\ Sanitized(mem').retries = Sanitized(mem).retries
  BY CountedPlan, SanitizedPlan
<1>3. Sanitized(mem').status = Sanitized(mem).status
  <2>1. mem'.status = mem.status
    BY CountedPlan
  <2>2. \A s \in Steps : Sanitized(mem').status[s] = Sanitized(mem).status[s]
    BY <2>1, CountedPlan, SanitizedPlan
  <2> QED BY <1>2, <2>2 DEF Plan
<1> QED BY <1>2, <1>3 DEF Kept, Plan

LEMMA SavedInit == Init => SavedInv
<1> SUFFICES ASSUME Init PROVE SavedInv
  OBVIOUS
<1>1. mem \in Plan
  BY BatchInit DEF BatchInv, TypeOK
<1>2. \A s \in Steps : mem.status[s] \in {"pending", "absent"}
  BY DEF Init
<1>3. Sanitized(mem).status = mem.status
  <2>1. \A s \in Steps : Sanitized(mem).status[s] = mem.status[s]
    BY <1>1, <1>2, SanitizedPlan DEF Trusted
  <2>2. Sanitized(mem) \in Plan
    BY <1>1, SanitizedPlan
  <2> QED BY <1>1, <2>1, <2>2 DEF Plan
<1>4. mem.replanCount = 0
  BY DEF Init
<1>5. Kept(mem) = mem
  BY <1>1, <1>3, <1>4, SanitizedPlan DEF Kept, Plan
<1> QED BY <1>5, CrashLosesNothingKept DEF Init, SavedInv, UnsavedRunsOn

\* The plan in memory changes together with the checkpoint, but for the count
\* of replans.
LEMMA SavedStep ==
    ASSUME BatchInv, SavedInv, [Next]_vars
    PROVE  SavedInv'
<1> USE DEF SavedInv
<1>1. mem \in Plan
  BY DEF BatchInv, TypeOK
<1>2. Live => IF disk = NoCheckpoint THEN Kept(mem) = mem ELSE Kept(disk) = Kept(mem)
  BY CrashLosesNothingKept
<1>3. SUFFICES /\ UnsavedRunsOn'
               /\ Live' => IF disk' = NoCheckpoint THEN Kept(mem)' = mem'
                                                   ELSE Kept(disk)' = Kept(mem)'
  BY CrashLosesNothingKept DEF CrashLosesNothing, Kept, Sanitized
<1>4. CASE Saves
  <2>1. disk' = mem' /\ mem' \in Plan
    BY <1>4, SavesPlan
  <2>2. disk' # NoCheckpoint
    BY <2>1, NoCheckpointAssumption
  <2> QED BY <2>1, <2>2 DEF UnsavedRunsOn
<1>5. CASE Keeps
  <2>1. mem' = mem
    BY <1>5, KeepsPlan
  <2>2. CASE LoopDone \/ RollbackOver \/ PlannerThrows \/ Crash
    <3>1. ~ Live'
      BY <2>2 DEF LoopDone, RollbackOver, PlannerThrows, Crash, Live
    <3> QED BY <3>1 DEF UnsavedRunsOn
  <2>3. CASE \E s \in Steps : BailOut(s)
    <3>1. UNCHANGED <<disk, phase, replanNeeded>>
      BY <2>3 DEF BailOut
    <3> QED BY <1>2, <2>1, <3>1 DEF UnsavedRunsOn, Kept, Live
  <2>4. CASE ScheduleBatch
    <3>1. disk' = disk /\ Live /\ ~replanNeeded'
      BY <2>4 DEF ScheduleBatch, Live
    <3> QED BY <1>2, <2>1, <3>1 DEF UnsavedRunsOn, Kept
  <2>5. CASE LoopFailed \/ BatchContinue \/ Rollback \/ Abort
    <3>1. UNCHANGED <<disk, replanNeeded>> /\ Live
      BY <2>5 DEF LoopFailed, BatchContinue, BatchOver, Rollback, Abort, Live
    <3> QED BY <1>2, <2>1, <3>1 DEF UnsavedRunsOn, Kept
  <2> QED BY <1>5, <2>2, <2>3, <2>4, <2>5 DEF Keeps
<1>6. CASE BatchReplan
  <2>1. disk' = disk /\ replanNeeded /\ Live
    BY <1>6 DEF BatchReplan, BatchOver, Live
  <2>2. disk # NoCheckpoint
    BY <2>1 DEF UnsavedRunsOn
  <2>3. Kept(mem)' = Kept(mem)
    BY <1>1, <1>6, CountIsApart DEF Kept, Sanitized
  <2> QED BY <1>2, <2>1, <2>2, <2>3 DEF UnsavedRunsOn, Kept, Sanitized
<1>7. CASE Resume
  <2>1. disk' = disk /\ disk # NoCheckpoint
    BY <1>7 DEF Resume
  <2>2. disk \in Plan /\ mem' = Sanitized(disk)
    BY <1>7, ResumesPlan DEF BatchInv
  <2>3. Kept(mem') = Kept(disk)
    BY <2>2, KeptPlan
  <2>4. Kept(mem)' = Kept(mem') /\ Kept(disk)' = Kept(disk)
    BY <2>1 DEF Kept, Sanitized
  <2>5. ~replanNeeded'
    BY <1>7 DEF Resume
  <2> QED BY <2>1, <2>3, <2>4, <2>5 DEF UnsavedRunsOn
<1>8. CASE UNCHANGED vars
  BY <1>2, <1>8 DEF vars, UnsavedRunsOn, Live, Kept, Sanitized
<1> QED BY <1>4, <1>5, <1>6, <1>7, <1>8, NextSplit

-----------------------------------------------------------------------------
LEMMA UndoInit == Init => UndoInv
BY DEF Init, UndoInv, ExecutedSound, ExecutedInOrder, UndoesBackwards

\* Completed steps stay completed or are set back, and no step gets a dependency
\* on another, so that the list of a session stays sound and in order.
LEMMA ListKept ==
    ASSUME BatchInv, ExecutedSound, ExecutedInOrder, executedOrder' = executedOrder,
           redone \subseteq redone',
           \A s \in Steps : mem'.deps[s] \subseteq mem.deps[s] \cup {Missing},
           \A s \in Steps :
               mem.status[s] = "completed" => mem'.status[s] = "completed" \/ s \in redone'
    PROVE  ExecutedSound' /\ ExecutedInOrder'
<1>1. \A i \in 1..Len(executedOrder) : executedOrder[i] \in Steps
  BY DEF BatchInv, TypeOK
<1>2. \A s \in Steps : mem.deps[s] \subseteq Steps \cup {Missing}
  BY DEF BatchInv, TypeOK, Plan
<1>3. ExecutedSound'
  <2> SUFFICES ASSUME NEW i \in 1..Len(executedOrder), NEW d \in mem'.deps[executedOrder[i]],
                      d # Missing
               PROVE  mem'.status[d] = "completed" \/ d \in redone'
    BY DEF ExecutedSound
  <2>1. d \in mem.deps[executedOrder[i]] /\ d \in Steps
    BY <1>1, <1>2
  <2>2. mem.status[d] = "completed" \/ d \in redone
    BY <2>1 DEF ExecutedSound
  <2> QED BY <2>1, <2>2
<1>4. ExecutedInOrder'
  <2> SUFFICES ASSUME NEW i \in 1..Len(executedOrder), NEW j \in 1..Len(executedOrder), i < j
               PROVE  executedOrder[j] \notin mem'.deps[executedOrder[i]] \ redone'
    BY DEF ExecutedInOrder
  <2>1. executedOrder[j] # Missing
    BY <1>1, OrchestratorAssumption
  <2>2. executedOrder[j] \notin mem.deps[executedOrder[i]] \ redone
    BY DEF ExecutedInOrder
  <2> QED BY <1>1, <2>1, <2>2
<1> QED BY <1>3, <1>4

\* A step that completes is appended: those before it had their dependencies
\* completed or set back already, and it was not completed.
LEMMA ListGrows ==
    ASSUME BatchInv, ExecutedSound, ExecutedInOrder, NEW s \in Steps, Succeed(s)
    PROVE  ExecutedSound' /\ ExecutedInOrder'
<1> DEFINE n == Len(executedOrder)
<1>1. executedOrder \in Seq(Steps) /\ n \in Nat
  BY DEF BatchInv, TypeOK
<1>2. executedOrder' = Append(executedOrder, s) /\ redone' = redone
  BY DEF Succeed
<1>3. /\ Len(executedOrder') = n + 1
      /\ executedOrder'[n + 1] = s
      /\ \A i \in 1..n : executedOrder'[i] = executedOrder[i] /\ executedOrder[i] \in Steps
  BY <1>1, <1>2
<1>4. /\ mem'.status = [mem.status EXCEPT ![s] = "completed"]
      /\ mem'.deps = mem.deps
      /\ mem.status \in [Steps -> StepStatus \cup {"absent"}]
      /\ \A t \in Steps : mem.deps[t] \subseteq Steps \cup {Missing}
  BY DEF Succeed, Save, BatchInv, TypeOK, Plan
<1>5. mem.status[s] # "completed" /\ DependenciesSatisfied(s)
  BY DEF Succeed, BatchInv, StagedReady
<1>6. \A t \in Steps : mem.status[t] = "completed" => mem'.status[t] = "completed"
  BY <1>4
<1>7. \A i \in 1..n : s \notin mem.deps[executedOrder[i]] \ redone
  BY <1>5, OrchestratorAssumption DEF ExecutedSound
<1> HIDE DEF n
<1>8. \A i \in 1..(n + 1) : i = n + 1 \/ i \in 1..n
  BY <1>1
<1>9. ExecutedSound'
  <2>1. ASSUME NEW i \in 1..n, NEW d \in mem.deps[executedOrder[i]]
        PROVE  d = Missing \/ mem'.status[d] = "completed" \/ d \in redone
    <3>1. d = Missing \/ mem.status[d] = "completed" \/ d \in redone
      BY <2>1 DEF ExecutedSound, n
    <3>2. d = Missing \/ d \in Steps
      BY <1>3, <1>4
    <3> QED BY <1>6, <3>1, <3>2
  <2>2. \A d \in mem.deps[s] : mem'.status[d] = "completed"
    BY <1>5, <1>6 DEF DependenciesSatisfied
  <2>3. ASSUME NEW i \in 1..(n + 1), NEW d \in mem.deps[executedOrder'[i]]
        PROVE  d = Missing \/ mem'.status[d] = "completed" \/ d \in redone
    <3>1. CASE i = n + 1
      BY <1>3, <2>2, <3>1
    <3>2. CASE i \in 1..n
      BY <1>3, <2>1, <3>2
    <3> QED BY <1>8, <3>1, <3>2
  <2> QED BY <1>2, <1>3, <1>4, <2>3 DEF ExecutedSound
<1>10. ExecutedInOrder'
  <2>1. ASSUME NEW i \in 1..(n + 1), NEW j \in 1..(n + 1), i < j
        PROVE  executedOrder'[j] \notin mem'.deps[executedOrder'[i]] \ redone
    <3>1. i \in 1..n
      BY <1>1, <2>1
    <3>2. CASE j = n + 1
      BY <1>3, <1>4, <1>7, <3>1, <3>2
    <3>3. CASE j \in 1..n
      BY <1>3, <1>4, <2>1, <3>1, <3>3 DEF ExecutedInOrder, n
    <3> QED BY <1>8, <3>2, <3>3
  <2> QED BY <1>2, <1>3, <2>1 DEF ExecutedInOrder
<1> QED BY <1>9, <1>10

LEMMA UndoStep ==
    ASSUME BatchInv, UndoInv, [Next]_vars
    PROVE  UndoInv'
<1> USE DEF UndoInv
<1>1. ASSUME NEW s \in Steps, Succeed(s) PROVE UndoInv'
  <2>1. phase' # "rollback"
    <3>1. phase' = phase /\ phase = "batch"
      BY <1>1 DEF Succeed, BatchInv, BatchOnly
    <3> QED BY <3>1
  <2> QED BY <1>1, <2>1, ListGrows DEF UndoesBackwards
<1>2. ASSUME Saves, ~ \E s \in Steps : Succeed(s) PROVE UndoInv'
  <2>1. executedOrder' = executedOrder
    BY <1>2 DEF Saves, Start, CutShort, Retry, Fail, LoopAborted, BatchAborted, Replan
  <2>2. phase' # "rollback"
    <3>1. CASE \E s \in Steps : Start(s) \/ CutShort(s) \/ Retry(s) \/ Fail(s)
      <4>1. PICK s \in Steps : Start(s) \/ CutShort(s) \/ Retry(s) \/ Fail(s)
        BY <3>1
      <4>2. phase' = phase /\ stage[s] # "out"
        BY <4>1 DEF Start, Leased, CutShort, Retry, Fail
      <4> QED BY <4>2 DEF BatchInv, BatchOnly
    <3>2. CASE LoopAborted \/ BatchAborted
      BY <3>2 DEF LoopAborted, BatchAborted
    <3>3. CASE Replan
      BY <3>3, RevisedPlan DEF BatchInv, TypeOK
    <3> QED BY <1>2, <3>1, <3>2, <3>3 DEF Saves
  <2>3. /\ redone \subseteq redone'
        /\ \A s \in Steps : mem'.deps[s] \subseteq mem.deps[s] \cup {Missing}
        /\ \A s \in Steps :
               mem.status[s] = "completed" => mem'.status[s] = "completed" \/ s \in redone'
    <3>1. CASE Replan
      BY <3>1, RevisedPlan DEF BatchInv, TypeOK
    <3>2. CASE ~Replan
      <4>1. phase # "replan"
        BY <1>2, <3>2 DEF Saves, Start, Leased, CutShort, Retry, Fail, LoopAborted,
                          BatchAborted, BatchOver, BatchInv, BatchOnly
      <4> QED BY <1>2, <4>1, SavesPlan
    <3> QED BY <3>1, <3>2
  <2> QED BY <2>1, <2>2, <2>3, ListKept DEF UndoesBackwards
<1>3. ASSUME Keeps PROVE UndoInv'
  <2>1. mem' = mem
    BY <1>3, KeepsPlan
  <2>2. executedOrder' = executedOrder
    BY <1>3 DEF Keeps, BailOut, ScheduleBatch, LoopFailed, LoopDone, BatchContinue,
                PlannerThrows, Rollback, RollbackOver, Abort, Crash
  <2>3. redone' = redone
    BY <1>3 DEF Keeps, BailOut, ScheduleBatch, LoopFailed, LoopDone, BatchContinue,
                PlannerThrows, Rollback, RollbackOver, Abort, Crash
  <2>4. UndoesBackwards'
    <3>1. CASE LoopFailed
      <4>1. undo' = Reverse(executedOrder) /\ executedOrder \in Seq(Steps)
        BY <3>1 DEF LoopFailed, UndoOrder, BatchInv, TypeOK
      <4>2. /\ Len(undo') = Len(executedOrder)
            /\ \A i \in 1..Len(executedOrder) :
                   undo'[i] = executedOrder[Len(executedOrder) + 1 - i]
        BY <4>1, ReverseList
      <4> QED BY <2>2, <4>1, <4>2 DEF UndoesBackwards
    <3>2. CASE Rollback
      <4>1. /\ undo \in Seq(Steps) /\ undo # <<>> /\ undo' = Tail(undo) /\ phase = "rollback"
            /\ executedOrder \in Seq(Steps)
        BY <3>2 DEF Rollback, BatchInv, TypeOK
      <4>2. Len(undo') = Len(undo) - 1 /\ Len(undo) \in Nat
        BY <4>1
      <4>3. \A i \in 1..Len(undo') : undo'[i] = undo[i + 1]
        BY <4>1
      <4>4. Len(undo) <= Len(executedOrder) /\ Len(executedOrder) \in Nat
        BY <4>1 DEF UndoesBackwards
      <4>5. ASSUME NEW i \in 1..Len(undo')
            PROVE  undo'[i] = executedOrder[Len(undo') + 1 - i]
        <5>1. i + 1 \in 1..Len(undo) /\ Len(undo) + 1 - (i + 1) = Len(undo') + 1 - i
          BY <4>2
        <5>2. undo[i + 1] = executedOrder[Len(undo) + 1 - (i + 1)]
          BY <4>1, <5>1 DEF UndoesBackwards
        <5> QED BY <4>3, <5>1, <5>2
      <4> QED BY <2>2, <4>2, <4>4, <4>5 DEF UndoesBackwards
    <3>3. CASE Abort \/ \E s \in Steps : BailOut(s)
      <4>1. UNCHANGED <<phase, undo>>
        BY <3>3 DEF Abort, BailOut
      <4> QED BY <2>2, <4>1 DEF UndoesBackwards
    <3>4. CASE ScheduleBatch \/ LoopDone \/ BatchContinue \/ PlannerThrows \/ RollbackOver \/ Crash
      <4>1. phase' # "rollback"
        BY <3>4 DEF ScheduleBatch, LoopDone, BatchContinue, PlannerThrows, RollbackOver, Crash
      <4> QED BY <4>1 DEF UndoesBackwards
    <3> QED BY <1>3, <3>1, <3>2, <3>3, <3>4 DEF Keeps
  <2> QED BY <2>1, <2>2, <2>3, <2>4, ListKept
<1>4. ASSUME BatchReplan PROVE UndoInv'
  <2>1. executedOrder' = executedOrder /\ redone' = redone /\ phase' # "rollback"
    BY <1>4 DEF BatchReplan
  <2>2. mem'.status = mem.status /\ mem'.deps = mem.deps
    BY <1>4, CountedPlan DEF BatchInv, TypeOK
  <2> QED BY <2>1, <2>2, ListKept DEF UndoesBackwards
<1>5. ASSUME Resume PROVE UndoInv'
  <2>1. executedOrder' = <<>> /\ phase' # "rollback"
    BY <1>5 DEF Resume
  <2> QED BY <2>1 DEF ExecutedSound, ExecutedInOrder, UndoesBackwards
<1>6. ASSUME UNCHANGED vars PROVE UndoInv'
  BY <1>6 DEF vars, ExecutedSound, ExecutedInOrder, UndoesBackwards, DependenciesSatisfied
<1> QED BY <1>1, <1>2, <1>3, <1>4, <1>5, <1>6, NextSplit

-----------------------------------------------------------------------------
\* The inductive invariant holds in every reachable state.
THEOREM OrchestratorInv == Spec => []Inv
<1>1. Init => Inv
  BY BatchInit, SavedInit, UndoInit DEF Inv
<1>2. Inv /\ [Next]_vars => Inv'
  BY BatchStep, SavedStep, UndoStep DEF Inv
<1> QED BY <1>1, <1>2, PTL DEF Spec

\* Every reachable state of the orchestrator is well typed.
THEOREM OrchestratorTypeOK == Spec => []TypeOK
<1>1. Inv => TypeOK
  BY DEF Inv, BatchInv
<1> QED BY <1>1, OrchestratorInv, PTL

\* A step runs only while its dependencies are completed.
THEOREM OrchestratorRunsAfterDependencies == Spec => []RunsAfterDependencies
<1>1. Inv => RunsAfterDependencies
  BY DEF Inv, BatchInv, StagedReady, DependenciesSatisfied, RunsAfterDependencies
<1> QED BY <1>1, OrchestratorInv, PTL

\* At every moment of a session a resume makes of the checkpoint what it would
\* make of the plan in memory.
THEOREM OrchestratorCrashLosesNothing == Spec => []CrashLosesNothing
<1>1. Inv => CrashLosesNothing
  BY DEF Inv, SavedInv
<1> QED BY <1>1, OrchestratorInv, PTL

\* A rollback undoes a step, unless a revision had set it back, after all steps of
\* the session that depend on it.
THEOREM OrchestratorDependentsUndoneFirst == Spec => []DependentsUndoneFirst
<1>1. ASSUME Inv PROVE DependentsUndoneFirst
  <2> SUFFICES ASSUME phase = "rollback",
                      NEW s \in Range(executedOrder) \ (Range(undo) \cup redone),
                      NEW t \in Range(undo)
               PROVE  s \notin mem.deps[t]
    BY DEF DependentsUndoneFirst
  <2> USE <1>1 DEF Inv, UndoInv
  <2>1. /\ executedOrder \in Seq(Steps) /\ undo \in Seq(Steps)
        /\ Len(executedOrder) \in Nat /\ Len(undo) \in Nat
    BY DEF BatchInv, TypeOK
  <2>2. PICK j \in 1..Len(executedOrder) : s = executedOrder[j]
    BY <2>1 DEF Range
  <2>3. PICK i \in 1..Len(undo) : t = undo[i]
    BY <2>1 DEF Range
  <2>4. /\ Len(undo) <= Len(executedOrder)
        /\ \A k \in 1..Len(undo) : undo[k] = executedOrder[Len(undo) + 1 - k]
    BY DEF UndoesBackwards
  <2>5. j > Len(undo)
    <3>1. SUFFICES ASSUME j <= Len(undo) PROVE s \in Range(undo)
      BY <2>1, <2>2
    <3>2. Len(undo) + 1 - j \in 1..Len(undo) /\ Len(undo) + 1 - (Len(undo) + 1 - j) = j
      BY <2>1, <3>1
    <3>3. s = undo[Len(undo) + 1 - j]
      BY <2>2, <2>4, <3>2
    <3> QED BY <2>1, <3>2, <3>3 DEF Range
  <2>6. Len(undo) + 1 - i \in 1..Len(executedOrder) /\ Len(undo) + 1 - i < j
    BY <2>1, <2>4, <2>5
  <2> QED BY <2>2, <2>3, <2>4, <2>6 DEF ExecutedInOrder
<1> QED BY <1>1, OrchestratorInv, PTL

\* After an abort no step starts, none is failed or skipped, and the planner and
\* the rollback are not entered.
THEOREM OrchestratorAbortStops == Spec => AbortStops
<1> DEFINE Stops ==
        /\ \A s \in Steps :
               /\ stage'[s] = "running" => stage[s] = "running"
               /\ mem'.status[s] \in {"failed", "skipped"} => mem'.status[s] = mem.status[s]
        /\ phase' \in {"replan", "rollback"} => phase' = phase
<1>1. ASSUME Inv, Next, aborted, aborted' PROVE Stops
  <2>1. mem \in Plan /\ stage \in [Steps -> {"out", "queued", "running"}]
    BY <1>1 DEF Inv, BatchInv, TypeOK
  <2>2. ASSUME NEW s \in Steps, Start(s) \/ BailOut(s) \/ Succeed(s) \/ CutShort(s)
                                \/ Retry(s) \/ Fail(s)
        PROVE  Stops
    <3>1. ~Start(s) /\ ~Retry(s) /\ ~Fail(s)
      BY <1>1 DEF Start, Barred, Retry, Fail
    <3>2. phase' = phase /\ stage' = [stage EXCEPT ![s] = "out"]
      BY <2>2, <3>1 DEF BailOut, Succeed, CutShort
    <3>3. \/ mem' = mem
          \/ mem'.status = [mem.status EXCEPT ![s] = "completed"]
          \/ mem'.status = [mem.status EXCEPT ![s] = "cancelled"]
      BY <2>1, <2>2, <3>1 DEF BailOut, Succeed, CutShort, Save, Plan
    <3> QED BY <2>1, <3>2, <3>3 DEF Plan
  <2>3. ASSUME LoopAborted \/ BatchAborted PROVE Stops
    <3>1. mem' = CancelRemaining(mem) /\ stage' = stage /\ phase' = "returned"
      BY <2>3 DEF LoopAborted, BatchAborted, Save
    <3>2. \A s \in Steps : mem'.status[s] =
              IF mem.status[s] \in {"pending", "implementing"} THEN "cancelled" ELSE mem.status[s]
      BY <2>1, <3>1, CancelledPlan
    <3> QED BY <3>1, <3>2
  <2>4. ASSUME Replan PROVE Stops
    <3>1. stage' = stage
      BY <2>4 DEF Replan
    <3> QED BY <2>1, <2>4, <3>1, RevisedPlan
  <2>5. ASSUME LoopDone \/ BatchContinue \/ BatchReplan \/ PlannerThrows \/ Rollback
               \/ RollbackOver \/ Crash
        PROVE  Stops
    <3>1. /\ mem' = mem \/ BatchReplan
          /\ stage' = stage \/ stage' = [s \in Steps |-> "out"]
          /\ phase' = phase \/ phase' \in {"loop", "returned", "threw", "down"} \/ BatchReplan
      BY <2>5 DEF LoopDone, BatchContinue, PlannerThrows, Rollback, RollbackOver, Crash,
                  BatchReplan
    <3>2. ~BatchReplan
      BY <1>1 DEF BatchReplan
    <3> QED BY <3>1, <3>2
  <2>6. ~ScheduleBatch /\ ~LoopFailed /\ ~Abort /\ ~Resume
    BY <1>1 DEF ScheduleBatch, LoopFailed, Abort, Resume
  <2> HIDE DEF Stops
  <2> QED BY <1>1, <2>2, <2>3, <2>4, <2>5, <2>6 DEF Next
<1>2. Inv /\ [Next]_vars => [aborted /\ aborted' => Stops]_vars
  <2> HIDE DEF Stops
  <2> QED BY <1>1
<1> QED BY <1>2, OrchestratorInv, PTL DEF Spec, AbortStops

-----------------------------------------------------------------------------
(* The plan that the checkpoint keeps *)

Done == {s \in Steps : Saved.status[s] = "completed"}
Open == Live \/ disk # NoCheckpoint
Untouched == Done' = Done /\ Saved'.deps = Saved.deps /\ redone' = redone

\* The work in place is recorded as completed, unless a revision set it back.
EffectIsDone == effect \subseteq Done \cup redone

\* While a session lives, what is saved and what it has in memory agree on what
\* is completed and on every dependency.
LEMMA SavedIsMemory ==
    ASSUME Inv, Live
    PROVE  /\ \A s \in Steps : Saved.status[s] = "completed" <=> mem.status[s] = "completed"
           /\ Saved.deps = mem.deps
<1>1. CASE disk = NoCheckpoint
  BY <1>1 DEF Saved
<1>2. CASE disk # NoCheckpoint
  <2>1. mem \in Plan /\ disk \in Plan /\ Saved = disk
    BY <1>2 DEF Inv, BatchInv, TypeOK, Saved
  <2>2. Kept(disk) = Kept(mem)
    BY <1>2, CrashLosesNothingKept DEF Inv, SavedInv
  <2>3. Kept(disk).deps = disk.deps /\ Kept(mem).deps = mem.deps
    BY <2>1, SanitizedPlan DEF Kept, Plan
  <2> QED BY <2>1, <2>2, <2>3, KeptPlan
<1> QED BY <1>1, <1>2

\* A step that saves a plan completes one step, is a revision, or changes neither
\* what is done nor a dependency.
LEMMA SavesDurable ==
    ASSUME Inv, Saves
    PROVE  \/ \E s \in Steps : Succeed(s) /\ Durable!Complete(s)
           \/ Replan /\ \E R \in SUBSET Steps : Durable!Revise(R)
           \/ Untouched /\ Open /\ Open' /\ effect' = effect
<1>1. Live
  BY DEF Saves, Start, Leased, Succeed, CutShort, Retry, Fail, LoopAborted, BatchAborted,
         BatchOver, Replan, Live, Inv, BatchInv, BatchOnly
<1>2. /\ mem \in Plan /\ mem' \in Plan /\ disk' = mem' /\ disk' # NoCheckpoint
      /\ Saved' = mem'
  BY SavesPlan, NoCheckpointAssumption DEF Inv, BatchInv, TypeOK, Saved
<1>3. Open /\ Open'
  BY <1>1, <1>2 DEF Open
<1>4. /\ Done = {s \in Steps : mem.status[s] = "completed"}
      /\ Saved.deps = mem.deps
      /\ Done' = {s \in Steps : mem'.status[s] = "completed"}
  BY <1>1, <1>2, SavedIsMemory DEF Done
<1>5. ASSUME NEW s \in Steps, Succeed(s)
      PROVE  Durable!Complete(s)
  <2>1. mem' = [mem EXCEPT !.status[s] = "completed"] /\ "completed" \in StepStatus
    BY <1>5 DEF Succeed, Save, StepStatus
  <2>2. /\ mem'.status = [mem.status EXCEPT ![s] = "completed"]
        /\ mem'.deps = mem.deps
        /\ redone' = redone
    BY <1>2, <1>5, <2>1, OneStatus DEF Succeed
  <2>3. mem.status[s] # "completed" /\ mem.deps[s] \subseteq Done
    BY <1>4, <1>5 DEF Succeed, Inv, BatchInv, StagedReady, DependenciesSatisfied
  <2>4. Done' = Done \cup {s}
    BY <1>2, <1>4, <2>2 DEF Plan
  <2> QED BY <1>2, <1>3, <1>4, <2>2, <2>3, <2>4 DEF Durable!Complete, Done, Open
<1>6. ASSUME Replan
      PROVE  \E R \in SUBSET Steps : Durable!Revise(R)
  <2>1. PICK R \in SUBSET Steps :
            /\ redone' = redone \cup {s \in R : mem.status[s] = "completed"}
            /\ \A s \in R : mem'.status[s] = "pending"
            /\ \A s \in Steps \ R : /\ mem'.status[s] = mem.status[s]
                                    /\ mem'.deps[s] = mem.deps[s]
    BY <1>2, <1>6, RevisedPlan
  <2>2. Done' = Done \ R /\ redone' = redone \cup (Done \cap R)
    BY <1>4, <2>1
  <2>3. mem'.deps \in [Steps -> SUBSET (Steps \cup {Missing})]
    BY <1>2 DEF Plan
  <2>4. Durable!Revise(R)
    BY <1>2, <1>3, <1>4, <2>1, <2>2, <2>3 DEF Durable!Revise, Done, Open
  <2> QED BY <2>4
<1>7. ASSUME NEW s \in Steps, Start(s) \/ CutShort(s) \/ Retry(s) \/ Fail(s)
      PROVE  Untouched /\ effect' = effect
  <2>1. phase = "batch"
    BY <1>7 DEF Start, Leased, CutShort, Retry, Fail, Inv, BatchInv, BatchOnly
  <2>2. mem'.deps = mem.deps /\ redone' = redone /\ effect' = effect
    BY <1>7, <2>1, SavesPlan DEF Inv, Start, CutShort, Retry, Fail
  <2>3. /\ \A t \in Steps \ {s} : mem'.status[t] = mem.status[t] \/ mem'.status[t] = "skipped"
        /\ mem'.status[s] # "completed"
    <3>1. CASE Start(s)
      <4>1. mem' = [mem EXCEPT !.status[s] = "implementing"] /\ "implementing" \in StepStatus
        BY <3>1 DEF Start, Save, StepStatus
      <4>2. mem'.status = [mem.status EXCEPT ![s] = "implementing"]
        BY <1>2, <4>1, OneStatus
      <4> QED BY <1>2, <4>2 DEF Plan
    <3>2. CASE CutShort(s)
      <4>1. mem' = [mem EXCEPT !.status[s] = "cancelled"] /\ "cancelled" \in StepStatus
        BY <3>2 DEF CutShort, Save, StepStatus
      <4>2. mem'.status = [mem.status EXCEPT ![s] = "cancelled"]
        BY <1>2, <4>1, OneStatus
      <4> QED BY <1>2, <4>2 DEF Plan
    <3>3. CASE Retry(s)
      <4>1. mem'.status = [mem.status EXCEPT ![s] = "pending"]
        BY <1>2, <3>3, RetriedPlan DEF Retry, Save
      <4> QED BY <1>2, <4>1 DEF Plan
    <3>4. CASE Fail(s)
      BY <1>2, <3>4, FailedPlan
    <3> QED BY <1>7, <3>1, <3>2, <3>3, <3>4
  <2>4. \A t \in Steps : mem'.status[t] = "completed" => mem.status[t] = "completed"
    BY <2>3
  <2>5. \A t \in Steps : mem.status[t] = "completed" => mem'.status[t] = "completed"
    BY <2>1, SavesPlan DEF Inv
  <2> QED BY <1>2, <1>4, <2>2, <2>4, <2>5 DEF Untouched
<1>8. CASE LoopAborted \/ BatchAborted
  <2>1. mem' = CancelRemaining(mem) /\ redone' = redone /\ effect' = effect
    BY <1>8 DEF LoopAborted, BatchAborted, Save
  <2>2. /\ mem'.deps = mem.deps
        /\ \A s \in Steps : mem'.status[s] = "completed" <=> mem.status[s] = "completed"
    BY <1>2, <2>1, CancelledPlan
  <2> QED BY <1>2, <1>3, <1>4, <2>1, <2>2 DEF Untouched
<1> QED BY <1>3, <1>5, <1>6, <1>7, <1>8 DEF Saves

\* A step that saves nothing changes nothing that is done; it may end the plan.
LEMMA OthersDurable ==
    ASSUME Inv, Keeps \/ BatchReplan \/ Resume
    PROVE  Untouched /\ (Open' => Open) /\ effect' \subseteq effect
<1> SUFFICES Done' = Done /\ Saved'.deps = Saved.deps /\ (Open' => Open)
  <2>1. redone' = redone /\ effect' \subseteq effect
    BY DEF Keeps, BailOut, ScheduleBatch, LoopFailed, LoopDone, BatchContinue, PlannerThrows,
           Rollback, RollbackOver, Abort, Crash, BatchReplan, Resume
  <2> QED BY <2>1 DEF Untouched
<1>1. CASE Keeps
  <2>1. mem' = mem /\ disk' \in {disk, NoCheckpoint}
    BY <1>1, KeepsPlan
  <2>2. CASE disk' = disk
    <3>1. Saved' = Saved
      BY <2>1, <2>2 DEF Saved
    <3>2. Live' => Live
      BY <1>1 DEF Keeps, BailOut, Leased, ScheduleBatch, LoopFailed, LoopDone, BatchContinue,
                  BatchOver, PlannerThrows, Rollback, RollbackOver, Abort, Crash, Live,
                  Inv, BatchInv, BatchOnly
    <3> QED BY <2>2, <3>1, <3>2 DEF Done, Open
  <2>3. CASE disk' # disk
    <3>1. LoopDone \/ RollbackOver
      BY <1>1, <2>3 DEF Keeps, BailOut, ScheduleBatch, LoopFailed, BatchContinue,
                        PlannerThrows, Rollback, Abort, Crash
    <3>2. Live /\ ~Live' /\ Saved' = mem
      BY <2>1, <2>3, <3>1 DEF LoopDone, RollbackOver, Live, Saved
    <3> QED BY <3>2, SavedIsMemory DEF Done, Open
  <2> QED BY <2>2, <2>3
<1>2. CASE BatchReplan
  <2>1. disk' = disk /\ disk # NoCheckpoint
    BY <1>2 DEF BatchReplan, BatchOver, Live, Inv, SavedInv, UnsavedRunsOn
  <2> QED BY <2>1 DEF Done, Open, Saved
<1>3. CASE Resume
  <2>1. disk' = disk /\ disk # NoCheckpoint
    BY <1>3 DEF Resume
  <2> QED BY <2>1 DEF Done, Open, Saved
<1> QED BY <1>1, <1>2, <1>3

\* Work gets in place when its step completes, and what is completed is taken back
\* by revisions only.
LEMMA EffectStep ==
    ASSUME Inv, EffectIsDone, [Next]_vars
    PROVE  EffectIsDone'
<1>1. ASSUME NEW s \in Steps, Succeed(s), Durable!Complete(s) PROVE EffectIsDone'
  <2>1. Done' = Done \cup {s} /\ redone' = redone /\ effect' = effect \cup {s}
    BY <1>1 DEF Succeed, Durable!Complete, Done
  <2> QED BY <2>1 DEF EffectIsDone
<1>2. ASSUME NEW R \in SUBSET Steps, Replan, Durable!Revise(R) PROVE EffectIsDone'
  <2>1. Done' = Done \ R /\ redone' = redone \cup (Done \cap R) /\ effect' = effect
    BY <1>2 DEF Replan, Durable!Revise, Done
  <2> QED BY <2>1 DEF EffectIsDone
<1>3. ASSUME Untouched, effect' \subseteq effect PROVE EffectIsDone'
  BY <1>3 DEF Untouched, EffectIsDone
<1>4. CASE Saves
  BY <1>1, <1>2, <1>3, <1>4, SavesDurable
<1>5. CASE Keeps \/ BatchReplan \/ Resume
  BY <1>3, <1>5, OthersDurable
<1>6. CASE UNCHANGED vars
  BY <1>6 DEF vars, EffectIsDone, Done, Saved
<1> QED BY <1>4, <1>5, <1>6, NextSplit

\* The work in place is recorded, in the checkpoint while there is one.
THEOREM OrchestratorEffectIsDone == Spec => []EffectIsDone
<1>1. Init => EffectIsDone
  BY DEF Init, EffectIsDone
<1> QED BY <1>1, EffectStep, OrchestratorInv, PTL DEF Spec

\* What the checkpoint has as completed never starts again, and work that is in
\* place is done again only where a revision set its step back, in this session
\* or in a resumed one.
THEOREM OrchestratorCompletedStaysDone == Spec => CompletedStaysDone
<1> DEFINE Kind(s) ==
        /\ disk # NoCheckpoint => disk.status[s] # "completed"
        /\ s \in effect => s \in redone
<1>1. ASSUME Inv, EffectIsDone, [Next]_vars,
             NEW s \in Steps, stage[s] # "running", stage'[s] = "running"
      PROVE  Kind(s)
  <2>1. stage[s] = "queued"
    BY <1>1 DEF Next, Inv, BatchInv, TypeOK, vars, Start, Leased, BailOut, Succeed, CutShort,
                Retry, Fail, LoopAborted, ScheduleBatch, LoopFailed, LoopDone, BatchAborted,
                BatchContinue, BatchReplan, Replan, PlannerThrows, Rollback, RollbackOver,
                Abort, Crash, Resume
  <2>2. mem.status[s] # "completed" /\ Live
    BY <1>1, <2>1 DEF Inv, BatchInv, StagedReady, BatchOnly, Live
  <2>3. Saved.status[s] # "completed"
    BY <1>1, <2>2, SavedIsMemory
  <2>4. s \notin Done
    BY <2>3 DEF Done
  <2> QED BY <1>1, <2>3, <2>4 DEF EffectIsDone, Saved
<1>2. Inv /\ EffectIsDone /\ [Next]_vars =>
          [\A s \in Steps : stage[s] # "running" /\ stage'[s] = "running" => Kind(s)]_vars
  <2> HIDE DEF Kind
  <2> QED BY <1>1
<1> QED BY <1>2, OrchestratorInv, OrchestratorEffectIsDone, PTL DEF Spec, CompletedStaysDone

\* Over all its sessions a plan is one that never crashed: each step is completed
\* after all it depends on, and only a revision of that very step takes it back, for
\* any number of sessions, retries and replans (orchestrator.ts:205-220, 279-284,
\* checkpoint.ts:12-20).
THEOREM OrchestratorImplementsDurablePlan == Spec => ImplementsDurablePlan
<1>1. Init => Durable!Init
  <2> SUFFICES ASSUME Init PROVE Durable!Init
    OBVIOUS
  <2>1. Saved = mem /\ Live /\ redone = {} /\ \A s \in Steps : mem.status[s] # "completed"
    BY DEF Init, Saved, Live
  <2>2. mem.deps \in [Steps -> SUBSET (Steps \cup {Missing})]
    BY BatchInit DEF BatchInv, TypeOK, Plan
  <2> QED BY <2>1, <2>2 DEF Durable!Init
<1>2. Inv /\ [Next]_vars => [Durable!Next]_(Durable!vars)
  <2> SUFFICES ASSUME Inv, [Next]_vars PROVE [Durable!Next]_(Durable!vars)
    OBVIOUS
  <2>1. ASSUME Untouched, Open' <=> Open PROVE UNCHANGED Durable!vars
    BY <2>1 DEF Untouched, Done, Open, Durable!vars
  <2>2. ASSUME Untouched, Open, ~Open' PROVE Durable!Next
    BY <2>2 DEF Untouched, Done, Open, Durable!Close, Durable!Next
  <2>3. CASE UNCHANGED vars
    BY <2>1, <2>3 DEF vars, Untouched, Done, Open, Saved, Live
  <2>4. CASE Saves
    BY <2>1, <2>4, SavesDurable DEF Durable!Next
  <2>5. CASE Keeps \/ BatchReplan \/ Resume
    BY <2>1, <2>2, <2>5, OthersDurable
  <2> QED BY <2>3, <2>4, <2>5, NextSplit
<1> QED BY <1>1, <1>2, OrchestratorInv, PTL DEF Spec, ImplementsDurablePlan, Durable!Spec

\* In the checkpoint, whatever is completed rests on completed steps, or on completed
\* ones that a revision set back, after any number of crashes, replans, rollbacks and
\* resumes (orchestrator.ts:201-220, 279-284).
THEOREM OrchestratorCheckpointFounded == Spec => []Durable!Founded
<1>1. Durable!Init => Durable!Founded
  BY DEF Durable!Init, Durable!Founded
<1>2. Durable!Founded /\ [Durable!Next]_(Durable!vars) => Durable!Founded'
  BY DEF Durable!Founded, Durable!Next, Durable!vars, Durable!Complete, Durable!Revise,
         Durable!Close
<1> QED BY <1>1, <1>2, OrchestratorImplementsDurablePlan, PTL
       DEF ImplementsDurablePlan, Durable!Spec
=============================================================================
