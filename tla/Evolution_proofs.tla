-------------------------- MODULE Evolution_proofs --------------------------
(***************************************************************************)
(* What the self-development loop serves was approved after CI, goes to CI *)
(* only as the policy allows, is kept in the store, and is back at its     *)
(* parent when a rollback says so: for any number of experiments, any tree *)
(* of parents, and any number of switches of the runtime under way.        *)
(***************************************************************************)
EXTENDS Evolution, SequenceTheorems, TLAPS

\* The states in which a call leaves an experiment.
Rest == {"none", "CI_PENDING", "REJECTED", "CI_FAILED", "REVIEW_PENDING", "CHANGES_REQUESTED",
         "CANDIDATE", "APPROVED", "ACTIVE", "REGRESSED", "ROLLBACK"}
Underway == Rest \ {"none", "REJECTED"}
Approved == {"APPROVED", "ACTIVE", "REGRESSED", "ROLLBACK"}

\* The type invariant in three parts.
LifeType ==
    /\ life \in [Exps -> Rest]
    /\ stored \in [Exps -> Rest]
    /\ decision \in [Exps -> {"none", "eligible", "inconclusive", "rejected"}]
    /\ evidence \in [Exps -> {"none", "failed", "held_out", "transfer"}]
    /\ green \subseteq Exps /\ signed \subseteq Exps
WorkType == cycle \in [Exps -> Stages] /\ tree \subseteq Exps
RuntimeType ==
    /\ status \in [Harnesses -> {"none", "candidate", "validated", "rejected", "promoted",
                                 "rolled_back"}]
    /\ lineage \in Seq(Harnesses)
    /\ pointer \in Harnesses \cup {Nobody}
    /\ task \in [Tasks -> [stage : TaskStages, exp : Exps \cup {Nobody},
                           from : Harnesses \cup {Nobody}]]
    /\ overtaken \subseteq Tasks

\* An experiment that waits for its review passed CI, and one beyond it was
\* approved after that.
Earns ==
    \A e \in Exps :
        /\ life[e] = "REVIEW_PENDING" => e \in green
        /\ life[e] \in Approved => e \in signed

\* A cycle that delivers has an experiment under way.
Delivers ==
    \A e \in Exps : cycle[e] \in {"pushing", "checking", "reviewing"} => life[e] \in Underway

\* A switch is of an approved experiment, and goes back to what was earned.
TasksEarned ==
    \A t \in Tasks :
        task[t].stage # "idle" => task[t].exp \in signed /\ task[t].from \in Earned \cup {Nobody}

\* A rollback that checks the health of the parent runs it, or was overtaken.
Verifies ==
    \A t \in Tasks :
        task[t].stage = "verifying" => pointer = ParentOf[task[t].exp] \/ t \in overtaken

LifeInv == LifeType /\ Earns /\ Delivers /\ StoreKeepsUp /\ PolicyEnforced
WorkInv == WorkType /\ WorktreeDies
RuntimeInv == RuntimeType /\ ServedWasEarned /\ TasksEarned /\ Verifies
Inv == LifeInv /\ WorkInv /\ RuntimeInv

-----------------------------------------------------------------------------
LEMMA RestStates == Rest \subseteq States \cup {"none"}
BY DEF Rest, States, Legal

LEMMA LastOne == ASSUME NEW a PROVE Last(<<a>>) = a
BY DEF Last

LEMMA LastTwo == ASSUME NEW a, NEW b PROVE Last(<<a, b>>) = b
BY DEF Last

\* From where the verdicts of CI and of a review move an experiment.
LEMMA CiMoves ==
    ASSUME NEW e \in Exps, life[e] \in Rest \ {"none"}
    PROVE  /\ MayGo(e, <<"CI_PASSED", "REVIEW_PENDING">>) => life[e] = "CI_PENDING"
           /\ MayGo(e, <<"CI_FAILED">>) => life[e] = "CI_PENDING"
BY DEF MayGo, Legal, Rest

LEMMA ReviewMoves ==
    ASSUME NEW e \in Exps, life[e] \in Rest \ {"none"}
    PROVE  /\ MayGo(e, <<"APPROVED">>) => life[e] = "REVIEW_PENDING"
           /\ MayGo(e, <<"CHANGES_REQUESTED">>) => life[e] = "REVIEW_PENDING"
BY DEF MayGo, Legal, Rest

\* What a step that is not an evaluation does to the records: at most one of an
\* experiment under way moves, and is saved, but for an acceptance.
To(e, s) ==
    /\ life[e] \in Underway /\ s \in Underway
    /\ life' = [life EXCEPT ![e] = s]
    /\ \/ stored' = [stored EXCEPT ![e] = s]
       \/ s = "ACTIVE" /\ stored' = [stored EXCEPT ![e] = "APPROVED"]
    /\ s = "REVIEW_PENDING" => e \in green'
    /\ s \in Approved => e \in signed'
Moves ==
    /\ UNCHANGED <<decision, evidence>>
    /\ green \subseteq green' /\ green' \subseteq Exps
    /\ signed \subseteq signed' /\ signed' \subseteq Exps
    /\ UNCHANGED <<life, stored>> \/ \E e \in Exps, s \in Underway : To(e, s)

LEMMA CiReport ==
    ASSUME LifeInv, NEW e \in Exps, life[e] # "none", NEW verdict \in Verdicts,
           ReportCi(e, verdict), UNCHANGED signed
    PROVE  Moves
<1>0. life[e] \in Rest \ {"none"}
  BY DEF LifeInv, LifeType
<1>1. CASE verdict = "passed" /\ MayGo(e, <<"CI_PASSED", "REVIEW_PENDING">>)
  <2>1. life[e] = "CI_PENDING"
    BY <1>0, <1>1, CiMoves
  <2>2. e \in green' /\ green \subseteq green' /\ green' \subseteq Exps
    BY <1>1, <2>1 DEF ReportCi, LifeInv, LifeType
  <2>3. Advance(e, <<"CI_PASSED", "REVIEW_PENDING">>)
    BY <1>1 DEF ReportCi, Feedback
  <2>4. To(e, "REVIEW_PENDING")
    BY <2>1, <2>2, <2>3, LastTwo DEF Advance, To, Underway, Rest, Approved
  <2> QED BY <2>2, <2>4 DEF Moves, To, ReportCi, LifeInv, LifeType
<1>2. CASE verdict = "failed" /\ MayGo(e, <<"CI_FAILED">>)
  <2>1. life[e] = "CI_PENDING"
    BY <1>0, <1>2, CiMoves
  <2>2. Advance(e, <<"CI_FAILED">>) /\ green' = green
    BY <1>2 DEF ReportCi, Feedback
  <2>3. To(e, "CI_FAILED")
    BY <2>1, <2>2, LastOne DEF Advance, To, Underway, Rest, Approved
  <2> QED BY <2>2, <2>3 DEF Moves, To, ReportCi, LifeInv, LifeType
<1>3. CASE /\ ~(verdict = "passed" /\ MayGo(e, <<"CI_PASSED", "REVIEW_PENDING">>))
           /\ ~(verdict = "failed" /\ MayGo(e, <<"CI_FAILED">>))
  <2>1. UNCHANGED <<life, stored>>
    BY <1>3 DEF ReportCi, Feedback, Verdicts
  <2> QED BY <2>1 DEF Moves, ReportCi, LifeInv, LifeType
<1> QED BY <1>1, <1>2, <1>3

LEMMA ReviewReport ==
    ASSUME LifeInv, NEW e \in Exps, life[e] # "none", NEW verdict \in {"approved", "changes_requested"},
           ReportReview(e, verdict), UNCHANGED green
    PROVE  Moves
<1>0. life[e] \in Rest \ {"none"}
  BY DEF LifeInv, LifeType
<1>1. CASE verdict = "approved"
  <2>1. Feedback(e, <<"APPROVED">>) /\ Signs(e)
    BY <1>1 DEF ReportReview
  <2>2. signed \subseteq signed' /\ signed' \subseteq Exps
    BY <2>1 DEF Signs, LifeInv, LifeType
  <2>3. CASE MayGo(e, <<"APPROVED">>)
    <3>1. life[e] = "REVIEW_PENDING" /\ e \in green
      BY <1>0, <2>3, ReviewMoves DEF LifeInv, Earns
    <3>2. Advance(e, <<"APPROVED">>) /\ e \in signed'
      BY <2>1, <2>3, <3>1 DEF Feedback, Signs
    <3>3. To(e, "APPROVED")
      BY <3>1, <3>2, LastOne DEF Advance, To, Underway, Rest
    <3> QED BY <2>2, <3>3 DEF Moves, To, ReportReview, LifeInv, LifeType
  <2>4. CASE ~MayGo(e, <<"APPROVED">>)
    BY <2>1, <2>2, <2>4 DEF Moves, Feedback, ReportReview, LifeInv, LifeType
  <2> QED BY <2>3, <2>4
<1>2. CASE verdict = "changes_requested"
  <2>1. Feedback(e, <<"CHANGES_REQUESTED">>) /\ UNCHANGED signed
    BY <1>2 DEF ReportReview
  <2>2. CASE MayGo(e, <<"CHANGES_REQUESTED">>)
    <3>1. life[e] = "REVIEW_PENDING"
      BY <1>0, <2>2, ReviewMoves
    <3>2. Advance(e, <<"CHANGES_REQUESTED">>)
      BY <2>1, <2>2 DEF Feedback
    <3>3. To(e, "CHANGES_REQUESTED")
      BY <3>1, <3>2, LastOne DEF Advance, To, Underway, Rest, Approved
    <3> QED BY <2>1, <3>3 DEF Moves, To, ReportReview, LifeInv, LifeType
  <2>3. CASE ~MayGo(e, <<"CHANGES_REQUESTED">>)
    BY <2>1, <2>3 DEF Moves, Feedback, ReportReview, LifeInv, LifeType
  <2> QED BY <2>2, <2>3
<1> QED BY <1>1, <1>2

LEMMA ReviewAccepts ==
    ASSUME LifeInv, NEW e \in Exps, life[e] # "none", MayGo(e, <<"APPROVED">>), Accept(e),
           stored' = [stored EXCEPT ![e] = "APPROVED"], Signs(e), UNCHANGED green
    PROVE  Moves
<1>1. life[e] \in Rest \ {"none"}
  BY DEF LifeInv, LifeType
<1>2. life[e] = "REVIEW_PENDING" /\ e \in green
  BY <1>1, ReviewMoves DEF LifeInv, Earns
<1>3. signed' = signed \cup {e}
  BY <1>2 DEF Signs
<1>4. To(e, "ACTIVE")
  BY <1>2, <1>3 DEF To, Accept, Underway, Rest
<1> QED BY <1>3, <1>4 DEF Moves, To, Accept, LifeInv, LifeType

LEMMA AcceptMoves ==
    ASSUME LifeInv, NEW e \in Exps, OutsideAccept(e)
    PROVE  Moves
<1>1. life[e] = "APPROVED" /\ e \in signed /\ stored[e] = "APPROVED"
  BY DEF OutsideAccept, MayAccept, LifeInv, Earns, Approved, StoreKeepsUp
<1>2. stored' = [stored EXCEPT ![e] = "APPROVED"]
  BY <1>1 DEF OutsideAccept, LifeInv, LifeType
<1>3. To(e, "ACTIVE")
  BY <1>1, <1>2 DEF To, OutsideAccept, Accept, Underway, Rest
<1> QED BY <1>3 DEF Moves, To, OutsideAccept, Accept, LifeInv, LifeType

\* A hook or a rollback that advances an experiment from one state to another.
LEMMA AdvanceMoves ==
    ASSUME LifeInv, NEW e \in Exps, NEW s \in Underway,
           life[e] \in Underway, s # "REVIEW_PENDING", s \in Approved => life[e] \in Approved,
           life' = [life EXCEPT ![e] = s], stored' = [stored EXCEPT ![e] = s],
           UNCHANGED <<decision, evidence, green, signed>>
    PROVE  Moves
<1>1. To(e, s)
  BY DEF To, LifeInv, Earns
<1> QED BY <1>1 DEF Moves, LifeInv, LifeType

Delivering == {e \in Exps : cycle[e] \in {"pushing", "checking", "reviewing"}}

LEMMA MovesInv ==
    ASSUME LifeInv, Moves, Delivering' \subseteq Delivering
    PROVE  LifeInv'
<1>1. CASE UNCHANGED <<life, stored>>
  BY <1>1 DEF LifeInv, LifeType, Moves, Earns, Delivers, Delivering, StoreKeepsUp, PolicyEnforced
<1>2. ASSUME NEW e \in Exps, NEW s \in Underway, To(e, s) PROVE LifeInv'
  <2>1. LifeType'
    BY <1>2 DEF To, Moves, LifeInv, LifeType, Underway, Rest
  <2>2. Earns'
    BY <1>2 DEF To, Moves, LifeInv, LifeType, Earns
  <2>3. Delivers'
    BY <1>2 DEF To, LifeInv, LifeType, Delivers, Delivering
  <2>4. StoreKeepsUp'
    BY <1>2 DEF To, LifeInv, LifeType, StoreKeepsUp
  <2>5. PolicyEnforced'
    <3> SUFFICES ASSUME NEW x \in Exps, life'[x] \notin {"none", "REJECTED"}
                 PROVE  life[x] \notin {"none", "REJECTED"}
      BY DEF Moves, LifeInv, PolicyEnforced
    <3> QED BY <1>2 DEF To, LifeInv, LifeType, Underway
  <2> QED BY <2>1, <2>2, <2>3, <2>4, <2>5 DEF LifeInv
<1> QED BY <1>1, <1>2 DEF Moves

\* An evaluation takes an experiment to CI as the policy allows, or rejects it.
LEMMA EvaluateLife ==
    ASSUME LifeInv, WorkType, NEW e \in Exps, NEW stage \in {"eligible", "inconclusive", "rejected"},
           NEW matrix \in {"none", "failed", "held_out", "transfer"}, Evaluate(e, stage, matrix)
    PROVE  LifeInv'
<1> DEFINE to == IF ToGate(stage, matrix) THEN "CI_PENDING" ELSE "REJECTED"
           eligible == stage = "eligible" /\ ~Blocked(matrix)
<1>1. life' = [life EXCEPT ![e] = to] /\ stored' = [stored EXCEPT ![e] = to]
  <2>1. Advance(e, <<to>>)
    BY DEF Evaluate, Evaluated
  <2> HIDE DEF to
  <2>2. Last(<<to>>) = to
    BY LastOne
  <2> QED BY <2>1, <2>2 DEF Advance
<1> DEFINE result == IF eligible THEN "eligible"
                     ELSE IF stage = "eligible" THEN "inconclusive" ELSE stage
           shown == IF ToGate(stage, matrix) THEN matrix ELSE evidence[e]
<1>2. /\ decision' = [decision EXCEPT ![e] = result]
      /\ evidence' = [evidence EXCEPT ![e] = shown]
      /\ UNCHANGED <<green, signed>>
  BY DEF Evaluate, Evaluated
<1>a. /\ result \in {"eligible", "inconclusive", "rejected"}
      /\ shown \in {"none", "failed", "held_out", "transfer"}
  BY DEF LifeInv, LifeType
<1>3. to \in Rest
  BY DEF Rest
<1>4. LifeType'
  <2> HIDE DEF to, result, shown
  <2> QED BY <1>1, <1>2, <1>3, <1>a DEF LifeInv, LifeType
<1>5. Earns'
  BY <1>1, <1>2 DEF LifeInv, LifeType, Earns, Approved
<1>6. Delivers'
  <2>1. eligible => ToGate(stage, matrix)
    BY DEF ToGate
  <2>2. cycle'[e] \in {"pushing", "checking", "reviewing"} => to = "CI_PENDING"
    <3>1. cycle'[e] = "disposing" \/ decision'[e] = "eligible"
      BY DEF Evaluate, Goes, WorkType
    <3>2. decision'[e] = result
      <4> HIDE DEF result
      <4> QED BY <1>2 DEF LifeInv, LifeType
    <3> QED BY <2>1, <3>1, <3>2
  <2>3. \A x \in Exps \ {e} : cycle'[x] = cycle[x] /\ life'[x] = life[x]
    BY <1>1 DEF Evaluate, Goes, LifeInv, LifeType, WorkType
  <2>4. life'[e] = to
    BY <1>1 DEF LifeInv, LifeType
  <2> QED BY <2>2, <2>3, <2>4 DEF LifeInv, Delivers, Underway, Rest
<1>7. StoreKeepsUp'
  BY <1>1 DEF LifeInv, LifeType, StoreKeepsUp
<1>8. PolicyEnforced'
  <2> SUFFICES ASSUME NEW x \in Exps, life'[x] \notin {"none", "REJECTED"}
               PROVE  /\ evidence'[x] # "failed"
                      /\ evidence'[x] = "none" => Policy = "optional"
                      /\ \/ decision'[x] = "eligible"
                         \/ /\ decision'[x] = "inconclusive" /\ evidence'[x] = "held_out"
                            /\ Policy = "required-for-production"
    BY DEF PolicyEnforced
  <2>1. CASE x = e
    <3>1. ToGate(stage, matrix)
      BY <1>1, <2>1 DEF LifeInv, LifeType
    <3>2. decision'[x] = result /\ evidence'[x] = matrix
      <4> HIDE DEF result
      <4> QED BY <1>2, <2>1, <3>1 DEF LifeInv, LifeType
    <3> QED BY <3>1, <3>2 DEF ToGate, Blocked, Missing
  <2>2. CASE x # e
    <3> HIDE DEF to, result, shown
    <3>1. life'[x] = life[x] /\ decision'[x] = decision[x] /\ evidence'[x] = evidence[x]
      BY <1>1, <1>2, <2>2 DEF LifeInv, LifeType
    <3> QED BY <3>1 DEF LifeInv, PolicyEnforced
  <2> QED BY <2>1, <2>2
<1> QED BY <1>4, <1>5, <1>6, <1>7, <1>8 DEF LifeInv

-----------------------------------------------------------------------------
\* Every step keeps the invariant of the records.
LEMMA HookMoves ==
    ASSUME LifeInv, NEW e \in Exps, Hooks(e)
    PROVE  Moves
<1>1. CASE OutsideCi(e)
  BY <1>1, CiReport DEF OutsideCi, Known
<1>2. CASE OutsideReview(e)
  BY <1>2, ReviewReport DEF OutsideReview, Known
<1>3. CASE OutsideAccept(e)
  BY <1>3, AcceptMoves
<1>4. CASE BeginRework(e)
  <2>1. "CANDIDATE" \in Underway /\ life[e] \in Underway
    BY <1>4 DEF BeginRework, Underway, Rest
  <2>2. life' = [life EXCEPT ![e] = "CANDIDATE"] /\ stored' = [stored EXCEPT ![e] = "CANDIDATE"]
    BY <1>4, LastOne DEF BeginRework, Advance
  <2> QED BY <1>4, <2>1, <2>2, AdvanceMoves DEF BeginRework, Approved
<1>5. CASE HandleRegression(e)
  <2>1. "ROLLBACK" \in Underway /\ life[e] \in Underway /\ life[e] \in Approved
    BY <1>5 DEF HandleRegression, Underway, Rest, Approved
  <2>2. life' = [life EXCEPT ![e] = "ROLLBACK"] /\ stored' = [stored EXCEPT ![e] = "ROLLBACK"]
    BY <1>5, LastTwo DEF HandleRegression, Advance
  <2> QED BY <1>5, <2>1, <2>2, AdvanceMoves DEF HandleRegression
<1> QED BY <1>1, <1>2, <1>3, <1>4, <1>5 DEF Hooks

LEMMA Unmoved ==
    ASSUME LifeInv, UNCHANGED <<experiments, green, signed>>
    PROVE  Moves
BY DEF experiments, LifeInv, LifeType, Moves

LEMMA TaskMoves ==
    ASSUME LifeInv, TasksEarned, NEW t \in Tasks, TaskStep(t)
    PROVE  Moves
<1>1. ASSUME NEW e \in Exps, StartRollback(t, e) PROVE Moves
  <2>1. CASE life[e] = "ACTIVE" /\ Advance(e, <<"REGRESSED">>)
    <3>1. "REGRESSED" \in Underway /\ life[e] \in Underway /\ life[e] \in Approved
      BY <2>1 DEF Underway, Rest, Approved
    <3>2. life' = [life EXCEPT ![e] = "REGRESSED"] /\ stored' = [stored EXCEPT ![e] = "REGRESSED"]
      BY <2>1, LastOne DEF Advance
    <3> QED BY <1>1, <3>1, <3>2, AdvanceMoves DEF StartRollback
  <2>2. CASE UNCHANGED <<life, stored>>
    BY <1>1, <2>2, Unmoved DEF StartRollback, experiments
  <2> QED BY <1>1, <2>1, <2>2 DEF StartRollback
<1>2. CASE Completes(t)
  <2> DEFINE e == task[t].exp
  <2>1. e \in Exps
    BY <1>2 DEF Completes, TasksEarned, LifeInv, LifeType
  <2>2. UNCHANGED <<decision, evidence, green, signed>>
    BY <1>2 DEF Completes
  <2>3. \/ UNCHANGED <<life, stored>>
        \/ life[e] = "REGRESSED" /\ Advance(e, <<"ROLLBACK">>)
        \/ life[e] = "REGRESSED" /\ Advance(e, <<"ROLLBACK", "ACTIVE">>)
    BY <1>2 DEF Completes
  <2> HIDE DEF e
  <2>4. CASE UNCHANGED <<life, stored>>
    BY <2>2, <2>4, Unmoved DEF experiments
  <2>5. CASE life[e] = "REGRESSED" /\ Advance(e, <<"ROLLBACK">>)
    <3>1. "ROLLBACK" \in Underway /\ life[e] \in Underway /\ life[e] \in Approved
      BY <2>5 DEF Underway, Rest, Approved
    <3>2. life' = [life EXCEPT ![e] = "ROLLBACK"] /\ stored' = [stored EXCEPT ![e] = "ROLLBACK"]
      BY <2>5, LastOne DEF Advance
    <3> QED BY <2>1, <2>2, <3>1, <3>2, AdvanceMoves
  <2>6. CASE life[e] = "REGRESSED" /\ Advance(e, <<"ROLLBACK", "ACTIVE">>)
    <3>1. "ACTIVE" \in Underway /\ life[e] \in Underway /\ life[e] \in Approved
      BY <2>6 DEF Underway, Rest, Approved
    <3>2. life' = [life EXCEPT ![e] = "ACTIVE"] /\ stored' = [stored EXCEPT ![e] = "ACTIVE"]
      BY <2>6, LastTwo DEF Advance
    <3> QED BY <2>1, <2>2, <3>1, <3>2, AdvanceMoves
  <2> QED BY <2>3, <2>4, <2>5, <2>6
<1> QED BY <1>1, <1>2, Unmoved
    DEF TaskStep, StartActivation, Activated, Switched, SwitchFails, Unhealthy, Restored, experiments

\* The steps of a cycle other than the evaluation.
Follows(e) ==
    \/ Prepare(e) \/ WorkFails(e) \/ Deliver(e) \/ SyncReview(e) \/ Dispose(e)
    \/ \E verdict \in Verdicts : SyncCi(e, verdict)

LEMMA CycleMoves ==
    ASSUME LifeInv, WorkType, NEW e \in Exps, Follows(e)
    PROVE  Moves /\ Delivering' \subseteq Delivering
<1>1. Delivering' \subseteq Delivering
  BY DEF Follows, Delivering, WorkType, Prepare, WorkFails, Deliver, SyncReview, Dispose, SyncCi,
         Goes, Fail
<1> SUFFICES Moves
  BY <1>1
<1>2. CASE SyncReview(e)
  <2>1. life[e] # "none" /\ UNCHANGED green
    BY <1>2 DEF SyncReview, LifeInv, Delivers, Underway, Rest
  <2>2. CASE UNCHANGED <<experiments, registry, signed>>
    BY <2>1, <2>2, Unmoved
  <2>3. ASSUME NEW verdict \in {"approved", "changes_requested"}, ReportReview(e, verdict)
        PROVE  Moves
    BY <2>1, <2>3, ReviewReport
  <2>4. CASE /\ MayGo(e, <<"APPROVED">>)
             /\ Accept(e)
             /\ stored' = [stored EXCEPT ![e] = "APPROVED"]
             /\ Signs(e)
    BY <2>1, <2>4, ReviewAccepts
  <2> QED BY <1>2, <2>2, <2>3, <2>4 DEF SyncReview
<1>3. ASSUME NEW verdict \in Verdicts, SyncCi(e, verdict) PROVE Moves
  <2>1. life[e] # "none" /\ UNCHANGED signed
    BY <1>3 DEF SyncCi, LifeInv, Delivers, Underway, Rest
  <2> QED BY <1>3, <2>1, CiReport DEF SyncCi
<1>4. CASE Prepare(e) \/ WorkFails(e) \/ Deliver(e) \/ Dispose(e)
  BY <1>4, Unmoved DEF Prepare, WorkFails, Deliver, Dispose
<1> QED BY <1>2, <1>3, <1>4 DEF Follows

LEMMA LifeNext ==
    ASSUME Inv, [Next]_vars
    PROVE  LifeInv' /\ signed \subseteq signed'
<1> USE DEF Inv
<1>0. Moves => signed \subseteq signed'
  BY DEF Moves
<1>1. ASSUME NEW e \in Exps, Hooks(e) PROVE LifeInv' /\ signed \subseteq signed'
  <2>1. UNCHANGED work
    BY <1>1 DEF Hooks, OutsideCi, OutsideReview, OutsideAccept, BeginRework, HandleRegression
  <2> QED BY <1>0, <1>1, <2>1, HookMoves, MovesInv DEF work, Delivering
<1>2. ASSUME NEW t \in Tasks, TaskStep(t) PROVE LifeInv' /\ signed \subseteq signed'
  <2>1. UNCHANGED work
    BY <1>2 DEF TaskStep, StartActivation, StartRollback, Activated, Switched, SwitchFails,
                Completes, Unhealthy, Restored
  <2> QED BY <1>0, <1>2, <2>1, TaskMoves, MovesInv DEF work, Delivering, RuntimeInv
<1>3. ASSUME NEW e \in Exps, Follows(e) PROVE LifeInv' /\ signed \subseteq signed'
  BY <1>0, <1>3, CycleMoves, MovesInv DEF WorkInv
<1>4. ASSUME NEW e \in Exps, NEW stage \in {"eligible", "inconclusive", "rejected"},
             NEW matrix \in {"none", "failed", "held_out", "transfer"}, Evaluate(e, stage, matrix)
      PROVE  LifeInv' /\ signed \subseteq signed'
  BY <1>4, EvaluateLife DEF WorkInv, Evaluate
<1>5. CASE UNCHANGED vars
  BY <1>0, <1>5, Unmoved, MovesInv DEF vars, work, Delivering
<1> QED BY <1>1, <1>2, <1>3, <1>4, <1>5 DEF Next, CycleStep, Follows

-----------------------------------------------------------------------------
\* Every step keeps a worktree exactly as long as its cycle runs.
LEMMA WorkNext ==
    ASSUME WorkInv, [Next]_vars
    PROVE  WorkInv'
<1> USE DEF WorkInv, WorkType, WorktreeDies, Stages
<1>1. CASE UNCHANGED work
  BY <1>1 DEF work
<1>2. ASSUME NEW e \in Exps, Prepare(e) PROVE WorkInv'
  BY <1>2 DEF Prepare, Goes
<1>3. ASSUME NEW e \in Exps, WorkFails(e) \/ Deliver(e) PROVE WorkInv'
  BY <1>3 DEF WorkFails, Deliver, Fail, Goes
<1>4. ASSUME NEW e \in Exps, NEW verdict \in Verdicts, SyncCi(e, verdict) PROVE WorkInv'
  BY <1>4 DEF SyncCi, Goes
<1>5. ASSUME NEW e \in Exps, SyncReview(e) PROVE WorkInv'
  BY <1>5 DEF SyncReview, Goes
<1>6. ASSUME NEW e \in Exps, Dispose(e) PROVE WorkInv'
  BY <1>6 DEF Dispose, Goes
<1>7. ASSUME NEW e \in Exps, NEW stage \in {"eligible", "inconclusive", "rejected"},
             NEW matrix \in {"none", "failed", "held_out", "transfer"}, Evaluate(e, stage, matrix)
      PROVE  WorkInv'
  BY <1>7 DEF Evaluate, Goes
<1>8. ASSUME NEW e \in Exps, Hooks(e) PROVE WorkInv'
  BY <1>1, <1>8 DEF Hooks, OutsideCi, OutsideReview, OutsideAccept, BeginRework, HandleRegression
<1>9. ASSUME NEW t \in Tasks, TaskStep(t) PROVE WorkInv'
  BY <1>1, <1>9 DEF TaskStep, StartActivation, StartRollback, Activated, Switched, SwitchFails,
                    Completes, Unhealthy, Restored
<1>10. CASE UNCHANGED vars
  BY <1>1, <1>10 DEF vars
<1> QED BY <1>2, <1>3, <1>4, <1>5, <1>6, <1>7, <1>8, <1>9, <1>10 DEF Next, CycleStep

-----------------------------------------------------------------------------
\* Every step serves only what was earned.  First, what a step may do to the
\* registry.
Registers ==
    /\ RuntimeType => status' \in [Harnesses -> {"none", "candidate", "validated", "rejected",
                                                "promoted", "rolled_back"}]
    /\ RuntimeType => lineage' \in Seq(Harnesses)
    /\ \A h \in Harnesses : status'[h] = "promoted" => status[h] = "promoted" \/ h \in Earned'

LEMMA EarnedGrows ==
    ASSUME signed \subseteq signed'
    PROVE  Earned \subseteq Earned'
BY DEF Earned

LEMMA Unregistered == ASSUME UNCHANGED registry PROVE Registers
BY DEF registry, Registers, RuntimeType

LEMMA AcceptRegisters ==
    ASSUME RuntimeType, NEW e \in Exps, e \in signed', Accept(e)
    PROVE  Registers
BY DEF Accept, Registers, RuntimeType, Earned, Harnesses

LEMMA RollbackRegisters ==
    ASSUME RuntimeType, NEW h \in Harnesses, h \in Earned', RollbackTo(h)
    PROVE  Registers
BY DEF RollbackTo, Registers, RuntimeType

LEMMA EvaluateRegisters ==
    ASSUME RuntimeType, NEW e \in Exps, NEW stage, NEW matrix, Evaluated(e, stage, matrix)
    PROVE  Registers
<1>1. e \in Harnesses
  BY DEF Harnesses
<1>2. PICK s \in {"validated", "rejected", "candidate"} : status' = [status EXCEPT ![e] = s]
  BY DEF Evaluated
<1>3. lineage' = Append(lineage, e)
  BY DEF Evaluated
<1>4. Append(lineage, e) \in Seq(Harnesses)
  BY <1>1, AppendProperties DEF RuntimeType
<1> QED BY <1>1, <1>2, <1>3, <1>4 DEF Registers, RuntimeType

\* A step that leaves the manifest and the switches alone.
LEMMA RegistryStep ==
    ASSUME RuntimeInv, signed \subseteq signed', Registers, UNCHANGED runtime
    PROVE  RuntimeInv'
<1>1. Earned \subseteq Earned'
  BY EarnedGrows
<1>2. RuntimeType'
  BY DEF RuntimeInv, RuntimeType, Registers, runtime
<1>3. ServedWasEarned'
  BY <1>1 DEF RuntimeInv, ServedWasEarned, Registers, runtime
<1>4. TasksEarned'
  BY <1>1 DEF RuntimeInv, TasksEarned, runtime
<1>5. Verifies'
  BY DEF RuntimeInv, Verifies, runtime
<1> QED BY <1>2, <1>3, <1>4, <1>5 DEF RuntimeInv

LEMMA RegistryNext ==
    ASSUME Inv, [Next]_vars, LifeInv', signed \subseteq signed', UNCHANGED runtime
    PROVE  RuntimeInv'
<1> SUFFICES Registers
  BY RegistryStep DEF Inv
<1> USE DEF Inv, RuntimeInv
<1>1. CASE UNCHANGED registry
  BY <1>1, Unregistered
<1>2. ASSUME NEW e \in Exps, Accept(e) PROVE Registers
  <2>1. life'[e] = "ACTIVE"
    BY <1>2 DEF Accept, LifeInv, LifeType
  <2>2. e \in signed'
    BY <2>1 DEF LifeInv, Earns, Approved
  <2> QED BY <1>2, <2>2, AcceptRegisters
<1>3. ASSUME NEW e \in Exps, HandleRegression(e) PROVE Registers
  <2>1. e \in signed /\ ParentOf[e] \in Harnesses
    BY <1>3, EvolutionAssumption DEF HandleRegression, LifeInv, Earns, Approved
  <2>2. ParentOf[e] \in Earned'
    BY <2>1, EarnedGrows DEF Earned
  <2> QED BY <1>1, <1>3, <2>1, <2>2, RollbackRegisters DEF HandleRegression
<1>4. ASSUME NEW e \in Exps, NEW stage, NEW matrix, Evaluated(e, stage, matrix) PROVE Registers
  BY <1>4, EvaluateRegisters
<1>5. ASSUME NEW e \in Exps, CycleStep(e) PROVE Registers
  BY <1>1, <1>2, <1>4, <1>5 DEF CycleStep, Prepare, WorkFails, Evaluate, Deliver, SyncCi, SyncReview,
                                Dispose
<1>6. ASSUME NEW e \in Exps, Hooks(e) PROVE Registers
  BY <1>1, <1>2, <1>3, <1>6 DEF Hooks, OutsideCi, OutsideReview, OutsideAccept, BeginRework
<1>7. ASSUME NEW t \in Tasks, TaskStep(t) PROVE Registers
  <2>1. CASE ~Completes(t)
    BY <1>1, <1>7, <2>1 DEF TaskStep, StartActivation, StartRollback, Activated, Switched,
                            SwitchFails, Unhealthy, Restored
  <2>2. CASE Completes(t)
    <3>1. task' = task
      BY DEF runtime
    <3>2. task[t].stage = "verifying" /\ task'[t].stage = "idle"
      BY <2>2 DEF Completes, Ends, Idle, RuntimeType
    <3> QED BY <3>1, <3>2
  <2> QED BY <2>1, <2>2
<1>8. CASE UNCHANGED vars
  BY <1>1, <1>8 DEF vars
<1> QED BY <1>5, <1>6, <1>7, <1>8 DEF Next

\* A switch of the manifest onto something earned overtakes the rollbacks that
\* check theirs.
LEMMA PointsServes ==
    ASSUME RuntimeInv, NEW t \in Tasks, NEW h \in Harnesses, h \in Earned, Points(t, h),
           UNCHANGED <<registry, signed>>,
           \/ Ends(t)
           \/ /\ task' = [task EXCEPT ![t].stage = "verifying"]
              /\ task[t].stage = "switching" /\ h = ParentOf[task[t].exp]
    PROVE  RuntimeInv'
<1> USE DEF RuntimeInv, RuntimeType
<1>1. /\ task' \in [Tasks -> [stage : TaskStages, exp : Exps \cup {Nobody},
                              from : Harnesses \cup {Nobody}]]
      /\ \A u \in Tasks \ {t} : task'[u] = task[u]
      /\ \/ task'[t].stage = "idle"
         \/ /\ task'[t].stage = "verifying" /\ task[t].stage = "switching"
            /\ task'[t].exp = task[t].exp /\ task'[t].from = task[t].from
            /\ h = ParentOf[task[t].exp]
  BY DEF Ends, Idle, TaskStages
<1>2. RuntimeType'
  BY <1>1 DEF Points, registry
<1>3. Earned' = Earned
  BY DEF Earned
<1>4. ServedWasEarned'
  BY <1>3 DEF ServedWasEarned, Points, registry
<1>5. TasksEarned'
  BY <1>1, <1>3 DEF TasksEarned
<1>6. Verifies'
  BY <1>1 DEF Verifies, Points
<1> QED BY <1>2, <1>4, <1>5, <1>6

LEMMA StartServes ==
    ASSUME RuntimeInv, LifeInv, NEW t \in Tasks, task[t].stage = "idle", NEW e \in Exps,
           e \in signed, NEW s \in {"activating", "switching"}, NEW h \in Earned \cup {Nobody},
           h \in Harnesses \cup {Nobody},
           task' = [task EXCEPT ![t] = [stage |-> s, exp |-> e, from |-> h]],
           UNCHANGED <<registry, pointer, overtaken, signed>>
    PROVE  RuntimeInv'
<1> USE DEF RuntimeInv, RuntimeType
<1>1. /\ task' \in [Tasks -> [stage : TaskStages, exp : Exps \cup {Nobody},
                              from : Harnesses \cup {Nobody}]]
      /\ \A u \in Tasks \ {t} : task'[u] = task[u]
      /\ task'[t].stage # "verifying" /\ task'[t].exp = e /\ task'[t].from = h
  BY DEF TaskStages
<1>2. RuntimeType'
  BY <1>1 DEF registry
<1>3. Earned' = Earned
  BY DEF Earned
<1>4. ServedWasEarned'
  BY <1>3 DEF ServedWasEarned, registry
<1>5. TasksEarned'
  BY <1>1, <1>3 DEF TasksEarned
<1>6. Verifies'
  BY <1>1 DEF Verifies
<1> QED BY <1>2, <1>4, <1>5, <1>6

\* What runs was earned.
LEMMA ActiveEarned ==
    ASSUME RuntimeInv, NEW h \in Harnesses \cup {Nobody}, ActiveHarness(h)
    PROVE  h \in Earned \cup {Nobody}
<1>1. CASE pointer # Nobody
  BY <1>1 DEF RuntimeInv, ServedWasEarned, ActiveHarness
<1>2. CASE pointer = Nobody /\ h # Nobody
  <2>1. PICK i \in Promoted : h = lineage[i]
    BY <1>2 DEF ActiveHarness, ActiveVersion
  <2> QED BY <1>2, <2>1 DEF Promoted, RuntimeInv, ServedWasEarned
<1> QED BY <1>1, <1>2

\* A switch that ends without touching the manifest, or turns back.
LEMMA LeavesServes ==
    ASSUME RuntimeInv, NEW t \in Tasks, Registers, signed \subseteq signed', UNCHANGED pointer,
           \/ Ends(t)
           \/ task[t].stage # "idle" /\ task' = [task EXCEPT ![t].stage = "restoring"],
           overtaken' = overtaken \/ overtaken' = overtaken \ {t}
    PROVE  RuntimeInv'
<1> USE DEF RuntimeInv, RuntimeType
<1>1. /\ task' \in [Tasks -> [stage : TaskStages, exp : Exps \cup {Nobody},
                              from : Harnesses \cup {Nobody}]]
      /\ \A u \in Tasks \ {t} : task'[u] = task[u]
      /\ \/ task'[t].stage = "idle"
         \/ /\ task'[t].stage = "restoring" /\ task[t].stage # "idle"
            /\ task'[t].exp = task[t].exp /\ task'[t].from = task[t].from
  BY DEF Ends, Idle, TaskStages
<1>2. RuntimeType'
  BY <1>1 DEF Registers
<1>3. Earned \subseteq Earned'
  BY EarnedGrows
<1>4. ServedWasEarned'
  BY <1>3 DEF ServedWasEarned, Registers
<1>5. TasksEarned'
  BY <1>1, <1>3 DEF TasksEarned
<1>6. Verifies'
  BY <1>1 DEF Verifies
<1> QED BY <1>2, <1>4, <1>5, <1>6

LEMMA TaskNext ==
    ASSUME Inv, NEW t \in Tasks, TaskStep(t)
    PROVE  RuntimeInv'
<1> USE DEF Inv
<1>0. task[t].stage # "idle" =>
          task[t].exp \in signed /\ task[t].exp \in Exps /\ task[t].from \in Earned \cup {Nobody}
  BY DEF RuntimeInv, TasksEarned, LifeInv, LifeType
<1>1. ASSUME NEW e \in Exps, StartActivation(t, e) PROVE RuntimeInv'
  <2>1. e \in signed
    BY <1>1 DEF StartActivation, LifeInv, Earns, Approved
  <2> QED BY <1>1, <2>1, StartServes DEF StartActivation
<1>2. ASSUME NEW e \in Exps, StartRollback(t, e) PROVE RuntimeInv'
  <2>1. e \in signed
    BY <1>2 DEF StartRollback, LifeInv, Earns, Approved
  <2>2. PICK h \in Harnesses \cup {Nobody} :
            /\ ActiveHarness(h)
            /\ task' = [task EXCEPT ![t] = [stage |-> "switching", exp |-> e, from |-> h]]
    BY <1>2 DEF StartRollback
  <2> QED BY <1>2, <2>1, <2>2, ActiveEarned, StartServes DEF StartRollback
<1>3. CASE Activated(t)
  <2>1. task[t].exp \in Harnesses /\ task[t].exp \in Earned
    BY <1>0, <1>3 DEF Activated, Harnesses, Earned
  <2> QED BY <1>3, <2>1, PointsServes DEF Activated
<1>4. CASE Switched(t)
  <2>1. ParentOf[task[t].exp] \in Harnesses /\ ParentOf[task[t].exp] \in Earned
    BY <1>0, <1>4, EvolutionAssumption DEF Switched, Earned
  <2> QED BY <1>4, <2>1, PointsServes DEF Switched
<1>5. CASE Restored(t)
  <2>1. task[t].from \in Harnesses /\ task[t].from \in Earned
    BY <1>0, <1>5 DEF Restored, RuntimeInv, RuntimeType
  <2> QED BY <1>5, <2>1, PointsServes DEF Restored
<1>6. CASE SwitchFails(t)
  BY <1>6, Unregistered, LeavesServes DEF SwitchFails, Abandons
<1>7. CASE Unhealthy(t)
  BY <1>7, Unregistered, LeavesServes DEF Unhealthy
<1>8. CASE Completes(t)
  <2>1. ParentOf[task[t].exp] \in Harnesses /\ ParentOf[task[t].exp] \in Earned
    BY <1>0, <1>8, EvolutionAssumption DEF Completes, Earned
  <2>2. Earned' = Earned /\ signed' = signed
    BY <1>8 DEF Completes, Earned
  <2>3. UNCHANGED registry \/ RollbackTo(ParentOf[task[t].exp])
    BY <1>8 DEF Completes
  <2>4. Registers
    BY <2>1, <2>2, <2>3, Unregistered, RollbackRegisters DEF RuntimeInv
  <2> QED BY <1>8, <2>2, <2>4, LeavesServes DEF Completes
<1> QED BY <1>1, <1>2, <1>3, <1>4, <1>5, <1>6, <1>7, <1>8 DEF TaskStep

-----------------------------------------------------------------------------
LEMMA InitInv == Init => Inv
<1> SUFFICES ASSUME Init PROVE Inv
  OBVIOUS
<1> USE DEF Init
<1>1. LifeInv
  BY DEF LifeInv, LifeType, Rest, Earns, Approved, Delivers, StoreKeepsUp, PolicyEnforced
<1>2. WorkInv
  BY DEF WorkInv, WorkType, Stages, WorktreeDies
<1>3. RuntimeType
  <2>1. <<>> \in Seq(Harnesses) /\ <<Base>> \in Seq(Harnesses)
    BY DEF Harnesses
  <2>2. Idle \in [stage : TaskStages, exp : Exps \cup {Nobody}, from : Harnesses \cup {Nobody}]
    BY DEF Idle, TaskStages
  <2>3. lineage \in Seq(Harnesses)
    BY <2>1
  <2>4. status \in [Harnesses -> {"none", "candidate", "validated", "rejected", "promoted",
                                  "rolled_back"}]
    OBVIOUS
  <2>5. task \in [Tasks -> [stage : TaskStages, exp : Exps \cup {Nobody},
                            from : Harnesses \cup {Nobody}]]
    BY <2>2
  <2> HIDE DEF Init
  <2>6. pointer \in Harnesses \cup {Nobody} /\ overtaken \subseteq Tasks
    BY DEF Init
  <2> QED BY <2>3, <2>4, <2>5, <2>6 DEF RuntimeType
<1>4. ServedWasEarned
  BY DEF ServedWasEarned, Earned
<1>5. TasksEarned /\ Verifies
  BY DEF TasksEarned, Verifies, Idle
<1> QED BY <1>1, <1>2, <1>3, <1>4, <1>5 DEF Inv, RuntimeInv

LEMMA NextInv == Inv /\ [Next]_vars => Inv'
<1> SUFFICES ASSUME Inv, [Next]_vars PROVE Inv'
  OBVIOUS
<1>1. LifeInv' /\ signed \subseteq signed'
  BY LifeNext
<1>2. WorkInv'
  BY WorkNext DEF Inv
<1>3. RuntimeInv'
  <2>1. CASE UNCHANGED runtime
    BY <1>1, <2>1, RegistryNext
  <2>2. ASSUME NEW t \in Tasks, TaskStep(t) PROVE RuntimeInv'
    BY <2>2, TaskNext
  <2>3. ASSUME NEW e \in Exps, CycleStep(e) \/ Hooks(e) PROVE UNCHANGED runtime
    BY <2>3 DEF CycleStep, Hooks, Prepare, WorkFails, Evaluate, Deliver, SyncCi, SyncReview, Dispose,
                OutsideCi, OutsideReview, OutsideAccept, BeginRework, HandleRegression
  <2> QED BY <2>1, <2>2, <2>3 DEF Next, vars
<1> QED BY <1>1, <1>2, <1>3 DEF Inv

LEMMA InvAlways == Spec => []Inv
<1> QED BY InitInv, NextInv, PTL DEF Spec

\* Every variable keeps its type, and a call leaves an experiment in a state that
\* the machine knows.
THEOREM EvolutionTypeOK == Spec => []TypeOK
<1>1. Inv => TypeOK
  <2> SUFFICES ASSUME Inv PROVE TypeOK
    OBVIOUS
  <2>1. LifeType /\ WorkType /\ RuntimeType
    BY DEF Inv, LifeInv, WorkInv, RuntimeInv
  <2>2. life \in [Exps -> States \cup {"none"}] /\ stored \in [Exps -> States \cup {"none"}]
    BY <2>1, RestStates DEF LifeType
  <2> QED BY <2>1, <2>2 DEF TypeOK, LifeType, WorkType, RuntimeType
<1> QED BY <1>1, InvAlways, PTL

\* Whatever is promoted or running was approved after CI had passed, or is what an
\* approved candidate was made from, whatever the order of the reports, of the
\* cycles and of the switches (state-machine.ts:112-134, engine-v2.ts:731-746).
THEOREM EvolutionServedWasEarned == Spec => []ServedWasEarned
<1>1. Inv => ServedWasEarned
  BY DEF Inv, RuntimeInv
<1> QED BY <1>1, InvAlways, PTL

\* No candidate goes to CI past the generalization policy but for the one gap that
\* PolicyEnforced names, under any of the three policies (engine-v2.ts:315-403).
THEOREM EvolutionPolicyEnforced == Spec => []PolicyEnforced
<1>1. Inv => PolicyEnforced
  BY DEF Inv, LifeInv
<1> QED BY <1>1, InvAlways, PTL

\* The store is behind an experiment only when it was accepted since
\* (experiment-controller.ts:128-135, engine-v2.ts:731-738).
THEOREM EvolutionStoreKeepsUp == Spec => []StoreKeepsUp
<1>1. Inv => StoreKeepsUp
  BY DEF Inv, LifeInv
<1> QED BY <1>1, InvAlways, PTL

\* There is a worktree exactly as long as its cycle runs (engine-v2.ts:655-666).
THEOREM EvolutionWorktreeDies == Spec => []WorktreeDies
<1>1. Inv => WorktreeDies
  BY DEF Inv, WorkInv
<1> QED BY <1>1, InvAlways, PTL

\* A rollback that finds the parent healthy leaves the runtime on the parent,
\* unless another switch came between (runtime-activation.ts:172-219).
THEOREM EvolutionRollbackTrue == Spec => RollbackTrue
<1>1. Inv /\ [Next]_vars =>
         [\A t \in Tasks :
             task[t].stage = "verifying" /\ task'[t].stage = "idle"
                 => pointer = ParentOf[task[t].exp] \/ t \in overtaken]_vars
  BY DEF Inv, RuntimeInv, Verifies
<1> QED BY <1>1, InvAlways, PTL DEF Spec, RollbackTrue
=============================================================================
