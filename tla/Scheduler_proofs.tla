-------------------------- MODULE Scheduler_proofs --------------------------
(***************************************************************************)
(* The scheduler, for any plan, any number of nodes and resources, and any *)
(* parallel limit: what runs together may, dependencies come first, no     *)
(* ending leaks a slot or a lock, and an abort closes the graph.           *)
(***************************************************************************)
EXTENDS Scheduler, FiniteSetTheorems, TLAPS

\* The two tables of the registry agree, and a resource has one holder.
LocksAgree ==
    /\ \A r \in Resources, n \in Nodes : n \in holders[r] <=> r \in heldBy[n]
    /\ \A r \in Resources : \A m, n \in holders[r] : m = n

\* A node holds what it wants for exactly as long as its executor runs.
Holding == \A n \in Nodes :
               heldBy[n] = IF worker[n] = "running" THEN Wanted(n) ELSE {}

Counted ==
    /\ inFlight = Cardinality(Executing)
    /\ inFlight <= MaxParallel

\* A node whose executor runs is running in the graph too, unless an abort
\* cancelled it; a pending node has not been started.
Started ==
    \A n \in Nodes :
        /\ worker[n] = "running" => status[n] = "running" \/ (status[n] = "cancelled" /\ aborted)
        /\ status[n] = "pending" => worker[n] = "none"

\* A worker's callback launches only while drain waits or was rejected, and no
\* worker is left when drain returns.
Position ==
    /\ launching => loop \in {"await", "rejected"}
    /\ loop = "returned" => Workers = {}

\* Cancelling closes every node at once; after an abort, drain's loop finds the
\* graph closed or a worker to wait for.
AllFinal == \A n \in Nodes : status[n] \in Terminal
Closing ==
    /\ (\E n \in Nodes : status[n] = "cancelled") => AllFinal
    /\ loop = "check" /\ aborted => AllFinal \/ Workers # {}
    /\ loop = "returned" => IF aborted THEN AllFinal ELSE ReadyNodes(status) = {}

Inv == /\ TypeOK
       /\ LocksAgree
       /\ Holding
       /\ Counted
       /\ Started
       /\ SafeOverlap
       /\ DependenciesFirst
       /\ Position
       /\ Closing
       /\ SkippedForCause

\* What a step may do to a node's status: final and failed nodes keep theirs,
\* and no node becomes pending again.
StatusKept ==
    \A n \in Nodes :
        /\ status[n] \in {"completed", "cancelled", "skipped", "failed"} => status'[n] = status[n]
        /\ status'[n] = "pending" => status[n] = "pending"

-----------------------------------------------------------------------------
(* Facts about the operators *)

\* The plan is one of PlanType, whichever was chosen.
LEMMA PlanFacts ==
    ASSUME TypeOK
    PROVE  /\ plan \in PlanType
           /\ plan.dependencies \in [Nodes -> SUBSET Nodes]
           /\ plan.resourceLocks \in [Nodes -> SUBSET Resources]
           /\ \A n \in Nodes : Wanted(n) \in SUBSET Resources
           /\ \A n \in Nodes : plan.resourceLocks[n] \subseteq Wanted(n)
<1>1. plan \in PlanType
  BY SchedulerAssumption DEF TypeOK
<1>2. /\ plan.dependencies \in [Nodes -> SUBSET Nodes]
      /\ plan.resourceLocks \in [Nodes -> SUBSET Resources]
  BY <1>1 DEF PlanType
<1>3. AllKnownResources \subseteq Resources
  BY <1>2 DEF AllKnownResources
<1>4. \A n \in Nodes : plan.resourceLocks[n] \subseteq AllKnownResources
  BY DEF AllKnownResources
<1> QED BY <1>1, <1>2, <1>3, <1>4 DEF Wanted

\* transition() changes one node, to the status asked for or not at all.
LEMMA MovedFacts ==
    ASSUME NEW st \in [Nodes -> Statuses], NEW n \in Nodes, NEW to \in Statuses
    PROVE  /\ Moved(st, n, to) \in [Nodes -> Statuses]
           /\ \A m \in Nodes \ {n} : Moved(st, n, to)[m] = st[m]
           /\ Moved(st, n, to)[n] \in {st[n], to}
           /\ st[n] \in {"completed", "cancelled", "skipped"} => Moved(st, n, to)[n] = st[n]
           /\ st[n] = "running" /\ to \in {"completed", "failed", "blocked", "cancelled"}
                => Moved(st, n, to)[n] = to
           /\ st[n] \in {"pending", "ready", "blocked"} /\ to = "cancelled"
                => Moved(st, n, to)[n] = to
  BY DEF Moved, TRANSITIONS, Statuses

\* cancelPending() leaves only final nodes.
LEMMA CancelledFacts ==
    ASSUME TypeOK
    PROVE  /\ Cancelled \in [Nodes -> Statuses]
           /\ \A n \in Nodes : Cancelled[n] = IF status[n] \in Terminal
                                              THEN status[n] ELSE "cancelled"
<1> SUFFICES ASSUME NEW n \in Nodes
             PROVE  /\ Cancelled[n] \in Statuses
                    /\ Cancelled[n] = IF status[n] \in Terminal THEN status[n] ELSE "cancelled"
  BY DEF Cancelled
<1>1. status \in [Nodes -> Statuses] /\ "cancelled" \in Statuses
  BY DEF TypeOK, Statuses
<1>2. status[n] \in {"pending", "ready", "blocked", "running"}
        => Moved(status, n, "cancelled")[n] = "cancelled"
  BY <1>1, MovedFacts
<1> QED BY <1>1, <1>2 DEF Cancelled, Statuses, Terminal

\* failExpiredNodes() fails nodes that have not started and changes no other.
LEMMA SweptFacts ==
    ASSUME TypeOK
    PROVE  /\ Swept \in [Nodes -> Statuses]
           /\ \A n \in Nodes : \/ Swept[n] = status[n]
                               \/ status[n] \in {"pending", "ready"} /\ Swept[n] = "failed"
  BY DEF TypeOK, Swept, Statuses

\* cascadeSkip() skips nodes that have not started, each because of a
\* dependency on the node it starts from or on one it skips too.
LEMMA CascadeFacts ==
    ASSUME NEW st \in [Nodes -> Statuses], NEW n \in Nodes
    PROVE  /\ CascadeSkip(st, n) \in [Nodes -> Statuses]
           /\ \A m \in Nodes :
                  \/ CascadeSkip(st, n)[m] = st[m]
                  \/ /\ st[m] \in {"pending", "ready", "blocked"}
                     /\ CascadeSkip(st, n)[m] = "skipped"
                     /\ \E d \in plan.dependencies[m] :
                            d = n \/ (d \in Nodes /\ CascadeSkip(st, n)[d] = "skipped")
<1> DEFINE open == {m \in Nodes : st[m] \in {"pending", "ready", "blocked"}}
           Closed(S) == \A m \in open : plan.dependencies[m] \cap (S \cup {n}) # {} => m \in S
           skipped == {m \in open : \A S \in SUBSET open : Closed(S) => m \in S}
<1>1. CascadeSkip(st, n) = [m \in Nodes |-> IF m \in skipped THEN "skipped" ELSE st[m]]
  BY DEF CascadeSkip
<1>2. ASSUME NEW m \in skipped
      PROVE  \E d \in plan.dependencies[m] : d \in skipped \cup {n}
  <2> SUFFICES ASSUME plan.dependencies[m] \cap (skipped \cup {n}) = {} PROVE FALSE
    OBVIOUS
  <2> DEFINE S == skipped \ {m}
  <2>1. ASSUME NEW k \in open, plan.dependencies[k] \cap (S \cup {n}) # {}
        PROVE  k \in S
    <3>1. k \in skipped
      <4> SUFFICES ASSUME NEW T \in SUBSET open, Closed(T) PROVE k \in T
        OBVIOUS
      <4>1. skipped \subseteq T
        OBVIOUS
      <4> QED BY <2>1, <4>1
    <3>2. k # m
      BY <2>1
    <3> QED BY <3>1, <3>2
  <2>2. S \in SUBSET open /\ Closed(S)
    BY <2>1
  <2> QED BY <2>2
<1>3. skipped \subseteq open
  OBVIOUS
<1> HIDE DEF skipped
<1> QED BY <1>1, <1>2, <1>3 DEF Statuses

-----------------------------------------------------------------------------
LEMMA InitInv == Init => Inv
<1> SUFFICES ASSUME Init PROVE Inv
  OBVIOUS
<1>1. TypeOK
  BY DEF Init, TypeOK, Statuses
<1>2. Executing = {} /\ Workers = {}
  BY DEF Init, Executing, Workers
<1>3. Counted
  BY <1>2, FS_EmptySet, SchedulerAssumption DEF Init, Counted
<1>4. LocksAgree /\ Holding /\ Started /\ SkippedForCause
  BY DEF Init, LocksAgree, Holding, Started, SkippedForCause
<1>5. SafeOverlap /\ DependenciesFirst
  BY <1>2 DEF SafeOverlap, DependenciesFirst
<1>6. Position /\ Closing
  BY <1>2 DEF Init, Position, Closing
<1> QED BY <1>1, <1>3, <1>4, <1>5, <1>6 DEF Inv

\* Whatever keeps status, worker and plan keeps what relates them.
LEMMA DependenciesStay ==
    ASSUME Inv, StatusKept, TypeOK', plan' = plan, Executing' \subseteq Executing
    PROVE  DependenciesFirst'
<1> SUFFICES ASSUME NEW n \in Executing', NEW d \in plan.dependencies[n]
             PROVE  status'[d] = "completed"
  BY DEF DependenciesFirst
<1>1. n \in Executing /\ d \in Nodes
  BY PlanFacts DEF Inv, Executing
<1>2. status[d] = "completed"
  BY <1>1 DEF Inv, DependenciesFirst
<1> QED BY <1>1, <1>2 DEF StatusKept

\* A skipped node keeps its cause as long as nothing else is skipped.
LEMMA CauseStays ==
    ASSUME Inv, StatusKept, plan' = plan,
           \A n \in Nodes : status'[n] = "skipped" => status[n] = "skipped"
    PROVE  SkippedForCause'
<1> SUFFICES ASSUME NEW n \in Nodes, status'[n] = "skipped"
             PROVE  \E d \in plan.dependencies[n] : status'[d] \in {"failed", "skipped"}
  BY DEF SkippedForCause
<1>1. PICK d \in plan.dependencies[n] : status[d] \in {"failed", "skipped"}
  BY DEF Inv, SkippedForCause
<1>2. d \in Nodes
  BY PlanFacts DEF Inv
<1> QED BY <1>1, <1>2 DEF StatusKept

\* A step that starts and ends nothing: workers, locks and counts stay.
Quiet == UNCHANGED <<plan, registry, worker, inFlight>>

LEMMA QuietInv ==
    ASSUME Inv, TypeOK', Quiet, StatusKept, Closing', Position',
           \A n \in Nodes : status'[n] = "skipped" => status[n] = "skipped",
           \A n \in Nodes : status[n] = "running" =>
               status'[n] = "running" \/ (status'[n] = "cancelled" /\ aborted'),
           aborted => aborted'
    PROVE  Inv'
<1>1. Executing' = Executing /\ Workers' = Workers
  BY DEF Quiet, Executing, Workers
<1>2. LocksAgree' /\ Counted' /\ SafeOverlap'
  BY <1>1 DEF Quiet, registry, Inv, LocksAgree, Counted, SafeOverlap
<1>3. Holding'
  BY DEF Quiet, registry, Inv, Holding, Wanted, AllKnownResources
<1>4. Started'
  BY DEF Quiet, Inv, Started, StatusKept
<1>5. DependenciesFirst' /\ SkippedForCause'
  BY <1>1, DependenciesStay, CauseStays DEF Quiet
<1> QED BY <1>2, <1>3, <1>4, <1>5 DEF Inv

-----------------------------------------------------------------------------
(* One lemma per action *)

LEMMA ClaimInv ==
    ASSUME Inv, NEW n \in Nodes, Claim(n)
    PROVE  Inv' /\ StatusKept
<1> USE DEF Claim
<1>1. /\ Swept[n] = "pending" /\ DepsSatisfied(Swept, n)
      /\ Isolated(n) /\ Locks!FreeSet(holders, Wanted(n))
      /\ InLaunch /\ ~aborted /\ inFlight < MaxParallel
      /\ RunningNodes(status) \cap plan.exclusive = {}
  BY DEF Claimable, ReadyNodes, MayClaim
<1>2. status[n] = "pending" /\ worker[n] = "none" /\ heldBy[n] = {}
  BY <1>1, SweptFacts DEF Inv, Started, Holding
<1>3. /\ plan' = plan /\ loop' = loop /\ launching' = launching /\ aborted' = aborted
      /\ status' = [Swept EXCEPT ![n] = "running"]
      /\ worker' = [worker EXCEPT ![n] = "running"]
      /\ inFlight' = inFlight + 1
      /\ holders' = [r \in Resources |->
                        IF r \in Wanted(n) THEN holders[r] \cup {n} ELSE holders[r]]
      /\ heldBy' = [heldBy EXCEPT ![n] = Wanted(n)]
  BY DEF Locks!TryAcquire, Locks!Granted
<1>4. TypeOK'
  BY <1>3, SweptFacts, PlanFacts DEF Inv, TypeOK, Statuses
<1>5. StatusKept
  BY <1>2, <1>3, SweptFacts DEF StatusKept, Inv, TypeOK
<1>6. Executing' = Executing \cup {n} /\ n \notin Executing
  BY <1>2, <1>3 DEF Executing, Inv, TypeOK
<1>7. LocksAgree'
  BY <1>1, <1>2, <1>3, PlanFacts DEF Inv, TypeOK, LocksAgree, Locks!FreeSet
<1>8. Holding'
  <2>1. \A m \in Nodes : Wanted(m)' = Wanted(m)
    BY <1>3 DEF Wanted, AllKnownResources
  <2> QED BY <1>3, <2>1 DEF Inv, TypeOK, Holding
<1>9. Counted'
  <2>1. IsFiniteSet(Executing)
    BY SchedulerAssumption, FS_Subset DEF Executing
  <2>2. Cardinality(Executing') = Cardinality(Executing) + 1
    BY <1>6, <2>1, FS_AddElement
  <2> QED BY <1>1, <1>3, <2>2, SchedulerAssumption DEF Inv, TypeOK, Counted
<1>10. Started'
  BY <1>1, <1>2, <1>3, SweptFacts DEF Inv, TypeOK, Started
<1>11. SafeOverlap'
  <2>1. ASSUME NEW m \in Executing
        PROVE  /\ m \notin plan.exclusive /\ n \notin plan.exclusive
               /\ plan.resourceLocks[m] \cap plan.resourceLocks[n] = {}
    <3>1. m \in Nodes /\ worker[m] = "running" /\ status[m] = "running"
      BY <1>1 DEF Executing, Inv, Started
    <3>2. m \in RunningNodes(status)
      BY <3>1 DEF RunningNodes
    <3>3. heldBy[m] = Wanted(m)
      BY <3>1 DEF Inv, Holding
    <3>4. \A r \in Wanted(n) : r \notin heldBy[m]
      BY <1>1, <3>1, PlanFacts DEF Locks!FreeSet, Inv, LocksAgree
    <3> QED BY <1>1, <3>1, <3>2, <3>3, <3>4, PlanFacts DEF Isolated, Inv
  <2> QED BY <1>3, <1>6, <2>1 DEF Inv, SafeOverlap
<1>12. DependenciesFirst'
  <2> SUFFICES ASSUME NEW m \in Executing', NEW d \in plan.dependencies[m]
               PROVE  status'[d] = "completed"
    BY <1>3 DEF DependenciesFirst
  <2>1. m \in Nodes /\ d \in Nodes
    BY PlanFacts DEF Inv, Executing
  <2>2. status[d] = "completed"
    <3>1. CASE m = n
      BY <1>1, <2>1, <3>1, SweptFacts DEF DepsSatisfied, Inv
    <3>2. CASE m # n
      BY <1>6, <3>2 DEF Inv, DependenciesFirst
    <3> QED BY <3>1, <3>2
  <2> QED BY <1>5, <2>1, <2>2 DEF StatusKept
<1>13. Position'
  BY <1>1, <1>3 DEF Inv, Position, InLaunch
<1>14. Closing'
  <2>1. \A m \in Nodes : status[m] # "cancelled"
    BY <1>2 DEF Inv, Closing, AllFinal, Terminal
  <2>2. \A m \in Nodes : status'[m] # "cancelled"
    BY <1>3, <2>1, SweptFacts DEF Inv, TypeOK
  <2>3. loop' \notin {"check", "returned"}
    BY <1>1, <1>3 DEF Inv, Position, InLaunch
  <2> QED BY <2>2, <2>3 DEF Closing
<1>15. SkippedForCause'
  <2>1. \A m \in Nodes : status'[m] = "skipped" => status[m] = "skipped"
    BY <1>3, SweptFacts DEF Inv, TypeOK
  <2> QED BY <1>3, <1>5, <2>1, CauseStays
<1> QED BY <1>4, <1>5, <1>7, <1>8, <1>9, <1>10, <1>11, <1>12, <1>13, <1>14, <1>15 DEF Inv

LEMMA LaunchFullInv ==
    ASSUME Inv, LaunchFull
    PROVE  Inv' /\ StatusKept
<1> USE DEF LaunchFull, LaunchEnds
<1>1. Quiet /\ TypeOK' /\ StatusKept
  BY DEF Quiet, Inv, TypeOK, StatusKept, registry
<1>2. Workers # {} /\ Workers' = Workers
  <2>1. Workers # {}
    BY SchedulerAssumption, FS_EmptySet
  <2> QED BY <2>1 DEF Workers
<1>3. Position'
  BY <1>2 DEF Inv, Position, InLaunch
<1>4. Closing'
  BY <1>2 DEF Inv, Position, Closing, InLaunch, AllFinal
<1> QED BY <1>1, <1>3, <1>4, QuietInv DEF Inv, TypeOK

LEMMA LaunchAbortedInv ==
    ASSUME Inv, LaunchAborted
    PROVE  Inv' /\ StatusKept
<1> USE DEF LaunchAborted, LaunchEnds
<1>1. Quiet /\ TypeOK'
  BY CancelledFacts DEF Quiet, Inv, TypeOK, registry
<1>2. AllFinal'
  BY CancelledFacts DEF AllFinal, Terminal, Inv
<1>3. StatusKept
  BY CancelledFacts DEF StatusKept, Terminal, Inv
<1>4. Position'
  BY DEF Inv, Position, InLaunch, Workers
<1>5. Closing'
  BY <1>2 DEF Inv, Position, Closing, InLaunch
<1>6. \A n \in Nodes :
          /\ status'[n] = "skipped" => status[n] = "skipped"
          /\ status[n] = "running" => status'[n] = "cancelled"
  BY CancelledFacts DEF Terminal, Inv
<1> QED BY <1>1, <1>3, <1>4, <1>5, <1>6, QuietInv

LEMMA LaunchIdleInv ==
    ASSUME Inv, LaunchIdle
    PROVE  Inv' /\ StatusKept
<1> USE DEF LaunchIdle, LaunchEnds
<1>1. \A n \in Nodes :
          \/ status'[n] = status[n]
          \/ status[n] \in {"pending", "ready"} /\ status'[n] = "failed"
  BY SweptFacts DEF Inv
<1>2. Quiet /\ TypeOK'
  BY SweptFacts DEF Quiet, Inv, TypeOK, registry
<1>3. StatusKept
  BY <1>1 DEF StatusKept
<1>4. Position'
  BY DEF Inv, Position, InLaunch, Workers
<1>5. Closing'
  BY <1>1 DEF Inv, Position, Closing, InLaunch, AllFinal, Terminal
<1> QED BY <1>1, <1>2, <1>3, <1>4, <1>5, QuietInv

\* The part that every ending of an executor has in common: the slot and the
\* locks go back, also when the outcome comes after an abort.
LEMMA EndInv ==
    ASSUME Inv, NEW n \in Nodes, NEW w \in {"settled", "threw"},
           ~Busy, worker[n] = "running", FinishClaim(n),
           worker' = [worker EXCEPT ![n] = w],
           UNCHANGED <<plan, attempt, launching, loop, aborted, expired>>,
           status' \in [Nodes -> Statuses], StatusKept, SkippedForCause',
           \A m \in Nodes \ {n} : status[m] = "running" => status'[m] = "running",
           \A m \in Nodes : status'[m] = "cancelled" => status[m] = "cancelled"
    PROVE  Inv'
<1> USE DEF FinishClaim
<1>1. Executing' = Executing \ {n} /\ n \in Executing
  BY DEF Executing, Inv, TypeOK
<1>2. /\ IsFiniteSet(Executing) /\ Cardinality(Executing) \in Nat
      /\ Cardinality(Executing) # 0
      /\ Cardinality(Executing') = Cardinality(Executing) - 1
  <2>1. IsFiniteSet(Executing)
    BY SchedulerAssumption, FS_Subset DEF Executing
  <2>2. Cardinality(Executing) # 0
    BY <1>1, <2>1, FS_EmptySet
  <2> QED BY <1>1, <2>1, <2>2, FS_CardinalityType, FS_RemoveElement
<1>3. inFlight' = inFlight - 1 /\ inFlight' \in Nat
  BY <1>2 DEF Inv, TypeOK, Counted
<1>4. holders' = [r \in Resources |->
                     IF r \in heldBy[n] THEN holders[r] \ {n} ELSE holders[r]]
  BY DEF Locks!Returned
<1>5. TypeOK'
  <2>1. holders' \in [Resources -> SUBSET Nodes]
    BY <1>4 DEF Inv, TypeOK
  <2>2. heldBy' \in [Nodes -> SUBSET Resources]
    BY DEF Inv, TypeOK
  <2>3. worker' \in [Nodes -> {"none", "running", "settled", "threw"}]
    BY DEF Inv, TypeOK
  <2> QED BY <1>3, <2>1, <2>2, <2>3 DEF Inv, TypeOK
<1>6. LocksAgree'
  BY <1>4 DEF Inv, TypeOK, LocksAgree
<1>7. Holding'
  <2>1. \A m \in Nodes : Wanted(m)' = Wanted(m)
    BY DEF Wanted, AllKnownResources
  <2> QED BY <2>1 DEF Inv, TypeOK, Holding
<1>8. Counted'
  BY <1>2, <1>3, SchedulerAssumption DEF Inv, TypeOK, Counted
<1>9. Started'
  BY DEF Inv, TypeOK, Started, StatusKept
<1>10. SafeOverlap'
  BY <1>1 DEF Inv, SafeOverlap
<1>11. DependenciesFirst'
  BY <1>1, <1>5, DependenciesStay
<1>12. loop \notin {"launch", "check", "returned"}
  BY DEF Busy, InLaunch, Inv, Position, Workers
<1>13. Position'
  BY <1>12 DEF Inv, Position
<1>14. Closing'
  BY <1>12 DEF Inv, Closing, AllFinal, Terminal, StatusKept
<1> QED BY <1>5, <1>6, <1>7, <1>8, <1>9, <1>10, <1>11, <1>13, <1>14 DEF Inv

\* A node whose executor runs is running or was cancelled.
LEMMA ExecutingStatus ==
    ASSUME Inv, NEW n \in Nodes, worker[n] = "running"
    PROVE  status[n] = "running" \/ (status[n] = "cancelled" /\ AllFinal)
  BY DEF Inv, Started, Closing

LEMMA SucceedInv ==
    ASSUME Inv, NEW n \in Nodes, Succeed(n)
    PROVE  Inv' /\ StatusKept
<1> USE DEF Succeed, Finish
<1>1. status \in [Nodes -> Statuses] /\ "completed" \in Statuses
  BY DEF Inv, TypeOK, Statuses
<1>2. /\ status' \in [Nodes -> Statuses]
      /\ \A m \in Nodes \ {n} : status'[m] = status[m]
      /\ status'[n] \in {status[n], "completed"}
      /\ status[n] = "cancelled" => status'[n] = "cancelled"
  BY <1>1, MovedFacts
<1>3. StatusKept
  BY <1>2, ExecutingStatus DEF StatusKept
<1>4. SkippedForCause'
  BY <1>2, <1>3, CauseStays
<1> QED BY <1>2, <1>3, <1>4, EndInv

LEMMA BlockInv ==
    ASSUME Inv, NEW n \in Nodes, Block(n)
    PROVE  Inv' /\ StatusKept
<1> USE DEF Block, Finish
<1>1. status \in [Nodes -> Statuses] /\ "blocked" \in Statuses
  BY DEF Inv, TypeOK, Statuses
<1>2. /\ status' \in [Nodes -> Statuses]
      /\ \A m \in Nodes \ {n} : status'[m] = status[m]
      /\ status'[n] \in {status[n], "blocked"}
      /\ status[n] = "cancelled" => status'[n] = "cancelled"
  BY <1>1, MovedFacts
<1>3. StatusKept
  BY <1>2, ExecutingStatus DEF StatusKept
<1>4. SkippedForCause'
  BY <1>2, <1>3, CauseStays
<1> QED BY <1>2, <1>3, <1>4, EndInv

LEMMA ThrowInv ==
    ASSUME Inv, NEW n \in Nodes, Throw(n)
    PROVE  Inv' /\ StatusKept
<1> USE DEF Throw
<1>1. StatusKept /\ status' \in [Nodes -> Statuses]
  BY DEF StatusKept, Inv, TypeOK
<1>2. SkippedForCause'
  BY <1>1, CauseStays
<1> QED BY <1>1, <1>2, EndInv

\* complete() with a failure: n fails and may be ready again, or its dependents
\* are skipped; a cancelled node stays as it is, and then nothing is left to skip.
LEMMA FailedFacts ==
    ASSUME Inv, NEW n \in Nodes, worker[n] = "running"
    PROVE  /\ Failed(n) \in [Nodes -> Statuses]
           /\ \A m \in Nodes \ {n} :
                  \/ Failed(n)[m] = status[m]
                  \/ /\ status[m] \in {"pending", "ready", "blocked"}
                     /\ Failed(n)[m] = "skipped"
                     /\ Failed(n)[n] = "failed"
                     /\ \E d \in plan.dependencies[m] :
                            d = n \/ (d \in Nodes /\ Failed(n)[d] = "skipped")
           /\ Failed(n)[n] \in {status[n], "failed", "ready"}
           /\ status[n] = "cancelled" => Failed(n)[n] = "cancelled"
<1> DEFINE st == Moved(status, n, "failed")
<1>1. status \in [Nodes -> Statuses] /\ {"failed", "ready"} \subseteq Statuses
  BY DEF Inv, TypeOK, Statuses
<1>2. /\ st \in [Nodes -> Statuses]
      /\ \A m \in Nodes \ {n} : st[m] = status[m]
      /\ st[n] \in {status[n], "failed"}
      /\ status[n] = "cancelled" => st[n] = "cancelled"
      /\ status[n] = "running" => st[n] = "failed"
  BY <1>1, MovedFacts
<1>3. status[n] = "running" \/ (status[n] = "cancelled" /\ AllFinal)
  BY ExecutingStatus
<1> HIDE DEF st
<1>4. CASE attempt[n] <= plan.maxRetries[n]
  <2>1. Failed(n) = Moved(st, n, "ready")
    BY <1>4 DEF Failed, st
  <2>2. /\ Moved(st, n, "ready") \in [Nodes -> Statuses]
        /\ \A m \in Nodes \ {n} : Moved(st, n, "ready")[m] = st[m]
        /\ Moved(st, n, "ready")[n] \in {st[n], "ready"}
        /\ st[n] = "cancelled" => Moved(st, n, "ready")[n] = st[n]
    <3>1. "ready" \in Statuses /\ st \in [Nodes -> Statuses]
      BY <1>1, <1>2
    <3> QED BY <3>1, MovedFacts
  <2> QED BY <1>2, <2>1, <2>2
<1>5. CASE ~(attempt[n] <= plan.maxRetries[n])
  <2>1. Failed(n) = CascadeSkip(st, n)
    BY <1>5 DEF Failed, st
  <2>2. /\ Failed(n) \in [Nodes -> Statuses]
        /\ \A m \in Nodes :
              \/ Failed(n)[m] = st[m]
              \/ /\ st[m] \in {"pending", "ready", "blocked"}
                 /\ Failed(n)[m] = "skipped"
                 /\ \E d \in plan.dependencies[m] :
                        d = n \/ (d \in Nodes /\ Failed(n)[d] = "skipped")
    BY <1>2, <2>1, CascadeFacts
  <2>3. Failed(n)[n] = st[n]
    BY <1>2, <1>3, <2>2
  <2>4. CASE status[n] = "running"
    BY <1>2, <2>2, <2>3, <2>4
  <2>5. CASE status[n] = "cancelled" /\ AllFinal
    BY <1>2, <2>2, <2>3, <2>5 DEF AllFinal, Terminal
  <2> QED BY <1>3, <2>4, <2>5
<1> QED BY <1>4, <1>5

LEMMA FailInv ==
    ASSUME Inv, NEW n \in Nodes, Fail(n)
    PROVE  Inv' /\ StatusKept
<1> USE DEF Fail, Finish
<1>1. /\ status' \in [Nodes -> Statuses]
      /\ \A m \in Nodes \ {n} :
             \/ status'[m] = status[m]
             \/ /\ status[m] \in {"pending", "ready", "blocked"}
                /\ status'[m] = "skipped"
                /\ status'[n] = "failed"
                /\ \E d \in plan.dependencies[m] :
                       d = n \/ (d \in Nodes /\ status'[d] = "skipped")
      /\ status'[n] \in {status[n], "failed", "ready"}
      /\ status[n] = "cancelled" => status'[n] = "cancelled"
  BY FailedFacts
<1>2. StatusKept
  BY <1>1, ExecutingStatus DEF StatusKept
<1>3. SkippedForCause'
  <2> SUFFICES ASSUME NEW m \in Nodes, status'[m] = "skipped"
               PROVE  \E d \in plan.dependencies[m] : status'[d] \in {"failed", "skipped"}
    BY DEF SkippedForCause
  <2>1. m # n
    BY <1>1, ExecutingStatus
  <2>2. CASE status[m] = "skipped"
    <3>1. PICK d \in plan.dependencies[m] : status[d] \in {"failed", "skipped"}
      BY <2>2 DEF Inv, SkippedForCause
    <3>2. d \in Nodes
      BY PlanFacts DEF Inv
    <3> QED BY <1>2, <3>1, <3>2 DEF StatusKept
  <2>3. CASE status[m] # "skipped"
    BY <1>1, <2>1, <2>3
  <2> QED BY <2>2, <2>3
<1>4. \A m \in Nodes \ {n} : status[m] = "running" => status'[m] = "running"
  BY <1>1
<1>5. \A m \in Nodes : status'[m] = "cancelled" => status[m] = "cancelled"
  BY <1>1
<1> QED BY <1>1, <1>2, <1>3, <1>4, <1>5, EndInv

LEMMA SettleInv ==
    ASSUME Inv, NEW n \in Nodes, Settle(n)
    PROVE  Inv' /\ StatusKept
<1> USE DEF Settle
<1>1. worker' = [worker EXCEPT ![n] = "none"] /\ worker[n] # "running"
  OBVIOUS
<1>2. loop \notin {"launch", "check", "returned"} /\ loop' \in {loop, "await", "rejected"}
  BY DEF Busy, InLaunch, Inv, Position, Workers
<1>3. loop' = loop \/ loop = "await"
  OBVIOUS
<1>4. TypeOK' /\ StatusKept
  BY <1>1, <1>2 DEF Inv, TypeOK, StatusKept, registry
<1>5. Executing' = Executing
  BY <1>1 DEF Executing, Inv, TypeOK
<1>6. LocksAgree' /\ Counted' /\ SafeOverlap'
  BY <1>5 DEF Inv, LocksAgree, Counted, SafeOverlap, registry
<1>7. Holding'
  <2>1. \A m \in Nodes : Wanted(m)' = Wanted(m)
    BY DEF Wanted, AllKnownResources
  <2> QED BY <1>1, <2>1 DEF Inv, TypeOK, Holding, registry
<1>8. Started'
  BY <1>1 DEF Inv, TypeOK, Started
<1>9. DependenciesFirst' /\ SkippedForCause'
  BY <1>4, <1>5, DependenciesStay, CauseStays
<1>10. Position' /\ Closing'
  <2>1. loop' \in {"await", "rejected"}
    BY <1>2, <1>3 DEF Inv, TypeOK
  <2> QED BY <2>1 DEF Inv, Position, Closing, AllFinal
<1> QED BY <1>4, <1>6, <1>7, <1>8, <1>9, <1>10 DEF Inv

LEMMA WakeInv ==
    ASSUME Inv, Wake
    PROVE  Inv' /\ StatusKept
<1> USE DEF Wake
<1>1. Quiet /\ TypeOK' /\ StatusKept
  BY DEF Quiet, Inv, TypeOK, StatusKept, registry
<1>2. Position' /\ Closing'
  BY DEF Inv, Busy, InLaunch, Position, Closing, AllFinal
<1> QED BY <1>1, <1>2, QuietInv DEF Inv, TypeOK

LEMMA CheckWaitInv ==
    ASSUME Inv, CheckWait
    PROVE  Inv' /\ StatusKept
<1> USE DEF CheckWait
<1>1. Quiet /\ TypeOK' /\ StatusKept
  BY DEF Quiet, Inv, TypeOK, StatusKept, registry
<1>2. Position' /\ Closing'
  BY DEF Inv, Position, Closing, AllFinal
<1> QED BY <1>1, <1>2, QuietInv DEF Inv, TypeOK

LEMMA CheckStuckInv ==
    ASSUME Inv, CheckStuck
    PROVE  Inv' /\ StatusKept
<1> USE DEF CheckStuck
<1>1. \A n \in Nodes :
          \/ status'[n] = status[n] /\ status[n] \notin {"pending", "ready"}
          \/ status[n] \in {"pending", "ready"} /\ status'[n] = "blocked"
  BY DEF Stuck
<1>2. Quiet /\ TypeOK'
  BY DEF Quiet, Inv, TypeOK, Statuses, Stuck, registry
<1>3. StatusKept
  BY <1>1 DEF StatusKept
<1>4. ~aborted /\ aborted' = aborted
  BY DEF HasRunnableWork
<1>5. Position'
  BY DEF Inv, Position, Workers
<1>6. Closing'
  <2>1. \A n \in Nodes : status[n] # "cancelled"
    BY <1>4, <1>1 DEF Inv, Closing, AllFinal, Terminal, HasRunnableWork, ReadyNodes
  <2>2. \A n \in Nodes : status'[n] # "cancelled"
    BY <1>1, <2>1
  <2>3. loop' # "check" /\ (loop' = "returned" => ReadyNodes(status') = {})
    OBVIOUS
  <2>4. ReadyNodes(status)' = ReadyNodes(status')
    BY DEF ReadyNodes, DepsSatisfied
  <2> QED BY <1>4, <2>2, <2>3, <2>4 DEF Closing
<1> QED BY <1>1, <1>2, <1>3, <1>4, <1>5, <1>6, QuietInv

LEMMA CheckDoneInv ==
    ASSUME Inv, CheckDone
    PROVE  Inv' /\ StatusKept
<1> USE DEF CheckDone
<1>1. Quiet /\ TypeOK' /\ StatusKept
  BY DEF Quiet, Inv, TypeOK, StatusKept, registry
<1>2. Position'
  BY DEF Inv, Position, Workers
<1>3. Closing'
  <2>1. ReadyNodes(status)' = ReadyNodes(status)
    BY DEF ReadyNodes, DepsSatisfied
  <2> QED BY <2>1 DEF Inv, Closing, AllFinal, HasRunnableWork
<1> QED BY <1>1, <1>2, <1>3, QuietInv DEF Inv, TypeOK

LEMMA AbortInv ==
    ASSUME Inv, Abort
    PROVE  Inv' /\ StatusKept
<1> USE DEF Abort
<1>1. Quiet /\ TypeOK' /\ StatusKept
  BY DEF Quiet, Inv, TypeOK, StatusKept, registry
<1>2. Position' /\ Closing'
  BY DEF Inv, Busy, Position, Closing, AllFinal, Workers
<1> QED BY <1>1, <1>2, QuietInv DEF Inv, TypeOK

LEMMA ExpireInv ==
    ASSUME Inv, NEW n \in Nodes, Expire(n)
    PROVE  Inv' /\ StatusKept
<1> USE DEF Expire
<1>1. Quiet /\ TypeOK' /\ StatusKept
  BY DEF Quiet, Inv, TypeOK, StatusKept, registry
<1>2. Position' /\ Closing'
  BY DEF Inv, Position, Closing, AllFinal, Workers
<1> QED BY <1>1, <1>2, QuietInv DEF Inv, TypeOK

LEMMA NextInv == Inv /\ [Next]_vars => Inv' /\ [StatusKept]_vars
<1> SUFFICES ASSUME Inv, [Next]_vars PROVE Inv' /\ [StatusKept]_vars
  OBVIOUS
<1>1. CASE UNCHANGED vars
  <2>1. Quiet /\ TypeOK' /\ StatusKept
    BY <1>1 DEF vars, Quiet, Inv, TypeOK, StatusKept, registry
  <2>2. Position' /\ Closing'
    BY <1>1 DEF vars, Inv, Position, Closing, AllFinal, Workers, ReadyNodes, DepsSatisfied
  <2>3. status' = status /\ aborted' = aborted
    BY <1>1 DEF vars
  <2> QED BY <2>1, <2>2, <2>3, <1>1, QuietInv DEF Inv
<1>2. CASE Next
  <2>1. \/ \E n \in Nodes :
               \/ Claim(n) \/ Succeed(n) \/ Fail(n) \/ Block(n)
               \/ Throw(n) \/ Settle(n) \/ Expire(n)
        \/ LaunchFull \/ LaunchAborted \/ LaunchIdle
        \/ Wake \/ CheckWait \/ CheckStuck \/ CheckDone \/ Abort
    BY <1>2 DEF Next
  <2> QED BY <2>1, ClaimInv, SucceedInv, FailInv, BlockInv, ThrowInv, SettleInv, ExpireInv,
             LaunchFullInv, LaunchAbortedInv, LaunchIdleInv, WakeInv, CheckWaitInv,
             CheckStuckInv, CheckDoneInv, AbortInv
<1> QED BY <1>1, <1>2

\* The invariant holds in every reachable state of the scheduler.
LEMMA SpecInv == Spec => []Inv
  BY InitInv, NextInv, PTL DEF Spec

-----------------------------------------------------------------------------
\* The scheduler's variables have their types.
THEOREM SchedulerTypeOK == Spec => []TypeOK
<1>1. Inv => TypeOK
  BY DEF Inv
<1> QED BY <1>1, SpecInv, PTL

\* Nodes whose executors run together share no lock, and an exclusive node
\* runs alone.
THEOREM SchedulerSafeOverlap == Spec => []SafeOverlap
<1>1. Inv => SafeOverlap
  BY DEF Inv
<1> QED BY <1>1, SpecInv, PTL

\* A node runs on completed dependencies only.
THEOREM SchedulerDependenciesFirst == Spec => []DependenciesFirst
<1>1. Inv => DependenciesFirst
  BY DEF Inv
<1> QED BY <1>1, SpecInv, PTL

\* The count of claims is the number of executors, within the limit, and no
\* ending leaks a slot or a lock.
THEOREM SchedulerCapacityExact == Spec => []CapacityExact
<1>1. Inv => CapacityExact
  BY DEF Inv, Counted, Holding, CapacityExact, Executing
<1> QED BY <1>1, SpecInv, PTL

\* Every skipped node has a dependency that failed or was skipped.
THEOREM SchedulerSkippedForCause == Spec => []SkippedForCause
<1>1. Inv => SkippedForCause
  BY DEF Inv
<1> QED BY <1>1, SpecInv, PTL

\* When drain returns, nothing runs, no lock is held, and nothing could start.
THEOREM SchedulerReturnsWhenIdle == Spec => []ReturnsWhenIdle
<1>1. Inv => ReturnsWhenIdle
  <2> SUFFICES ASSUME Inv, loop = "returned" PROVE ReturnsWhenIdle
    BY DEF ReturnsWhenIdle
  <2>1. Workers = {} /\ (aborted \/ ReadyNodes(status) = {})
    BY DEF Inv, Position, Closing
  <2>2. \A n \in Nodes : heldBy[n] = {}
    BY <2>1 DEF Inv, Holding, Workers
  <2>3. \A r \in Resources : holders[r] = {}
    BY <2>2 DEF Inv, TypeOK, LocksAgree
  <2> QED BY <2>1, <2>3 DEF ReturnsWhenIdle
<1> QED BY <1>1, SpecInv, PTL

\* After an abort, drain returns with every node in a final status.
THEOREM SchedulerAbortClosesGraph == Spec => []AbortClosesGraph
<1>1. Inv => AbortClosesGraph
  BY DEF Inv, Closing, AllFinal, AbortClosesGraph
<1> QED BY <1>1, SpecInv, PTL

\* No late outcome changes a completed, cancelled or skipped node.
THEOREM SchedulerFinalStays == Spec => FinalStays
<1> DEFINE Step == \A n \in Nodes : status[n] \in {"completed", "cancelled", "skipped"}
                                      => status'[n] = status[n]
<1>1. Inv /\ [Next]_vars => [Step]_vars
  BY NextInv DEF StatusKept
<1> QED BY <1>1, SpecInv, PTL DEF Spec, FinalStays

-----------------------------------------------------------------------------
Alloc == INSTANCE Allocator WITH Calls <- Nodes, held <- heldBy

\* The scheduler is a client that keeps to the registry's promise: every claim
\* is a grant of everything the node wants, when no other node holds any of it,
\* and every ending of an executor, a throw too, gives all of it back.
THEOREM SchedulerImplementsAllocator == Spec => Alloc!Spec
<1>1. Init => Alloc!Init
  BY DEF Init, Alloc!Init
<1>2. Inv /\ [Next]_vars => [Alloc!Next]_heldBy
  <2> SUFFICES ASSUME Inv, Next PROVE Alloc!Next \/ heldBy' = heldBy
    BY DEF vars
  <2>1. ASSUME NEW n \in Nodes, Claim(n)
        PROVE  Alloc!Grant(n)
    <3>1. Swept[n] = "pending" /\ Locks!FreeSet(holders, Wanted(n))
      BY <2>1 DEF Claim, Claimable, ReadyNodes
    <3>2. heldBy[n] = {}
      BY <3>1, SweptFacts DEF Inv, Started, Holding
    <3>3. Wanted(n) \in SUBSET Resources
      BY PlanFacts DEF Inv
    <3>4. heldBy' = [heldBy EXCEPT ![n] = Wanted(n)]
      BY <2>1 DEF Claim, Locks!TryAcquire, Locks!Granted
    <3>5. Wanted(n) \cap Alloc!HeldByOthers(n) = {}
      BY <3>1, <3>3 DEF Locks!FreeSet, Alloc!HeldByOthers, Inv, LocksAgree
    <3> QED BY <3>2, <3>3, <3>4, <3>5 DEF Alloc!Grant
  <2>2. ASSUME NEW n \in Nodes, FinishClaim(n)
        PROVE  Alloc!Free(n)
    BY <2>2 DEF FinishClaim, Alloc!Free
  <2>3. \/ \E n \in Nodes :
               \/ Claim(n) \/ Succeed(n) \/ Fail(n) \/ Block(n)
               \/ Throw(n) \/ Settle(n) \/ Expire(n)
        \/ LaunchFull \/ LaunchAborted \/ LaunchIdle
        \/ Wake \/ CheckWait \/ CheckStuck \/ CheckDone \/ Abort
    BY DEF Next
  <2>4. CASE \E n \in Nodes : Claim(n) \/ FinishClaim(n)
    BY <2>1, <2>2, <2>4 DEF Alloc!Next
  <2>5. ASSUME NEW n \in Nodes,
               Succeed(n) \/ Fail(n) \/ Block(n) \/ Throw(n)
        PROVE  FinishClaim(n)
    BY <2>5 DEF Succeed, Fail, Block, Throw, Finish
  <2>6. ASSUME NEW n \in Nodes, Settle(n) \/ Expire(n)
        PROVE  heldBy' = heldBy
    BY <2>6 DEF Settle, Expire, registry
  <2>7. CASE \/ LaunchFull \/ LaunchAborted \/ LaunchIdle
             \/ Wake \/ CheckWait \/ CheckStuck \/ CheckDone \/ Abort
    BY <2>7 DEF LaunchFull, LaunchAborted, LaunchIdle, LaunchEnds, Wake, CheckWait,
                CheckStuck, CheckDone, Abort, registry
  <2> QED BY <2>3, <2>4, <2>5, <2>6, <2>7
<1> QED BY <1>1, <1>2, SpecInv, PTL DEF Spec, Alloc!Spec
=============================================================================
