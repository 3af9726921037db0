-------------------------- MODULE ConcurrencyGate --------------------------
(***************************************************************************)
(* src/core/concurrency/gate.ts: the ConcurrencyGate, a counting semaphore *)
(* with two FIFO lanes.  Every layer of the runtime takes leases from one  *)
(* (GateRegistry keys them by scope): agent runs, model calls, tool calls, *)
(* the steps of a plan.                                                    *)
(*                                                                         *)
(* Everything in the class runs synchronously between two awaits of its    *)
(* callers, so each method call is one action.  A lease is the closure     *)
(* that grantLease returns; the callers holding an unused one are the set  *)
(* holders.  Each acquire carries its own abort signal, and aborting it    *)
(* runs the waiter's listener in the same synchronous step; a signal that  *)
(* several waiters share is a run of Abort steps.  Calls that only throw   *)
(* (an aborted signal, a saturated queue) change nothing and are not       *)
(* steps.                                                                  *)
(***************************************************************************)
EXTENDS Integers, Sequences, FiniteSets, SequencesExt

CONSTANTS
    Callers,        \* the pieces of work that acquire leases
    MaxConcurrent,  \* maxConcurrent, at least 1
    MaxQueueDepth,  \* maxQueueDepth, at least 1
    CriticalBurst   \* critical dispatches in a row before the normal lane (10)

ASSUME GateAssumption ==
    /\ IsFiniteSet(Callers)
    /\ MaxConcurrent \in Nat \ {0}
    /\ MaxQueueDepth \in Nat \ {0}
    /\ CriticalBurst \in Nat \ {0}

VARIABLES
    active,         \* the count the gate compares with maxConcurrent
    criticalQueue,  \* waiting callers, critical lane
    normalQueue,    \* waiting callers, normal lane
    consecutiveCriticalDispatches,
    holders,        \* callers whose lease has not been released
    headOvertaken   \* history: critical dispatches since the caller now at the
                    \* head of the normal lane got there, counted up to one
                    \* more than CriticalBurst

vars == <<active, criticalQueue, normalQueue, consecutiveCriticalDispatches,
          holders, headOvertaken>>

Waiting(c) == c \in Range(criticalQueue) \cup Range(normalQueue)
queuedCount == Len(criticalQueue) + Len(normalQueue)

-----------------------------------------------------------------------------
Init ==
    /\ active = 0
    /\ criticalQueue = <<>>
    /\ normalQueue = <<>>
    /\ consecutiveCriticalDispatches = 0
    /\ holders = {}
    /\ headOvertaken = 0

\* acquire() up to the queue: the queue must not be full, even when a lease is free.
Admissible(c) ==
    /\ c \notin holders
    /\ ~Waiting(c)
    /\ queuedCount < MaxQueueDepth

\* Mutant: one lease too many.
LeaseFree_OffByOne == active <= MaxConcurrent

LeaseFree == active < MaxConcurrent

\* acquire() with a free lease: grantLease.
Acquire(c) ==
    /\ Admissible(c)
    /\ LeaseFree
    /\ active' = active + 1
    /\ holders' = holders \cup {c}
    /\ UNCHANGED <<criticalQueue, normalQueue, consecutiveCriticalDispatches, headOvertaken>>

\* acquire() with every lease out: the caller joins its lane.
EnqueueCritical(c) ==
    /\ Admissible(c)
    /\ ~LeaseFree
    /\ criticalQueue' = Append(criticalQueue, c)
    /\ UNCHANGED <<active, normalQueue, consecutiveCriticalDispatches, holders, headOvertaken>>

EnqueueNormal(c) ==
    /\ Admissible(c)
    /\ ~LeaseFree
    /\ normalQueue' = Append(normalQueue, c)
    /\ headOvertaken' = IF normalQueue = <<>> THEN 0 ELSE headOvertaken
    /\ UNCHANGED <<active, criticalQueue, consecutiveCriticalDispatches, holders>>

\* onAbort of a waiter: it leaves its lane and its acquire rejects.  It is
\* never found aborted by a later dispatch, so the branch of the queue entry
\* that checks for that (lines 69-73) does not arise.
AbortCritical(c) ==
    /\ \E i \in 1..Len(criticalQueue) :
           /\ criticalQueue[i] = c
           /\ criticalQueue' = RemoveAt(criticalQueue, i)
    /\ UNCHANGED <<active, normalQueue, consecutiveCriticalDispatches, holders, headOvertaken>>

AbortNormal(c) ==
    /\ \E i \in 1..Len(normalQueue) :
           /\ normalQueue[i] = c
           /\ normalQueue' = RemoveAt(normalQueue, i)
           /\ headOvertaken' = IF i = 1 THEN 0 ELSE headOvertaken
    /\ UNCHANGED <<active, criticalQueue, consecutiveCriticalDispatches, holders>>

\* Mutant: the critical lane always goes first.
CriticalTurn_NoBurstLimit == criticalQueue # <<>>

\* Whether dispatchNext serves the critical lane.
CriticalTurn ==
    /\ criticalQueue # <<>>
    /\ consecutiveCriticalDispatches < CriticalBurst \/ normalQueue = <<>>

\* Mutant: the dispatch is not counted.
CountedUp_Forgotten == consecutiveCriticalDispatches

\* The counter is only compared with CriticalBurst, so counting stops there.
CountedUp ==
    IF consecutiveCriticalDispatches < CriticalBurst
    THEN consecutiveCriticalDispatches + 1
    ELSE CriticalBurst

\* Mutant: a second call of the closure counts again.
Unused_Repeatable(c) == TRUE

\* The lease of c has not been released: a second call of the closure returns.
Unused(c) == c \in holders

NobodyWaits == queuedCount = 0

\* The release closure of c's lease, called for the first time, runs
\* dispatchNext: active goes down, and up again in the grantLease of the
\* entry that is served.
ReleaseToCritical(c) ==
    /\ Unused(c)
    /\ CriticalTurn
    /\ active' = active - 1 + 1
    /\ holders' = (holders \ {c}) \cup {Head(criticalQueue)}
    /\ criticalQueue' = Tail(criticalQueue)
    /\ consecutiveCriticalDispatches' = CountedUp
    /\ headOvertaken' = CASE normalQueue = <<>> -> 0
                          [] headOvertaken > CriticalBurst -> headOvertaken
                          [] OTHER -> headOvertaken + 1
    /\ UNCHANGED normalQueue

ReleaseToNormal(c) ==
    /\ Unused(c)
    /\ ~CriticalTurn
    /\ normalQueue # <<>>
    /\ active' = active - 1 + 1
    /\ holders' = (holders \ {c}) \cup {Head(normalQueue)}
    /\ normalQueue' = Tail(normalQueue)
    /\ consecutiveCriticalDispatches' = 0
    /\ headOvertaken' = 0
    /\ UNCHANGED criticalQueue

\* dispatchNext() finds both lanes empty.
ReleaseUnclaimed(c) ==
    /\ Unused(c)
    /\ NobodyWaits
    /\ active' = active - 1
    /\ holders' = holders \ {c}
    /\ consecutiveCriticalDispatches' = 0
    /\ UNCHANGED <<criticalQueue, normalQueue, headOvertaken>>

Release(c) == ReleaseToCritical(c) \/ ReleaseToNormal(c) \/ ReleaseUnclaimed(c)

Next ==
    \E c \in Callers :
        \/ Acquire(c)
        \/ EnqueueCritical(c)
        \/ EnqueueNormal(c)
        \/ AbortCritical(c)
        \/ AbortNormal(c)
        \/ ReleaseToCritical(c)
        \/ ReleaseToNormal(c)
        \/ ReleaseUnclaimed(c)

\* ConcurrencyGate.run releases in a finally block: a lease whose work ends is
\* always returned.  Nothing else is assumed; callers may ask again at once,
\* and on the critical lane.
Fairness == \A c \in Callers : WF_vars(Release(c))

Spec == Init /\ [][Next]_vars /\ Fairness

-----------------------------------------------------------------------------
TypeOK ==
    /\ active \in Nat
    /\ criticalQueue \in Seq(Callers)
    /\ normalQueue \in Seq(Callers)
    /\ consecutiveCriticalDispatches \in 0..CriticalBurst
    /\ holders \subseteq Callers
    /\ headOvertaken \in Nat

\* The number the gate admits work by is the number of leases that are really
\* out, whatever was queued, handed over and aborted before, and it stays
\* within maxConcurrent.  (active is changed in two places of gate.ts and the
\* leases are closures: nothing in the code compares the two.)
LeasesExact ==
    /\ active = Cardinality(holders)
    /\ active <= MaxConcurrent

\* Nobody waits while a lease is free: release, abort and acquire together
\* never leave a slot idle beside a queue.  This is what makes it right for
\* acquire to hand a free lease to a newcomer without looking at the queues;
\* ImplementsLeasePool asks for it, too.
NoIdleSlot == queuedCount > 0 => active = MaxConcurrent

\* "Prevent critical lane from permanently starving normal lane": the caller at
\* the head of the normal lane sees at most CriticalBurst critical dispatches
\* go by.
BoundedOvertaking == normalQueue # <<>> => headOvertaken <= CriticalBurst

\* The gate implements the lease pool: the two lanes are its set of waiting
\* callers, and every caller that keeps waiting is served.
QueuedCallers == {c \in Callers : Waiting(c)}
Pool == INSTANCE LeasePool
          WITH Limit <- MaxConcurrent, holding <- holders, waiting <- QueuedCallers
ImplementsLeasePool == Pool!Spec
=============================================================================
