--------------------------- MODULE ResourceLocks ---------------------------
(***************************************************************************)
(* src/core/concurrency/resource-locks.ts: the ResourceLockRegistry.       *)
(*                                                                         *)
(* A call asks for a set of named resources and gets all of them or        *)
(* queues; releasing a grant pumps the queue.  Each element of Calls is    *)
(* one call of acquire or tryAcquire, which is granted at most once, so it *)
(* also stands for the holder id of its grant.  Every method runs          *)
(* synchronously and is one action; a waiter's timer is another.  The      *)
(* calls that change nothing are not steps: an empty set of resources, a   *)
(* tryAcquire that fails, a release closure called again.                  *)
(***************************************************************************)
EXTENDS Integers, Sequences, FiniteSets, SequencesExt

CONSTANTS
    Calls,      \* the calls of acquire and tryAcquire
    Resources   \* the resource names

VARIABLES
    holders,    \* holders[r]: the calls that hold resource r
    heldBy,     \* heldBy[c]: the resources granted to call c and not released
    waiters,    \* the queued calls with what they asked for, oldest first
    served      \* the calls that were granted, released or timed out: spent

vars == <<holders, heldBy, waiters, served>>

Priorities == {"critical", "normal"}
Waiter == [call : Calls, resources : (SUBSET Resources) \ {{}}, priority : Priorities]

Queued(c) == \E i \in 1..Len(waiters) : waiters[i].call = c
Fresh(c) == c \notin served /\ ~Queued(c)

-----------------------------------------------------------------------------
Init ==
    /\ holders = [r \in Resources |-> {}]
    /\ heldBy = [c \in Calls |-> {}]
    /\ waiters = <<>>
    /\ served = {}

\* Mutant: free as soon as one of them is.
FreeSet_Any(h, R) == \E r \in R : h[r] = {}

\* Every resource of R is free in the table h.
FreeSet(h, R) == \A r \in R : h[r] = {}

\* The table h after call c was granted R, and after it gave R back.
Granted(h, c, R) == [r \in Resources |-> IF r \in R THEN h[r] \cup {c} ELSE h[r]]

\* Mutant: one of the resources is forgotten.
Returned_Partly(h, c, R) ==
    LET kept == CHOOSE r \in R : TRUE
    IN  [r \in Resources |-> IF r \in R \ {kept} THEN h[r] \ {c} ELSE h[r]]

Returned(h, c, R) == [r \in Resources |-> IF r \in R THEN h[r] \ {c} ELSE h[r]]

\* tryAcquire, and the fast path of acquire: granted past any waiter.
TryAcquire(c, R) ==
    /\ FreeSet(holders, R)
    /\ holders' = Granted(holders, c, R)
    /\ heldBy' = [heldBy EXCEPT ![c] = R]

Acquire(c, R) ==
    /\ Fresh(c)
    /\ TryAcquire(c, R)
    /\ served' = served \cup {c}
    /\ UNCHANGED waiters

\* Mutant: queues for the part of the set that was free.
Enqueue_FreePart(c, R, p) ==
    /\ Fresh(c)
    /\ ~FreeSet(holders, R)
    /\ waiters' = Append(waiters, [call |-> c, resources |-> {r \in R : holders[r] = {}},
                                   priority |-> p])
    /\ UNCHANGED <<holders, heldBy, served>>

\* acquire of a contended set: the call queues.
Enqueue(c, R, p) ==
    /\ Fresh(c)
    /\ ~FreeSet(holders, R)
    /\ waiters' = Append(waiters, [call |-> c, resources |-> R, priority |-> p])
    /\ UNCHANGED <<holders, heldBy, served>>

\* The timer of a waiter that asked for a timeout: it leaves and rejects.
TimeOut(c) ==
    /\ \E i \in 1..Len(waiters) :
           /\ waiters[i].call = c
           /\ waiters' = RemoveAt(waiters, i)
    /\ served' = served \cup {c}
    /\ UNCHANGED <<holders, heldBy>>

\* Mutant: the lanes are merged into one queue.
Before_OneLane(i, j) == i < j

\* pump(): critical waiters come before normal ones, each lane in arrival order.
Before(i, j) ==
    \/ waiters[i].priority = "critical" /\ waiters[j].priority = "normal"
    \/ waiters[i].priority = waiters[j].priority /\ i < j

\* Mutant: served when one of its resources is free.
Servable_AnyFree(c) ==
    LET h == Returned(holders, c, heldBy[c])
    IN  {i \in 1..Len(waiters) : FreeSet_Any(h, waiters[i].resources)}

\* Mutant: the normal lane is not pumped.
Servable_CriticalOnly(c) ==
    LET h == Returned(holders, c, heldBy[c])
    IN  {i \in 1..Len(waiters) :
            waiters[i].priority = "critical" /\ FreeSet(h, waiters[i].resources)}

\* The waiters whose sets are free once c has returned its resources.
Servable(c) ==
    LET h == Returned(holders, c, heldBy[c])
    IN  {i \in 1..Len(waiters) : FreeSet(h, waiters[i].resources)}

\* The release closure when pump() finds a waiter to serve.  One waiter is
\* served, however many could be.
ReleaseToWaiter(c) ==
    /\ heldBy[c] # {}
    /\ \E i \in Servable(c) :
           LET w == waiters[i]
           IN  /\ \A j \in Servable(c) \ {i} : Before(i, j)
               /\ holders' = Granted(Returned(holders, c, heldBy[c]), w.call, w.resources)
               /\ heldBy' = [heldBy EXCEPT ![c] = {}, ![w.call] = w.resources]
               /\ waiters' = RemoveAt(waiters, i)
               /\ served' = served \cup {w.call}

\* The release closure when pump() serves nobody.
ReleaseOnly(c) ==
    /\ heldBy[c] # {}
    /\ Servable(c) = {}
    /\ holders' = Returned(holders, c, heldBy[c])
    /\ heldBy' = [heldBy EXCEPT ![c] = {}]
    /\ UNCHANGED <<waiters, served>>

Release(c) == ReleaseToWaiter(c) \/ ReleaseOnly(c)

Next ==
    \E c \in Calls :
        \/ \E R \in (SUBSET Resources) \ {{}} :
               \/ Acquire(c, R)
               \/ \E p \in Priorities : Enqueue(c, R, p)
        \/ TimeOut(c)
        \/ ReleaseToWaiter(c)
        \/ ReleaseOnly(c)

\* A holder releases when its work ends.  Timers need not fire: a call queued
\* without a timeout has none.
Fairness == \A c \in Calls : WF_vars(Release(c))

Spec == Init /\ [][Next]_vars /\ Fairness

-----------------------------------------------------------------------------
TypeOK ==
    /\ holders \in [Resources -> SUBSET Calls]
    /\ heldBy \in [Calls -> SUBSET Resources]
    /\ waiters \in Seq(Waiter)
    /\ served \subseteq Calls

\* No resource is held twice, and the two maps of the registry describe the
\* same grants: what a release takes out of the table is what was put in.
TablesAgree ==
    /\ \A r \in Resources, c \in Calls : c \in holders[r] <=> r \in heldBy[c]
    /\ \A r \in Resources : \A c, d \in holders[r] : c = d

\* While anybody waits, somebody holds a resource: there is a release to come
\* that will pump the queue.  (pump serves one waiter only and relies on "the
\* release chain pumps again"; a queue without a holder would never move.)
ChainAlive == waiters # <<>> => \E c \in Calls : heldBy[c] # {}

\* A release passes over a waiter only when it has to: whenever a waiter is
\* served, each critical waiter (if it is normal itself) and each older waiter
\* of its own lane that is left behind wants a resource somebody else holds.
Outranks(j, i) ==
    \/ waiters[j].priority = "critical" /\ waiters[i].priority = "normal"
    \/ waiters[j].priority = waiters[i].priority /\ j < i

ServedInOrder ==
    [][\A i, j \in 1..Len(waiters) :
          LET c == waiters[i].call
              d == waiters[j].call
          IN  heldBy'[c] # {} /\ d \notin served' /\ Outranks(j, i)
                => \E e \in Calls \ {c} : heldBy'[e] \cap waiters[j].resources # {}]_vars

\* A finite number of calls is served to the end: whoever waits gets the
\* resources or times out.
EveryWaiterLeaves == \A c \in Calls : Queued(c) ~> ~Queued(c)

\* The registry implements the allocator.
Alloc == INSTANCE Allocator WITH held <- heldBy
ImplementsAllocator == Alloc!Spec
=============================================================================
