------------------------ MODULE ResourceLocks_proofs ------------------------
(***************************************************************************)
(* The lock registry, for any calls and resources: mutual exclusion, the   *)
(* agreement of its two tables, the release chain that pump relies on, the *)
(* order of service, and that it implements the allocator.                 *)
(***************************************************************************)
EXTENDS ResourceLocks, SequenceTheorems, TLAPS

-----------------------------------------------------------------------------
(* Facts about sequences *)

\* splice(i, 1): the elements before i stay where they are, those behind it move up
\* by one.
LEMMA RemoveAtProperties ==
    ASSUME NEW S, NEW q \in Seq(S), NEW i \in 1..Len(q)
    PROVE  /\ RemoveAt(q, i) \in Seq(S)
           /\ Len(RemoveAt(q, i)) = Len(q) - 1
           /\ \A j \in 1..(Len(q) - 1) :
                  RemoveAt(q, i)[j] = IF j < i THEN q[j] ELSE q[j + 1]
<1> DEFINE a == SubSeq(q, 1, i - 1)
           b == SubSeq(q, i + 1, Len(q))
<1>1. /\ a \in Seq(S) /\ Len(a) = i - 1 /\ \A j \in 1..(i - 1) : a[j] = q[j]
      /\ b \in Seq(S) /\ Len(b) = Len(q) - i /\ \A j \in 1..(Len(q) - i) : b[j] = q[i + j]
  BY SubSeqProperties
<1> HIDE DEF a, b
<1>2. \A j \in 1..(Len(q) - 1) : j >= i => b[j - Len(a)] = q[j + 1]
  BY <1>1
<1>3. /\ a \o b \in Seq(S) /\ Len(a \o b) = Len(a) + Len(b)
      /\ \A j \in 1..(Len(a) + Len(b)) :
             (a \o b)[j] = IF j <= Len(a) THEN a[j] ELSE b[j - Len(a)]
  BY <1>1, ConcatProperties
<1>4. RemoveAt(q, i) = a \o b
  BY DEF RemoveAt, a, b
<1>5. \A j \in 1..(Len(q) - 1) : (a \o b)[j] = IF j < i THEN q[j] ELSE q[j + 1]
  BY <1>1, <1>2, <1>3
<1>6. Len(a \o b) = Len(q) - 1
  BY <1>1, <1>3
<1> QED BY <1>3, <1>4, <1>5, <1>6

-----------------------------------------------------------------------------

\* A call is queued once, before it is granted, and a holder was granted: the
\* call that a pump serves holds nothing yet.
QueuedOnce ==
    /\ \A i \in 1..Len(waiters) : waiters[i].call \notin served
    /\ \A i, j \in 1..Len(waiters) : waiters[i].call = waiters[j].call => i = j
    /\ \A c \in Calls : heldBy[c] # {} => c \in served

Inv == TypeOK /\ TablesAgree /\ QueuedOnce /\ ChainAlive

-----------------------------------------------------------------------------
LEMMA WaiterFacts ==
    ASSUME TypeOK, NEW i \in 1..Len(waiters)
    PROVE  /\ Len(waiters) \in Nat
           /\ waiters[i] \in Waiter
           /\ waiters[i].call \in Calls
           /\ waiters[i].resources \in (SUBSET Resources) \ {{}}
           /\ waiters[i].priority \in Priorities
<1>1. Len(waiters) \in Nat /\ waiters[i] \in Waiter
  BY ElementOfSeq, LenProperties DEF TypeOK
<1> QED BY <1>1 DEF Waiter

\* What is left of the queue when the waiter at i is taken out.
LEMMA WithoutWaiter ==
    ASSUME TypeOK, QueuedOnce, NEW i \in 1..Len(waiters)
    PROVE  LET rest == RemoveAt(waiters, i)
           IN  /\ rest \in Seq(Waiter)
               /\ rest # <<>> => waiters # <<>>
               /\ \A j \in 1..Len(rest) : \E k \in 1..Len(waiters) : k # i /\ rest[j] = waiters[k]
               /\ \A j, k \in 1..Len(rest) : rest[j].call = rest[k].call => j = k
<1> DEFINE rest == RemoveAt(waiters, i)
<1>1. waiters \in Seq(Waiter) /\ Len(waiters) \in Nat /\ waiters # <<>>
  BY EmptySeq, WaiterFacts DEF TypeOK
<1>2. /\ rest \in Seq(Waiter)
      /\ Len(rest) = Len(waiters) - 1
      /\ \A j \in 1..(Len(waiters) - 1) :
             rest[j] = IF j < i THEN waiters[j] ELSE waiters[j + 1]
  BY <1>1, RemoveAtProperties
<1> HIDE DEF rest
<1>3. ASSUME NEW j \in 1..Len(rest)
      PROVE  \E k \in 1..Len(waiters) : k # i /\ rest[j] = waiters[k]
  <2>1. CASE j < i
    BY <2>1, <1>1, <1>2
  <2>2. CASE ~(j < i)
    <3>1. j + 1 \in 1..Len(waiters) /\ j + 1 # i /\ rest[j] = waiters[j + 1]
      BY <2>2, <1>1, <1>2
    <3> QED BY <3>1
  <2> QED BY <2>1, <2>2
<1>4. ASSUME NEW j \in 1..Len(rest), NEW k \in 1..Len(rest), rest[j].call = rest[k].call
      PROVE  j = k
  <2> DEFINE at(n) == IF n < i THEN n ELSE n + 1
  <2>1. /\ at(j) \in 1..Len(waiters) /\ rest[j] = waiters[at(j)]
        /\ at(k) \in 1..Len(waiters) /\ rest[k] = waiters[at(k)]
    BY <1>1, <1>2
  <2>2. at(j) = at(k)
    BY <2>1, <1>4 DEF QueuedOnce
  <2> QED BY <2>2, <1>1, <1>2
<1> QED BY <1>1, <1>2, <1>3, <1>4 DEF rest

\* Granting a free set and taking one back keep the tables in agreement.
LEMMA GrantAgrees ==
    ASSUME NEW h \in [Resources -> SUBSET Calls], NEW b \in [Calls -> SUBSET Resources],
           \A r \in Resources, d \in Calls : d \in h[r] <=> r \in b[d],
           NEW c \in Calls, b[c] = {}, NEW R \in SUBSET Resources
    PROVE  /\ Granted(h, c, R) \in [Resources -> SUBSET Calls]
           /\ [b EXCEPT ![c] = R] \in [Calls -> SUBSET Resources]
           /\ \A r \in Resources, d \in Calls :
                  d \in Granted(h, c, R)[r] <=> r \in [b EXCEPT ![c] = R][d]
           /\ FreeSet(h, R) /\ (\A r \in Resources : \A d, e \in h[r] : d = e)
                => \A r \in Resources : \A d, e \in Granted(h, c, R)[r] : d = e
  BY DEF Granted, FreeSet

LEMMA ReturnAgrees ==
    ASSUME TypeOK, TablesAgree, NEW c \in Calls
    PROVE  LET h == Returned(holders, c, heldBy[c])
               b == [heldBy EXCEPT ![c] = {}]
           IN  /\ h \in [Resources -> SUBSET Calls]
               /\ b \in [Calls -> SUBSET Resources]
               /\ \A r \in Resources, d \in Calls : d \in h[r] <=> r \in b[d]
               /\ \A r \in Resources : \A d, e \in h[r] : d = e
               /\ b[c] = {}
  BY DEF TypeOK, TablesAgree, Returned

-----------------------------------------------------------------------------
LEMMA InitInv == Init => Inv
<1> SUFFICES ASSUME Init PROVE Inv
  OBVIOUS
<1>1. waiters = <<>> /\ Len(waiters) = 0 /\ waiters \in Seq(Waiter)
  BY EmptySeq DEF Init
<1> QED BY <1>1 DEF Init, Inv, TypeOK, TablesAgree, QueuedOnce, ChainAlive

LEMMA AcquireInv ==
    ASSUME Inv, NEW c \in Calls, NEW R \in (SUBSET Resources) \ {{}}, Acquire(c, R)
    PROVE  Inv'
<1> USE DEF Acquire, TryAcquire
<1>1. c \notin served /\ heldBy[c] = {} /\ \A i \in 1..Len(waiters) : waiters[i].call # c
  BY DEF Inv, QueuedOnce, Fresh, Queued
<1>2. /\ holders' \in [Resources -> SUBSET Calls]
      /\ heldBy' \in [Calls -> SUBSET Resources]
      /\ TablesAgree'
  BY <1>1, GrantAgrees DEF Inv, TypeOK, TablesAgree
<1>3. TypeOK'
  BY <1>2 DEF Inv, TypeOK
<1>4. QueuedOnce'
  BY <1>1 DEF Inv, TypeOK, QueuedOnce
<1>5. ChainAlive'
  <2>1. heldBy'[c] = R /\ R # {}
    BY DEF Inv, TypeOK
  <2> QED BY <2>1 DEF ChainAlive
<1> QED BY <1>2, <1>3, <1>4, <1>5 DEF Inv

LEMMA EnqueueInv ==
    ASSUME Inv, NEW c \in Calls, NEW R \in (SUBSET Resources) \ {{}}, NEW p \in Priorities,
           Enqueue(c, R, p)
    PROVE  Inv'
<1> USE DEF Enqueue
<1> DEFINE w == [call |-> c, resources |-> R, priority |-> p]
<1>1. w \in Waiter /\ waiters \in Seq(Waiter)
  BY DEF Waiter, Inv, TypeOK
<1>2. /\ waiters' \in Seq(Waiter)
      /\ Len(waiters) \in Nat
      /\ Len(waiters') = Len(waiters) + 1
      /\ waiters'[Len(waiters) + 1] = w
      /\ \A i \in 1..Len(waiters) : waiters'[i] = waiters[i]
  BY <1>1, AppendProperties, LenProperties
<1>3. w.call = c
  OBVIOUS
<1> HIDE DEF w
<1>4. TypeOK' /\ TablesAgree'
  BY <1>2 DEF Inv, TypeOK, TablesAgree
<1>5. QueuedOnce'
  <2>1. c \notin served /\ \A i \in 1..Len(waiters) : waiters[i].call # c
    BY DEF Fresh, Queued
  <2>2. \A i \in 1..Len(waiters') : waiters'[i].call \notin served
    BY <2>1, <1>2, <1>3 DEF Inv, QueuedOnce
  <2>3. \A i, j \in 1..Len(waiters') : waiters'[i].call = waiters'[j].call => i = j
    <3> SUFFICES ASSUME NEW i \in 1..Len(waiters'), NEW j \in 1..Len(waiters'),
                        waiters'[i].call = waiters'[j].call
                 PROVE  i = j
      OBVIOUS
    <3>1. CASE i \in 1..Len(waiters) /\ j \in 1..Len(waiters)
      BY <3>1, <1>2 DEF Inv, QueuedOnce
    <3>2. CASE i = Len(waiters) + 1 \/ j = Len(waiters) + 1
      BY <3>2, <2>1, <1>2, <1>3
    <3> QED BY <3>1, <3>2, <1>2
  <2> QED BY <2>2, <2>3 DEF Inv, QueuedOnce
<1>6. ChainAlive'
  <2>1. PICK r \in R : holders[r] # {}
    BY DEF FreeSet
  <2>2. PICK d \in Calls : d \in holders[r]
    BY <2>1 DEF Inv, TypeOK
  <2>3. heldBy[d] # {}
    BY <2>2 DEF Inv, TablesAgree
  <2> QED BY <2>3 DEF ChainAlive
<1> QED BY <1>4, <1>5, <1>6 DEF Inv

LEMMA TimeOutInv ==
    ASSUME Inv, NEW c \in Calls, TimeOut(c)
    PROVE  Inv'
<1>1. PICK i \in 1..Len(waiters) :
          waiters[i].call = c /\ waiters' = RemoveAt(waiters, i)
  BY DEF TimeOut
<1>2. /\ waiters' \in Seq(Waiter)
      /\ waiters' # <<>> => waiters # <<>>
      /\ \A j \in 1..Len(waiters') : \E k \in 1..Len(waiters) : k # i /\ waiters'[j] = waiters[k]
      /\ \A j, k \in 1..Len(waiters') : waiters'[j].call = waiters'[k].call => j = k
  BY <1>1, WithoutWaiter DEF Inv
<1>3. TypeOK' /\ TablesAgree' /\ ChainAlive'
  BY <1>2 DEF TimeOut, Inv, TypeOK, TablesAgree, ChainAlive
<1>4. QueuedOnce'
  <2>1. \A k \in 1..Len(waiters) : k # i => waiters[k].call # c
    BY <1>1 DEF Inv, QueuedOnce
  <2> QED BY <1>2, <2>1 DEF TimeOut, Inv, QueuedOnce
<1> QED BY <1>3, <1>4 DEF Inv

LEMMA ReleaseToWaiterInv ==
    ASSUME Inv, NEW c \in Calls, ReleaseToWaiter(c)
    PROVE  Inv'
<1> DEFINE h == Returned(holders, c, heldBy[c])
           b == [heldBy EXCEPT ![c] = {}]
<1>1. PICK i \in Servable(c) :
          /\ holders' = Granted(h, waiters[i].call, waiters[i].resources)
          /\ heldBy' = [b EXCEPT ![waiters[i].call] = waiters[i].resources]
          /\ waiters' = RemoveAt(waiters, i)
          /\ served' = served \cup {waiters[i].call}
  BY DEF ReleaseToWaiter
<1>2. i \in 1..Len(waiters) /\ FreeSet(h, waiters[i].resources)
  BY DEF Servable
<1> DEFINE d == waiters[i].call
           R == waiters[i].resources
<1>3. d \in Calls /\ R \in (SUBSET Resources) \ {{}}
  BY <1>2, WaiterFacts DEF Inv
<1>4. heldBy[d] = {} /\ b[d] = {}
  BY <1>2, <1>3 DEF Inv, QueuedOnce, TypeOK
<1>5. /\ h \in [Resources -> SUBSET Calls]
      /\ b \in [Calls -> SUBSET Resources]
      /\ \A r \in Resources, e \in Calls : e \in h[r] <=> r \in b[e]
      /\ \A r \in Resources : \A e, f \in h[r] : e = f
  BY ReturnAgrees DEF Inv
<1>6. /\ waiters' \in Seq(Waiter)
      /\ waiters' # <<>> => waiters # <<>>
      /\ \A j \in 1..Len(waiters') : \E k \in 1..Len(waiters) : k # i /\ waiters'[j] = waiters[k]
      /\ \A j, k \in 1..Len(waiters') : waiters'[j].call = waiters'[k].call => j = k
  BY <1>1, <1>2, WithoutWaiter DEF Inv
<1> HIDE DEF h, b
<1>7. /\ holders' \in [Resources -> SUBSET Calls]
      /\ heldBy' \in [Calls -> SUBSET Resources]
      /\ TablesAgree'
  BY <1>1, <1>2, <1>3, <1>4, <1>5, GrantAgrees DEF TablesAgree
<1>8. TypeOK'
  BY <1>1, <1>3, <1>6, <1>7 DEF Inv, TypeOK
<1>9. QueuedOnce'
  <2>1. \A k \in 1..Len(waiters) : k # i => waiters[k].call # d
    BY <1>2 DEF Inv, QueuedOnce
  <2>2. \A e \in Calls : heldBy'[e] # {} => e \in served'
    BY <1>1, <1>3, <1>5 DEF Inv, TypeOK, QueuedOnce, b
  <2> QED BY <1>1, <1>6, <2>1, <2>2 DEF Inv, QueuedOnce
<1>10. ChainAlive'
  <2>1. heldBy'[d] = R
    BY <1>1, <1>3, <1>5
  <2>2. R # {}
    BY <1>3
  <2> HIDE DEF R, d
  <2>3. \E e \in Calls : heldBy'[e] # {}
    BY <2>1, <2>2, <1>3
  <2> QED BY <2>3 DEF ChainAlive
<1> QED BY <1>7, <1>8, <1>9, <1>10 DEF Inv

LEMMA ReleaseOnlyInv ==
    ASSUME Inv, NEW c \in Calls, ReleaseOnly(c)
    PROVE  Inv'
<1> USE DEF ReleaseOnly
<1>1. TypeOK' /\ TablesAgree'
  BY ReturnAgrees DEF Inv, TypeOK, TablesAgree
<1>2. QueuedOnce'
  BY DEF Inv, TypeOK, QueuedOnce
<1>3. ChainAlive'
  <2> SUFFICES ASSUME waiters # <<>> PROVE \E d \in Calls : heldBy'[d] # {}
    BY DEF ChainAlive
  <2>1. 1 \in 1..Len(waiters)
    BY EmptySeq DEF Inv, TypeOK
  <2>2. waiters[1].resources \in SUBSET Resources
    BY <2>1, WaiterFacts DEF Inv
  <2>3. PICK r \in waiters[1].resources : holders'[r] # {}
    BY <2>1 DEF Servable, FreeSet
  <2>4. r \in Resources
    BY <2>2
  <2>5. PICK d \in Calls : d \in holders'[r]
    BY <2>3, <2>4, <1>1 DEF TypeOK
  <2>6. heldBy'[d] # {}
    BY <2>4, <2>5, <1>1 DEF TablesAgree
  <2> QED BY <2>6
<1> QED BY <1>1, <1>2, <1>3 DEF Inv

LEMMA NextInv == Inv /\ [Next]_vars => Inv'
<1> SUFFICES ASSUME Inv, [Next]_vars PROVE Inv'
  OBVIOUS
<1>1. CASE UNCHANGED vars
  BY <1>1 DEF Inv, TypeOK, TablesAgree, QueuedOnce, ChainAlive, vars
<1>2. CASE Next
  <2>1. PICK c \in Calls :
            \/ \E R \in (SUBSET Resources) \ {{}} :
                   Acquire(c, R) \/ \E p \in Priorities : Enqueue(c, R, p)
            \/ TimeOut(c)
            \/ ReleaseToWaiter(c)
            \/ ReleaseOnly(c)
    BY <1>2 DEF Next
  <2> QED BY <2>1, AcquireInv, EnqueueInv, TimeOutInv, ReleaseToWaiterInv, ReleaseOnlyInv
<1> QED BY <1>1, <1>2

\* The invariant holds in every reachable state of the registry.
LEMMA SpecInv == Spec => []Inv
  BY InitInv, NextInv, PTL DEF Spec

-----------------------------------------------------------------------------
\* The registry's variables have their types.
THEOREM LocksTypeOK == Spec => []TypeOK
<1>1. Inv => TypeOK
  BY DEF Inv
<1> QED BY <1>1, SpecInv, PTL

\* Mutual exclusion, and the two maps of the registry never disagree.
THEOREM LocksTablesAgree == Spec => []TablesAgree
<1>1. Inv => TablesAgree
  BY DEF Inv
<1> QED BY <1>1, SpecInv, PTL

\* Serving one waiter per release is enough: a queue always has a release to
\* come.
THEOREM LocksChainAlive == Spec => []ChainAlive
<1>1. Inv => ChainAlive
  BY DEF Inv
<1> QED BY <1>1, SpecInv, PTL

-----------------------------------------------------------------------------
\* What a release that serves the waiter at i does: that call held nothing and
\* gets what it asked for, the holder gives everything back.
LEMMA ServedWaiter ==
    ASSUME Inv, NEW c \in Calls, ReleaseToWaiter(c)
    PROVE  \E i \in Servable(c) :
               /\ i \in 1..Len(waiters)
               /\ waiters[i].call # c
               /\ heldBy[waiters[i].call] = {}
               /\ FreeSet(Returned(holders, c, heldBy[c]), waiters[i].resources)
               /\ \A j \in Servable(c) \ {i} : Before(i, j)
               /\ heldBy' = [heldBy EXCEPT ![c] = {}, ![waiters[i].call] = waiters[i].resources]
<1>1. PICK i \in Servable(c) :
          /\ \A j \in Servable(c) \ {i} : Before(i, j)
          /\ heldBy' = [heldBy EXCEPT ![c] = {}, ![waiters[i].call] = waiters[i].resources]
  BY DEF ReleaseToWaiter
<1>2. i \in 1..Len(waiters) /\ FreeSet(Returned(holders, c, heldBy[c]), waiters[i].resources)
  BY DEF Servable
<1>3. heldBy[waiters[i].call] = {} /\ waiters[i].call # c
  BY <1>2, WaiterFacts DEF ReleaseToWaiter, Inv, QueuedOnce
<1> QED BY <1>1, <1>2, <1>3

\* A resource that is not free after c released belongs to somebody else.
LEMMA HeldElsewhere ==
    ASSUME Inv, NEW c \in Calls, NEW R \in SUBSET Resources,
           ~FreeSet(Returned(holders, c, heldBy[c]), R)
    PROVE  \E e \in Calls \ {c} : heldBy[e] \cap R # {}
<1>1. PICK r \in R : Returned(holders, c, heldBy[c])[r] # {}
  BY DEF FreeSet
<1>2. PICK e : e \in Returned(holders, c, heldBy[c])[r]
  BY <1>1
<1>3. e \in Calls \ {c} /\ r \in heldBy[e]
  BY <1>2 DEF Inv, TypeOK, TablesAgree, Returned
<1> QED BY <1>3

\* A release passes over a waiter of higher rank only when somebody else holds
\* what that waiter wants.
THEOREM LocksServedInOrder == Spec => ServedInOrder
<1> DEFINE Step ==
      \A i, j \in 1..Len(waiters) :
          LET c == waiters[i].call
              d == waiters[j].call
          IN  heldBy'[c] # {} /\ d \notin served' /\ Outranks(j, i)
                => \E e \in Calls \ {c} : heldBy'[e] \cap waiters[j].resources # {}
<1>1. Inv /\ [Next]_vars => [Step]_vars
  <2> SUFFICES ASSUME Inv, Next PROVE Step
    BY DEF vars
  <2> SUFFICES ASSUME NEW k \in 1..Len(waiters), NEW j \in 1..Len(waiters),
                      heldBy'[waiters[k].call] # {},
                      waiters[j].call \notin served', Outranks(j, k)
               PROVE  \E e \in Calls \ {waiters[k].call} : heldBy'[e] \cap waiters[j].resources # {}
    OBVIOUS
  <2>1. /\ waiters[k].call \in Calls /\ waiters[j].call \in Calls
        /\ waiters[j].resources \in SUBSET Resources
        /\ heldBy[waiters[k].call] = {}
    BY WaiterFacts DEF Inv, QueuedOnce
  <2>2. ASSUME NEW c \in Calls, NEW R \in (SUBSET Resources) \ {{}}, Acquire(c, R)
        PROVE  FALSE
    BY <2>1, <2>2 DEF Acquire, TryAcquire, Fresh, Queued, Inv, TypeOK
  <2>3. ASSUME heldBy' = heldBy
        PROVE  FALSE
    BY <2>1, <2>3
  <2>4. ASSUME NEW c \in Calls, ReleaseOnly(c)
        PROVE  FALSE
    BY <2>1, <2>4 DEF ReleaseOnly, Inv, TypeOK
  <2>5. ASSUME NEW c \in Calls, ReleaseToWaiter(c)
        PROVE  \E e \in Calls \ {waiters[k].call} : heldBy'[e] \cap waiters[j].resources # {}
    <3>1. PICK i \in Servable(c) :
              /\ i \in 1..Len(waiters)
              /\ waiters[i].call # c
              /\ heldBy[waiters[i].call] = {}
              /\ \A n \in Servable(c) \ {i} : Before(i, n)
              /\ heldBy' = [heldBy EXCEPT ![c] = {}, ![waiters[i].call] = waiters[i].resources]
      BY <2>5, ServedWaiter
    <3>2. waiters[i].call = waiters[k].call /\ i = k
      BY <2>1, <3>1 DEF Inv, TypeOK, QueuedOnce
    <3>3. i # j /\ ~Before(i, j)
      BY <3>2 DEF Outranks, Before, Priorities
    <3>4. j \notin Servable(c)
      BY <3>1, <3>3
    <3>5. PICK e \in Calls \ {c} : heldBy[e] \cap waiters[j].resources # {}
      BY <2>1, <3>4, HeldElsewhere DEF Servable
    <3>6. e # waiters[k].call /\ heldBy'[e] = heldBy[e]
      BY <2>1, <3>1, <3>2, <3>5 DEF Inv, TypeOK
    <3> QED BY <3>5, <3>6
  <2>6. PICK c \in Calls :
            \/ \E R \in (SUBSET Resources) \ {{}} :
                   Acquire(c, R) \/ \E p \in Priorities : Enqueue(c, R, p)
            \/ TimeOut(c)
            \/ ReleaseToWaiter(c)
            \/ ReleaseOnly(c)
    BY DEF Next
  <2> QED BY <2>2, <2>3, <2>4, <2>5, <2>6 DEF Enqueue, TimeOut
<1> QED BY <1>1, SpecInv, PTL DEF Spec, ServedInOrder

\* The registry implements the allocator: every grant is of a whole set that
\* nobody else holds, also the grant that a release makes on behalf of a waiter.
THEOREM LocksImplementAllocator == Spec => ImplementsAllocator
<1>1. Init => Alloc!Init
  BY DEF Init, Alloc!Init
<1>2. Inv /\ [Next]_vars => [Alloc!Next]_heldBy
  <2> SUFFICES ASSUME Inv, Next PROVE Alloc!Next \/ heldBy' = heldBy
    BY DEF vars
  <2>1. ASSUME NEW c \in Calls, NEW R \in (SUBSET Resources) \ {{}}, Acquire(c, R)
        PROVE  Alloc!Grant(c)
    <3>1. heldBy[c] = {}
      BY <2>1 DEF Acquire, Fresh, Inv, QueuedOnce
    <3>2. R \cap Alloc!HeldByOthers(c) = {}
      BY <2>1 DEF Acquire, TryAcquire, FreeSet, Alloc!HeldByOthers, Inv, TablesAgree
    <3> QED BY <2>1, <3>1, <3>2 DEF Acquire, TryAcquire, Alloc!Grant
  <2>2. ASSUME NEW c \in Calls, ReleaseToWaiter(c)
        PROVE  \E d \in Calls \ {c} : Alloc!PassOn(c, d)
    <3>1. PICK i \in 1..Len(waiters) :
              /\ waiters[i].call # c
              /\ heldBy[waiters[i].call] = {}
              /\ FreeSet(Returned(holders, c, heldBy[c]), waiters[i].resources)
              /\ heldBy' = [heldBy EXCEPT ![c] = {}, ![waiters[i].call] = waiters[i].resources]
      BY <2>2, ServedWaiter
    <3> DEFINE d == waiters[i].call
               R == waiters[i].resources
    <3>2. d \in Calls \ {c} /\ R \in SUBSET Resources
      BY <3>1, WaiterFacts DEF Inv
    <3>3. \A e \in Calls \ {c, d} : R \cap heldBy[e] = {}
      <4> SUFFICES ASSUME NEW e \in Calls \ {c, d}, NEW r \in R, r \in heldBy[e] PROVE FALSE
        OBVIOUS
      <4>1. r \in Resources /\ e \in holders[r]
        BY <3>2 DEF Inv, TablesAgree
      <4>2. e \in Returned(holders, c, heldBy[c])[r]
        BY <4>1 DEF Returned
      <4> QED BY <3>1, <4>2 DEF FreeSet
    <3> QED BY <3>1, <3>2, <3>3 DEF Alloc!PassOn
  <2>3. ASSUME NEW c \in Calls, ReleaseOnly(c)
        PROVE  Alloc!Free(c)
    BY <2>3 DEF ReleaseOnly, Alloc!Free
  <2>4. PICK c \in Calls :
            \/ \E R \in (SUBSET Resources) \ {{}} :
                   Acquire(c, R) \/ \E p \in Priorities : Enqueue(c, R, p)
            \/ TimeOut(c)
            \/ ReleaseToWaiter(c)
            \/ ReleaseOnly(c)
    BY DEF Next
  <2> QED BY <2>1, <2>2, <2>3, <2>4 DEF Enqueue, TimeOut, Alloc!Next
<1> QED BY <1>1, <1>2, SpecInv, PTL DEF Spec, ImplementsAllocator, Alloc!Spec
=============================================================================
