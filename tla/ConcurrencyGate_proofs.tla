----------------------- MODULE ConcurrencyGate_proofs -----------------------
(***************************************************************************)
(* The safety properties of the gate hold for any number of callers and    *)
(* any limits, and its steps are steps of the lease pool.                  *)
(***************************************************************************)
EXTENDS ConcurrencyGate, SequenceTheorems, FiniteSetTheorems, TLAPS

-----------------------------------------------------------------------------
(* Facts about sequences *)

\* splice(i, 1): the elements before i stay where they are, those behind it move up
\* by one.
LEMMA RemoveAtProperties ==
    ASSUME NEW S, NEW q \in Seq(S), NEW i \in 1..Len(q)
    PROVE  /\ RemoveAt(q, i) \in Seq(S)
           /\ Len(RemoveAt(q, i)) = Len(q) - 1
           /\ \A j \in 1..(Len(q) - 1) :
                  RemoveAt(q, i)[j] = IF j < i THEN q[j] ELSE q[j + 1]
<1> DEFINE a == SubSeq(q, 1, i - 1)
           b == SubSeq(q, i + 1, Len(q))
<1>1. /\ a \in Seq(S) /\ Len(a) = i - 1 /\ \A j \in 1..(i - 1) : a[j] = q[j]
      /\ b \in Seq(S) /\ Len(b) = Len(q) - i /\ \A j \in 1..(Len(q) - i) : b[j] = q[i + j]
  BY SubSeqProperties
<1> HIDE DEF a, b
<1>2. \A j \in 1..(Len(q) - 1) : j >= i => b[j - Len(a)] = q[j + 1]
  BY <1>1
<1>3. /\ a \o b \in Seq(S) /\ Len(a \o b) = Len(a) + Len(b)
      /\ \A j \in 1..(Len(a) + Len(b)) :
             (a \o b)[j] = IF j <= Len(a) THEN a[j] ELSE b[j - Len(a)]
  BY <1>1, ConcatProperties
<1>4. RemoveAt(q, i) = a \o b
  BY DEF RemoveAt, a, b
<1>5. \A j \in 1..(Len(q) - 1) : (a \o b)[j] = IF j < i THEN q[j] ELSE q[j + 1]
  BY <1>1, <1>2, <1>3
<1>6. Len(a \o b) = Len(q) - 1
  BY <1>1, <1>3
<1> QED BY <1>3, <1>4, <1>5, <1>6

\* No value occurs twice in a queue.
Distinct(q) == \A j, k \in 1..Len(q) : q[j] = q[k] => j = k

\* A waiter that leaves a queue without repetitions is in it no more; the others
\* are.
LEMMA RemoveAtDistinct ==
    ASSUME NEW S, NEW q \in Seq(S), NEW i \in 1..Len(q), Distinct(q)
    PROVE  /\ Distinct(RemoveAt(q, i))
           /\ Range(RemoveAt(q, i)) = Range(q) \ {q[i]}
<1> DEFINE r == RemoveAt(q, i)
           n == Len(q) - 1
<1>1. /\ r \in Seq(S) /\ Len(r) = n /\ n \in Nat /\ Len(q) = n + 1
      /\ \A j \in 1..n : r[j] = IF j < i THEN q[j] ELSE q[j + 1]
  <2>1. Len(q) \in Nat /\ Len(q) >= 1
    BY LenProperties
  <2>2. n \in Nat /\ Len(q) = n + 1
    BY <2>1
  <2> HIDE DEF n
  <2> QED BY <2>2, RemoveAtProperties DEF n
<1>2. Range(q) = {q[j] : j \in 1..(n + 1)} /\ Range(r) = {r[j] : j \in 1..n}
  BY <1>1, RangeEquality
<1> HIDE DEF r, n
<1>3. Distinct(r)
  BY <1>1 DEF Distinct
<1>4. \A j \in 1..(n + 1) : j # i => q[j] = r[IF j < i THEN j ELSE j - 1] /\ q[j] # q[i]
  BY <1>1 DEF Distinct
<1>5. \A j \in 1..n : r[j] = q[IF j < i THEN j ELSE j + 1]
  BY <1>1
<1> QED BY <1>1, <1>2, <1>3, <1>4, <1>5 DEF r

\* Array.push of a value that is not in the queue.
LEMMA AppendDistinct ==
    ASSUME NEW S, NEW q \in Seq(S), NEW x \in S, Distinct(q), x \notin Range(q)
    PROVE  /\ Distinct(Append(q, x))
           /\ Range(Append(q, x)) = Range(q) \cup {x}
<1> DEFINE r == Append(q, x)
           n == Len(q)
<1>1. /\ n \in Nat /\ r \in Seq(S) /\ Len(r) = n + 1 /\ r[n + 1] = x
      /\ \A j \in 1..n : r[j] = q[j]
  BY AppendProperties, LenProperties
<1> HIDE DEF r
<1>2. Range(q) = {q[j] : j \in 1..n} /\ Range(r) = {r[j] : j \in 1..(n + 1)}
  BY <1>1, RangeEquality
<1>3. Distinct(r)
  BY <1>1, <1>2 DEF Distinct
<1> QED BY <1>1, <1>2, <1>3 DEF r

\* Array.shift of the head of a queue without repetitions.
LEMMA TailDistinct ==
    ASSUME NEW S, NEW q \in Seq(S), q # <<>>, Distinct(q)
    PROVE  /\ Tail(q) \in Seq(S)
           /\ Len(Tail(q)) = Len(q) - 1
           /\ Head(q) \in Range(q)
           /\ Distinct(Tail(q))
           /\ Range(Tail(q)) = Range(q) \ {Head(q)}
<1>1. 1 \in 1..Len(q) /\ Head(q) = q[1] /\ Len(q) \in Nat
  BY EmptySeq, HeadTailProperties, LenProperties
<1>2. q[1] \in Range(q)
  BY <1>1, RangeEquality
<1>3. Tail(q) = RemoveAt(q, 1)
  BY <1>1, TailIsSubSeq, SubSeqEmpty, ConcatEmptySeq, SubSeqProperties DEF RemoveAt
<1>4. /\ RemoveAt(q, 1) \in Seq(S) /\ Len(RemoveAt(q, 1)) = Len(q) - 1
      /\ Distinct(RemoveAt(q, 1)) /\ Range(RemoveAt(q, 1)) = Range(q) \ {q[1]}
  BY <1>1, RemoveAtProperties, RemoveAtDistinct
<1> QED BY <1>1, <1>2, <1>3, <1>4

-----------------------------------------------------------------------------

\* A caller is in one place only: nowhere, in one lane once, or holding a
\* lease.  Without this a hand-over could give a holder a second lease and the
\* count would drift from the set.
OnePlace ==
    /\ Distinct(criticalQueue)
    /\ Distinct(normalQueue)
    /\ Range(criticalQueue) \cap Range(normalQueue) = {}
    /\ \A c \in holders : ~Waiting(c)

\* The head of the normal lane was not overtaken more often than the gate
\* counted: the counter is not reset while that caller stays at the head.
OvertakingCounted ==
    normalQueue # <<>> => headOvertaken <= consecutiveCriticalDispatches

Inv == TypeOK /\ OnePlace /\ LeasesExact /\ NoIdleSlot /\ OvertakingCounted

-----------------------------------------------------------------------------
\* The holders are finitely many, and a lane is empty exactly when its length
\* is 0.
LEMMA GateFacts ==
    ASSUME TypeOK
    PROVE  /\ IsFiniteSet(holders)
           /\ Cardinality(holders) \in Nat
           /\ Len(criticalQueue) \in Nat /\ (criticalQueue = <<>> <=> Len(criticalQueue) = 0)
           /\ Len(normalQueue) \in Nat /\ (normalQueue = <<>> <=> Len(normalQueue) = 0)
<1>1. IsFiniteSet(holders)
  BY GateAssumption, FS_Subset DEF TypeOK
<1>2. Cardinality(holders) \in Nat
  BY <1>1, FS_CardinalityType
<1>3. /\ Len(criticalQueue) \in Nat /\ (criticalQueue = <<>> <=> Len(criticalQueue) = 0)
      /\ Len(normalQueue) \in Nat /\ (normalQueue = <<>> <=> Len(normalQueue) = 0)
  BY EmptySeq DEF TypeOK
<1> QED BY <1>1, <1>2, <1>3

\* An empty lane holds nobody.
LEMMA EmptyRange == Range(<<>>) = {} /\ Distinct(<<>>)
<1>1. <<>> \in Seq({}) /\ Len(<<>>) = 0
  BY EmptySeq
<1>2. Range(<<>>) = {<<>>[i] : i \in 1..Len(<<>>)}
  BY <1>1, RangeEquality
<1> QED BY <1>1, <1>2 DEF Distinct

\* A lease that passes from a holder to somebody who holds none leaves as many
\* leases out as before.
LEMMA HandOverKeepsCount ==
    ASSUME NEW H, IsFiniteSet(H), NEW c \in H, NEW d, d \notin H
    PROVE  Cardinality((H \ {c}) \cup {d}) = Cardinality(H)
<1>1. /\ IsFiniteSet(H \ {c})
      /\ Cardinality(H \ {c}) = Cardinality(H) - 1
  BY FS_RemoveElement
<1>2. Cardinality((H \ {c}) \cup {d}) = Cardinality(H \ {c}) + 1
  BY <1>1, FS_AddElement
<1>3. Cardinality(H) \in Nat
  BY FS_CardinalityType
<1> QED BY <1>1, <1>2, <1>3

-----------------------------------------------------------------------------
LEMMA InitInv == Init => Inv
<1> SUFFICES ASSUME Init PROVE Inv
  OBVIOUS
<1>1. TypeOK
  BY GateAssumption, EmptySeq DEF Init, TypeOK
<1>2. OnePlace
  BY EmptyRange DEF Init, OnePlace, Waiting
<1>3. LeasesExact
  BY GateAssumption, FS_EmptySet DEF Init, LeasesExact
<1>4. NoIdleSlot
  BY EmptySeq DEF Init, NoIdleSlot, queuedCount
<1>5. OvertakingCounted
  BY DEF Init, OvertakingCounted
<1> QED BY <1>1, <1>2, <1>3, <1>4, <1>5 DEF Inv

LEMMA AcquireInv ==
    ASSUME Inv, NEW c \in Callers, Acquire(c)
    PROVE  Inv'
<1> USE DEF Acquire, Admissible, LeaseFree
<1>1. TypeOK'
  BY DEF Inv, TypeOK
<1>2. OnePlace'
  BY DEF Inv, OnePlace, Waiting
<1>3. LeasesExact'
  <2>1. Cardinality(holders') = Cardinality(holders) + 1
    BY GateFacts, FS_AddElement DEF Inv
  <2> QED BY <2>1, GateFacts, GateAssumption DEF Inv, LeasesExact, TypeOK
<1>4. NoIdleSlot'
  BY GateFacts, GateAssumption DEF Inv, NoIdleSlot, queuedCount, TypeOK
<1>5. OvertakingCounted'
  BY DEF Inv, OvertakingCounted
<1> QED BY <1>1, <1>2, <1>3, <1>4, <1>5 DEF Inv

LEMMA EnqueueCriticalInv ==
    ASSUME Inv, NEW c \in Callers, EnqueueCritical(c)
    PROVE  Inv'
<1> USE DEF EnqueueCritical, Admissible, LeaseFree
<1>1. TypeOK'
  BY AppendProperties DEF Inv, TypeOK
<1>2. /\ Distinct(criticalQueue')
      /\ Range(criticalQueue') = Range(criticalQueue) \cup {c}
  BY AppendDistinct DEF Inv, TypeOK, OnePlace, Waiting
<1>3. OnePlace'
  BY <1>2 DEF Inv, OnePlace, Waiting
<1>4. LeasesExact' /\ NoIdleSlot' /\ OvertakingCounted'
  BY GateAssumption DEF Inv, TypeOK, LeasesExact, NoIdleSlot, OvertakingCounted
<1> QED BY <1>1, <1>3, <1>4 DEF Inv

LEMMA EnqueueNormalInv ==
    ASSUME Inv, NEW c \in Callers, EnqueueNormal(c)
    PROVE  Inv'
<1> USE DEF EnqueueNormal, Admissible, LeaseFree
<1>1. TypeOK'
  BY AppendProperties DEF Inv, TypeOK
<1>2. /\ Distinct(normalQueue')
      /\ Range(normalQueue') = Range(normalQueue) \cup {c}
  BY AppendDistinct DEF Inv, TypeOK, OnePlace, Waiting
<1>3. OnePlace'
  BY <1>2 DEF Inv, OnePlace, Waiting
<1>4. LeasesExact' /\ NoIdleSlot' /\ OvertakingCounted'
  BY GateAssumption DEF Inv, TypeOK, LeasesExact, NoIdleSlot, OvertakingCounted
<1> QED BY <1>1, <1>3, <1>4 DEF Inv

LEMMA AbortCriticalInv ==
    ASSUME Inv, NEW c \in Callers, AbortCritical(c)
    PROVE  Inv'
<1> USE DEF AbortCritical
<1>1. PICK i \in 1..Len(criticalQueue) :
          criticalQueue[i] = c /\ criticalQueue' = RemoveAt(criticalQueue, i)
  OBVIOUS
<1>2. /\ criticalQueue' \in Seq(Callers)
      /\ Len(criticalQueue') = Len(criticalQueue) - 1
      /\ Distinct(criticalQueue')
      /\ Range(criticalQueue') \subseteq Range(criticalQueue)
  <2>1. criticalQueue \in Seq(Callers) /\ Distinct(criticalQueue)
    BY DEF Inv, TypeOK, OnePlace
  <2>2. /\ RemoveAt(criticalQueue, i) \in Seq(Callers)
        /\ Len(RemoveAt(criticalQueue, i)) = Len(criticalQueue) - 1
    BY <2>1, RemoveAtProperties
  <2>3. /\ Distinct(RemoveAt(criticalQueue, i))
        /\ Range(RemoveAt(criticalQueue, i)) = Range(criticalQueue) \ {criticalQueue[i]}
    BY <2>1, RemoveAtDistinct
  <2> QED BY <1>1, <2>2, <2>3
<1>3. TypeOK'
  BY <1>2 DEF Inv, TypeOK
<1>4. OnePlace'
  BY <1>2 DEF Inv, OnePlace, Waiting
<1>5. NoIdleSlot'
  BY <1>1, <1>2, GateFacts DEF Inv, NoIdleSlot, queuedCount
<1>6. LeasesExact' /\ OvertakingCounted'
  BY DEF Inv, LeasesExact, OvertakingCounted
<1> QED BY <1>3, <1>4, <1>5, <1>6 DEF Inv

LEMMA AbortNormalInv ==
    ASSUME Inv, NEW c \in Callers, AbortNormal(c)
    PROVE  Inv'
<1> USE DEF AbortNormal
<1>1. PICK i \in 1..Len(normalQueue) :
          /\ normalQueue[i] = c
          /\ normalQueue' = RemoveAt(normalQueue, i)
          /\ headOvertaken' = IF i = 1 THEN 0 ELSE headOvertaken
  OBVIOUS
<1>2. /\ normalQueue' \in Seq(Callers)
      /\ Len(normalQueue') = Len(normalQueue) - 1
      /\ Distinct(normalQueue')
      /\ Range(normalQueue') \subseteq Range(normalQueue)
  <2>1. normalQueue \in Seq(Callers) /\ Distinct(normalQueue)
    BY DEF Inv, TypeOK, OnePlace
  <2>2. /\ RemoveAt(normalQueue, i) \in Seq(Callers)
        /\ Len(RemoveAt(normalQueue, i)) = Len(normalQueue) - 1
    BY <2>1, RemoveAtProperties
  <2>3. /\ Distinct(RemoveAt(normalQueue, i))
        /\ Range(RemoveAt(normalQueue, i)) = Range(normalQueue) \ {normalQueue[i]}
    BY <2>1, RemoveAtDistinct
  <2> QED BY <1>1, <2>2, <2>3
<1>3. TypeOK'
  BY <1>1, <1>2 DEF Inv, TypeOK
<1>4. OnePlace'
  BY <1>2 DEF Inv, OnePlace, Waiting
<1>5. NoIdleSlot'
  BY <1>1, <1>2, GateFacts DEF Inv, NoIdleSlot, queuedCount
<1>6. LeasesExact'
  BY DEF Inv, LeasesExact
<1>7. OvertakingCounted'
  <2>1. normalQueue # <<>>
    BY <1>1, GateFacts DEF Inv
  <2> QED BY <1>1, <2>1 DEF Inv, TypeOK, OvertakingCounted
<1> QED BY <1>3, <1>4, <1>5, <1>6, <1>7 DEF Inv

LEMMA ReleaseToCriticalInv ==
    ASSUME Inv, NEW c \in Callers, ReleaseToCritical(c)
    PROVE  Inv'
<1> USE DEF ReleaseToCritical, Unused
<1> DEFINE d == Head(criticalQueue)
<1>1. criticalQueue # <<>>
  BY DEF CriticalTurn
<1>2. /\ criticalQueue' \in Seq(Callers)
      /\ d \in Callers
      /\ d \in Range(criticalQueue)
      /\ Distinct(criticalQueue')
      /\ Range(criticalQueue') = Range(criticalQueue) \ {d}
  BY <1>1, HeadTailProperties, TailDistinct DEF Inv, TypeOK, OnePlace
<1>3. d \notin holders /\ d \notin Range(normalQueue)
  BY <1>2 DEF Inv, OnePlace, Waiting
<1>4. active' = active /\ active = MaxConcurrent
  BY <1>1, GateFacts DEF Inv, TypeOK, NoIdleSlot, queuedCount
<1>5. consecutiveCriticalDispatches' \in 0..CriticalBurst
  BY GateAssumption DEF Inv, TypeOK, CountedUp
<1>6. TypeOK'
  BY <1>2, <1>4, <1>5 DEF Inv, TypeOK
<1>7. OnePlace'
  BY <1>2, <1>3 DEF Inv, OnePlace, Waiting
<1>8. LeasesExact'
  <2>1. Cardinality(holders') = Cardinality(holders)
    BY <1>3, GateFacts, HandOverKeepsCount DEF Inv
  <2> QED BY <2>1, <1>4 DEF Inv, LeasesExact
<1>9. NoIdleSlot'
  BY <1>4 DEF NoIdleSlot
<1>10. OvertakingCounted'
  BY GateAssumption DEF Inv, TypeOK, OvertakingCounted, CriticalTurn, CountedUp
<1> QED BY <1>6, <1>7, <1>8, <1>9, <1>10 DEF Inv

LEMMA ReleaseToNormalInv ==
    ASSUME Inv, NEW c \in Callers, ReleaseToNormal(c)
    PROVE  Inv'
<1> USE DEF ReleaseToNormal, Unused
<1> DEFINE d == Head(normalQueue)
<1>1. /\ normalQueue' \in Seq(Callers)
      /\ d \in Callers
      /\ d \in Range(normalQueue)
      /\ Distinct(normalQueue')
      /\ Range(normalQueue') = Range(normalQueue) \ {d}
  BY HeadTailProperties, TailDistinct DEF Inv, TypeOK, OnePlace
<1>2. d \notin holders /\ d \notin Range(criticalQueue)
  BY <1>1 DEF Inv, OnePlace, Waiting
<1>3. active' = active /\ active = MaxConcurrent
  BY GateFacts DEF Inv, TypeOK, NoIdleSlot, queuedCount
<1>4. TypeOK'
  BY <1>1, <1>3, GateAssumption DEF Inv, TypeOK
<1>5. OnePlace'
  BY <1>1, <1>2 DEF Inv, OnePlace, Waiting
<1>6. LeasesExact'
  <2>1. Cardinality(holders') = Cardinality(holders)
    BY <1>2, GateFacts, HandOverKeepsCount DEF Inv
  <2> QED BY <2>1, <1>3 DEF Inv, LeasesExact
<1>7. NoIdleSlot' /\ OvertakingCounted'
  BY <1>3 DEF NoIdleSlot, OvertakingCounted
<1> QED BY <1>4, <1>5, <1>6, <1>7 DEF Inv

LEMMA ReleaseUnclaimedInv ==
    ASSUME Inv, NEW c \in Callers, ReleaseUnclaimed(c)
    PROVE  Inv'
<1> USE DEF ReleaseUnclaimed, Unused, NobodyWaits
<1>1. Cardinality(holders') = Cardinality(holders) - 1
  BY GateFacts, FS_RemoveElement DEF Inv
<1>2. Cardinality(holders) # 0
  BY GateFacts, FS_EmptySet DEF Inv
<1>3. active' \in Nat
  BY <1>2, GateFacts DEF Inv, TypeOK, LeasesExact
<1>4. TypeOK'
  BY <1>3, GateAssumption DEF Inv, TypeOK
<1>5. OnePlace'
  BY DEF Inv, OnePlace, Waiting
<1>6. LeasesExact'
  BY <1>1, <1>3, GateFacts, GateAssumption DEF Inv, TypeOK, LeasesExact
<1>7. NoIdleSlot'
  BY DEF NoIdleSlot, queuedCount
<1>8. OvertakingCounted'
  BY GateFacts DEF Inv, OvertakingCounted, queuedCount
<1> QED BY <1>4, <1>5, <1>6, <1>7, <1>8 DEF Inv

LEMMA NextInv == Inv /\ [Next]_vars => Inv'
<1> SUFFICES ASSUME Inv, [Next]_vars PROVE Inv'
  OBVIOUS
<1>1. CASE UNCHANGED vars
  BY <1>1 DEF Inv, TypeOK, OnePlace, LeasesExact, NoIdleSlot, OvertakingCounted,
              Waiting, queuedCount, vars
<1>2. CASE Next
  <2>1. PICK c \in Callers :
            \/ Acquire(c)
            \/ EnqueueCritical(c) \/ EnqueueNormal(c)
            \/ AbortCritical(c) \/ AbortNormal(c)
            \/ ReleaseToCritical(c) \/ ReleaseToNormal(c) \/ ReleaseUnclaimed(c)
    BY <1>2 DEF Next
  <2> QED BY <2>1, AcquireInv, EnqueueCriticalInv, EnqueueNormalInv, AbortCriticalInv,
             AbortNormalInv, ReleaseToCriticalInv, ReleaseToNormalInv, ReleaseUnclaimedInv
<1> QED BY <1>1, <1>2

\* The invariant holds in every reachable state of the gate.
LEMMA SpecInv == Spec => []Inv
  BY InitInv, NextInv, PTL DEF Spec

-----------------------------------------------------------------------------
\* The gate's variables have their types: the count of leases is never
\* negative, whatever is released, aborted and handed over.
THEOREM GateTypeOK == Spec => []TypeOK
<1>1. Inv => TypeOK
  BY DEF Inv
<1> QED BY <1>1, SpecInv, PTL

\* The count that acquire compares with maxConcurrent is the number of leases
\* out, and it never exceeds the limit.
THEOREM GateLeasesExact == Spec => []LeasesExact
<1>1. Inv => LeasesExact
  BY DEF Inv
<1> QED BY <1>1, SpecInv, PTL

\* No caller waits beside a free lease.
THEOREM GateNoIdleSlot == Spec => []NoIdleSlot
<1>1. Inv => NoIdleSlot
  BY DEF Inv
<1> QED BY <1>1, SpecInv, PTL

\* The head of the normal lane is overtaken at most CriticalBurst times.
THEOREM GateBoundedOvertaking == Spec => []BoundedOvertaking
<1>1. Inv => BoundedOvertaking
  BY GateAssumption DEF Inv, TypeOK, OvertakingCounted, BoundedOvertaking
<1> QED BY <1>1, SpecInv, PTL

-----------------------------------------------------------------------------
\* While a lease is free, nobody is in a lane; while somebody is, all are out.
LEMMA FreeMeansNobodyQueued ==
    ASSUME Inv
    PROVE  /\ active < MaxConcurrent => QueuedCallers = {}
           /\ queuedCount = 0 => QueuedCallers = {}
<1>1. queuedCount = 0 => criticalQueue = <<>> /\ normalQueue = <<>>
  BY GateFacts DEF Inv, queuedCount
<1>2. queuedCount = 0 => QueuedCallers = {}
  BY <1>1, EmptyRange DEF QueuedCallers, Waiting
<1>3. active < MaxConcurrent => queuedCount = 0
  BY GateFacts, GateAssumption DEF Inv, TypeOK, NoIdleSlot, queuedCount
<1> QED BY <1>2, <1>3

\* The pool counts as the gate does.
LEMMA PoolCardinality == \A S : Pool!Cardinality(S) = Cardinality(S)
  BY DEF Cardinality, Pool!Cardinality, IsFiniteSet, Pool!IsFiniteSet

LEMMA AcquireTakes ==
    ASSUME Inv, NEW c \in Callers, Acquire(c)
    PROVE  Pool!Take(c)
<1>1. QueuedCallers = {} /\ QueuedCallers' = QueuedCallers
  BY FreeMeansNobodyQueued DEF Acquire, LeaseFree, QueuedCallers, Waiting
<1> QED BY <1>1, PoolCardinality
    DEF Acquire, Admissible, LeaseFree, Inv, LeasesExact, Pool!Take, Pool!Idle

LEMMA EnqueueWaits ==
    ASSUME Inv, NEW c \in Callers, EnqueueCritical(c) \/ EnqueueNormal(c)
    PROVE  Pool!Wait(c)
<1>1. Admissible(c) /\ ~LeaseFree /\ holders' = holders
  BY DEF EnqueueCritical, EnqueueNormal
<1>2. c \notin holders /\ c \notin QueuedCallers
  BY <1>1 DEF Admissible, QueuedCallers
<1>3. Cardinality(holders) = MaxConcurrent
  BY <1>1, GateFacts, GateAssumption DEF Inv, LeaseFree, TypeOK, LeasesExact
<1>4. QueuedCallers' = QueuedCallers \cup {c}
  <2>1. CASE EnqueueCritical(c)
    <3>1. Range(criticalQueue') = Range(criticalQueue) \cup {c}
      BY <2>1, <1>1, AppendDistinct DEF EnqueueCritical, Admissible, Waiting, Inv, TypeOK, OnePlace
    <3> QED BY <2>1, <3>1 DEF EnqueueCritical, QueuedCallers, Waiting
  <2>2. CASE EnqueueNormal(c)
    <3>1. Range(normalQueue') = Range(normalQueue) \cup {c}
      BY <2>2, <1>1, AppendDistinct DEF EnqueueNormal, Admissible, Waiting, Inv, TypeOK, OnePlace
    <3> QED BY <2>2, <3>1 DEF EnqueueNormal, QueuedCallers, Waiting
  <2> QED BY <2>1, <2>2
<1> QED BY <1>1, <1>2, <1>3, <1>4, PoolCardinality DEF Pool!Wait, Pool!Idle

LEMMA AbortGivesUp ==
    ASSUME Inv, NEW c \in Callers, AbortCritical(c) \/ AbortNormal(c)
    PROVE  Pool!GiveUp(c)
<1>1. /\ criticalQueue \in Seq(Callers) /\ Distinct(criticalQueue)
      /\ normalQueue \in Seq(Callers) /\ Distinct(normalQueue)
      /\ Range(criticalQueue) \cap Range(normalQueue) = {}
  BY DEF Inv, TypeOK, OnePlace
<1>2. CASE AbortCritical(c)
  <2>1. PICK i \in 1..Len(criticalQueue) :
            criticalQueue[i] = c /\ criticalQueue' = RemoveAt(criticalQueue, i)
    BY <1>2 DEF AbortCritical
  <2>2. Range(criticalQueue') = Range(criticalQueue) \ {c}
    BY <1>1, <2>1, RemoveAtDistinct
  <2>3. c \in Range(criticalQueue)
    BY <1>1, <2>1, RangeEquality
  <2> QED BY <1>1, <1>2, <2>2, <2>3 DEF AbortCritical, QueuedCallers, Waiting, Pool!GiveUp
<1>3. CASE AbortNormal(c)
  <2>1. PICK i \in 1..Len(normalQueue) :
            normalQueue[i] = c /\ normalQueue' = RemoveAt(normalQueue, i)
    BY <1>3 DEF AbortNormal
  <2>2. Range(normalQueue') = Range(normalQueue) \ {c}
    BY <1>1, <2>1, RemoveAtDistinct
  <2>3. c \in Range(normalQueue)
    BY <1>1, <2>1, RangeEquality
  <2> QED BY <1>1, <1>3, <2>2, <2>3 DEF AbortNormal, QueuedCallers, Waiting, Pool!GiveUp
<1> QED BY <1>2, <1>3

LEMMA ReleaseHandsOver ==
    ASSUME Inv, NEW c \in Callers, ReleaseToCritical(c) \/ ReleaseToNormal(c)
    PROVE  \E d \in Callers : Pool!HandOver(c, d)
<1>1. /\ criticalQueue \in Seq(Callers) /\ Distinct(criticalQueue)
      /\ normalQueue \in Seq(Callers) /\ Distinct(normalQueue)
      /\ Range(criticalQueue) \cap Range(normalQueue) = {}
  BY DEF Inv, TypeOK, OnePlace
<1>2. CASE ReleaseToCritical(c)
  <2> DEFINE d == Head(criticalQueue)
  <2>1. criticalQueue # <<>>
    BY <1>2 DEF ReleaseToCritical, CriticalTurn
  <2>2. d \in Callers /\ d \in Range(criticalQueue)
    BY <1>1, <2>1, HeadTailProperties, TailDistinct
  <2>3. Range(criticalQueue') = Range(criticalQueue) \ {d}
    BY <1>1, <1>2, <2>1, TailDistinct DEF ReleaseToCritical
  <2>4. QueuedCallers' = QueuedCallers \ {d}
    BY <1>1, <1>2, <2>2, <2>3 DEF ReleaseToCritical, QueuedCallers, Waiting
  <2>5. Pool!HandOver(c, d)
    BY <1>2, <2>2, <2>4 DEF ReleaseToCritical, Unused, QueuedCallers, Waiting, Pool!HandOver
  <2> QED BY <2>2, <2>5
<1>3. CASE ReleaseToNormal(c)
  <2> DEFINE d == Head(normalQueue)
  <2>1. normalQueue # <<>>
    BY <1>3 DEF ReleaseToNormal
  <2>2. d \in Callers /\ d \in Range(normalQueue)
    BY <1>1, <2>1, HeadTailProperties, TailDistinct
  <2>3. Range(normalQueue') = Range(normalQueue) \ {d}
    BY <1>1, <1>3, <2>1, TailDistinct DEF ReleaseToNormal
  <2>4. QueuedCallers' = QueuedCallers \ {d}
    BY <1>1, <1>3, <2>2, <2>3 DEF ReleaseToNormal, QueuedCallers, Waiting
  <2>5. Pool!HandOver(c, d)
    BY <1>3, <2>2, <2>4 DEF ReleaseToNormal, Unused, QueuedCallers, Waiting, Pool!HandOver
  <2> QED BY <2>2, <2>5
<1> QED BY <1>2, <1>3

LEMMA ReleaseReturns ==
    ASSUME Inv, NEW c \in Callers, ReleaseUnclaimed(c)
    PROVE  Pool!Return(c)
<1>1. QueuedCallers = {} /\ QueuedCallers' = QueuedCallers
  BY FreeMeansNobodyQueued DEF ReleaseUnclaimed, NobodyWaits, QueuedCallers, Waiting
<1> QED BY <1>1 DEF ReleaseUnclaimed, Unused, Pool!Return

\* The safety part of ImplementsLeasePool: the gate starts as an empty pool and
\* each of its steps is one step of the pool.  (That every waiting caller is
\* served is checked by TLC.)
THEOREM GateStepsArePoolSteps == Spec => Pool!Init /\ [][Pool!Next]_(Pool!vars)
<1>1. Init => Pool!Init
  BY EmptyRange DEF Init, Pool!Init, QueuedCallers, Waiting
<1>2. Inv /\ [Next]_vars => [Pool!Next]_(Pool!vars)
  <2> SUFFICES ASSUME Inv, [Next]_vars PROVE [Pool!Next]_(Pool!vars)
    OBVIOUS
  <2>1. CASE UNCHANGED vars
    BY <2>1 DEF vars, Pool!vars, QueuedCallers, Waiting
  <2>2. CASE Next
    <3>1. PICK c \in Callers :
              \/ Acquire(c)
              \/ EnqueueCritical(c) \/ EnqueueNormal(c)
              \/ AbortCritical(c) \/ AbortNormal(c)
              \/ ReleaseToCritical(c) \/ ReleaseToNormal(c) \/ ReleaseUnclaimed(c)
      BY <2>2 DEF Next
    <3> QED BY <3>1, AcquireTakes, EnqueueWaits, AbortGivesUp, ReleaseHandsOver, ReleaseReturns
            DEF Pool!Next
  <2> QED BY <2>1, <2>2
<1> QED BY <1>1, <1>2, SpecInv, PTL DEF Spec
=============================================================================
