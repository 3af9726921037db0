-------------------------- MODULE ToolCalls_proofs --------------------------
(***************************************************************************)
(* The safety properties of tool calls hold for any calls, keys, tools and *)
(* limits.  Each is proved with what else is always true of the queues and *)
(* of the entries.                                                         *)
(***************************************************************************)
EXTENDS ToolCalls, SequenceTheorems, FiniteSetTheorems, TLAPS

-----------------------------------------------------------------------------
(* Facts about sequences *)

\* splice(i, 1): the elements before i stay where they are, those behind it move up
\* by one.
LEMMA RemoveAtProperties ==
    ASSUME NEW S, NEW q \in Seq(S), NEW i \in 1..Len(q)
    PROVE  /\ RemoveAt(q, i) \in Seq(S)
           /\ Len(RemoveAt(q, i)) = Len(q) - 1
           /\ \A j \in 1..(Len(q) - 1) :
                  RemoveAt(q, i)[j] = IF j < i THEN q[j] ELSE q[j + 1]
<1> DEFINE a == SubSeq(q, 1, i - 1)
           b == SubSeq(q, i + 1, Len(q))
<1>1. /\ a \in Seq(S) /\ Len(a) = i - 1 /\ \A j \in 1..(i - 1) : a[j] = q[j]
      /\ b \in Seq(S) /\ Len(b) = Len(q) - i /\ \A j \in 1..(Len(q) - i) : b[j] = q[i + j]
  BY SubSeqProperties
<1> HIDE DEF a, b
<1>2. \A j \in 1..(Len(q) - 1) : j >= i => b[j - Len(a)] = q[j + 1]
  BY <1>1
<1>3. /\ a \o b \in Seq(S) /\ Len(a \o b) = Len(a) + Len(b)
      /\ \A j \in 1..(Len(a) + Len(b)) :
             (a \o b)[j] = IF j <= Len(a) THEN a[j] ELSE b[j - Len(a)]
  BY <1>1, ConcatProperties
<1>4. RemoveAt(q, i) = a \o b
  BY DEF RemoveAt, a, b
<1>5. \A j \in 1..(Len(q) - 1) : (a \o b)[j] = IF j < i THEN q[j] ELSE q[j + 1]
  BY <1>1, <1>2, <1>3
<1>6. Len(a \o b) = Len(q) - 1
  BY <1>1, <1>3
<1> QED BY <1>3, <1>4, <1>5, <1>6

\* No value occurs twice in a queue.
Distinct(q) == \A j, k \in 1..Len(q) : q[j] = q[k] => j = k

\* A waiter that leaves a queue without repetitions is in it no more; the others
\* are.
LEMMA RemoveAtDistinct ==
    ASSUME NEW S, NEW q \in Seq(S), NEW i \in 1..Len(q), Distinct(q)
    PROVE  /\ Distinct(RemoveAt(q, i))
           /\ Range(RemoveAt(q, i)) = Range(q) \ {q[i]}
<1> DEFINE r == RemoveAt(q, i)
           n == Len(q) - 1
<1>1. /\ r \in Seq(S) /\ Len(r) = n /\ n \in Nat /\ Len(q) = n + 1
      /\ \A j \in 1..n : r[j] = IF j < i THEN q[j] ELSE q[j + 1]
  <2>1. Len(q) \in Nat /\ Len(q) >= 1
    BY LenProperties
  <2>2. n \in Nat /\ Len(q) = n + 1
    BY <2>1
  <2> HIDE DEF n
  <2> QED BY <2>2, RemoveAtProperties DEF n
<1>2. Range(q) = {q[j] : j \in 1..(n + 1)} /\ Range(r) = {r[j] : j \in 1..n}
  BY <1>1, RangeEquality
<1> HIDE DEF r, n
<1>3. Distinct(r)
  BY <1>1 DEF Distinct
<1>4. \A j \in 1..(n + 1) : j # i => q[j] = r[IF j < i THEN j ELSE j - 1] /\ q[j] # q[i]
  BY <1>1 DEF Distinct
<1>5. \A j \in 1..n : r[j] = q[IF j < i THEN j ELSE j + 1]
  BY <1>1
<1> QED BY <1>1, <1>2, <1>3, <1>4, <1>5 DEF r

\* Array.push of a value that is not in the queue.
LEMMA AppendDistinct ==
    ASSUME NEW S, NEW q \in Seq(S), NEW x \in S, Distinct(q), x \notin Range(q)
    PROVE  /\ Distinct(Append(q, x))
           /\ Range(Append(q, x)) = Range(q) \cup {x}
<1> DEFINE r == Append(q, x)
           n == Len(q)
<1>1. /\ n \in Nat /\ r \in Seq(S) /\ Len(r) = n + 1 /\ r[n + 1] = x
      /\ \A j \in 1..n : r[j] = q[j]
  BY AppendProperties, LenProperties
<1> HIDE DEF r
<1>2. Range(q) = {q[j] : j \in 1..n} /\ Range(r) = {r[j] : j \in 1..(n + 1)}
  BY <1>1, RangeEquality
<1>3. Distinct(r)
  BY <1>1, <1>2 DEF Distinct
<1> QED BY <1>1, <1>2, <1>3 DEF r

\* Array.shift of the head of a queue without repetitions.
LEMMA TailDistinct ==
    ASSUME NEW S, NEW q \in Seq(S), q # <<>>, Distinct(q)
    PROVE  /\ Tail(q) \in Seq(S)
           /\ Len(Tail(q)) = Len(q) - 1
           /\ Head(q) \in Range(q)
           /\ Distinct(Tail(q))
           /\ Range(Tail(q)) = Range(q) \ {Head(q)}
<1>1. 1 \in 1..Len(q) /\ Head(q) = q[1] /\ Len(q) \in Nat
  BY EmptySeq, HeadTailProperties, LenProperties
<1>2. q[1] \in Range(q)
  BY <1>1, RangeEquality
<1>3. Tail(q) = RemoveAt(q, 1)
  BY <1>1, TailIsSubSeq, SubSeqEmpty, ConcatEmptySeq, SubSeqProperties DEF RemoveAt
<1>4. /\ RemoveAt(q, 1) \in Seq(S) /\ Len(RemoveAt(q, 1)) = Len(q) - 1
      /\ Distinct(RemoveAt(q, 1)) /\ Range(RemoveAt(q, 1)) = Range(q) \ {q[1]}
  BY <1>1, RemoveAtProperties, RemoveAtDistinct
<1> QED BY <1>1, <1>2, <1>3, <1>4

-----------------------------------------------------------------------------

\* A tool's queue holds calls of that tool that wait, each once.
QueuesHoldWaiters ==
    \A t \in Tools :
        /\ Distinct(queue[t])
        /\ \A c \in Range(queue[t]) : call[c] = "queued" /\ Tool(c) = t

\* A call that waits has not been started.
StartedCallsGoOn == \A c \in started : call[c] \notin {"idle", "queued"}

\* The entries tell the truth: what is completed was returned by a call of the
\* key, what is recorded has a recorder that will complete it, or none that this
\* process knows of, and a key whose entry says failed has failed.
EntriesTrue ==
    \A k \in Keys :
        /\ entries[k].status = "completed" =>
              /\ entries[k].by \in Calls
              /\ KeyOf[entries[k].by] = k
              /\ call[entries[k].by] = "done"
        /\ entries[k].status = "recorded" /\ entries[k].by # Nobody =>
              /\ entries[k].by \in keyed
              /\ KeyOf[entries[k].by] = k
              /\ call[entries[k].by] \in Live
        /\ entries[k].status = "failed" => k \in failing

Sound == Required \ (failing \cup forgotten)

\* A sound key without an entry was never tried, and a call of a sound key that
\* waits is the only one that was not turned away.
SoundKeysTriedOnce ==
    \A c \in Calls : KeyOf[c] \in Sound =>
        /\ entries[KeyOf[c]].status = "none" => c \notin started /\ call[c] # "queued"
        /\ call[c] = "queued" =>
              \A d \in Calls : KeyOf[d] = KeyOf[c] =>
                  d \notin started /\ (call[d] = "queued" => d = c)

Inv ==
    /\ TypeOK
    /\ QueuesHoldWaiters
    /\ StartedCallsGoOn
    /\ EntriesTrue
    /\ SoundKeysTriedOnce
    /\ RunsOnceUntilFailure

-----------------------------------------------------------------------------
LEMMA CallFacts ==
    ASSUME NEW c \in Calls
    PROVE  KeyOf[c] \in Keys /\ Tool(c) \in Tools
BY CallsAssumption DEF Tool

LEMMA EmptyQueue == Range(<<>>) = {} /\ Distinct(<<>>)
<1>1. <<>> \in Seq({}) /\ Len(<<>>) = 0
  BY EmptySeq
<1>2. Range(<<>>) = {<<>>[i] : i \in 1..Len(<<>>)}
  BY <1>1, RangeEquality
<1> QED BY <1>1, <1>2 DEF Distinct

\* A queued call is a call, waits, and waits for its own tool.
LEMMA QueueFacts ==
    ASSUME TypeOK, QueuesHoldWaiters, NEW t \in Tools, NEW c \in Range(queue[t])
    PROVE  c \in Calls /\ call[c] = "queued" /\ Tool(c) = t
<1>1. queue[t] \in Seq(Calls)
  BY DEF TypeOK
<1>2. Range(queue[t]) = {queue[t][i] : i \in 1..Len(queue[t])}
  BY <1>1, RangeEquality
<1>3. c \in Calls
  BY <1>1, <1>2, ElementOfSeq
<1> QED BY <1>3 DEF QueuesHoldWaiters

LEMMA InitInv == Init => Inv
<1> SUFFICES ASSUME Init PROVE Inv
  OBVIOUS
<1> USE DEF Init
<1>1. TypeOK
  BY CallsAssumption, EmptySeq DEF TypeOK, Entry, NoEntry, Statuses
<1>2. QueuesHoldWaiters
  BY EmptyQueue DEF QueuesHoldWaiters
<1>3. StartedCallsGoOn /\ RunsOnceUntilFailure
  BY DEF StartedCallsGoOn, RunsOnceUntilFailure
<1>4. EntriesTrue
  BY DEF EntriesTrue, NoEntry
<1>5. SoundKeysTriedOnce
  BY DEF SoundKeysTriedOnce
<1> QED BY <1>1, <1>2, <1>3, <1>4, <1>5 DEF Inv

\* Replay and Conflict.
LEMMA AnswerInv ==
    ASSUME Inv, NEW c \in Calls, NEW how \in Answered, Answer(c, how)
    PROVE  Inv'
<1> USE DEF Answer, manager, SameSession
<1>1. TypeOK'
  BY DEF Inv, TypeOK
<1>2. QueuesHoldWaiters'
  BY DEF Inv, TypeOK, QueuesHoldWaiters, Tool
<1>3. StartedCallsGoOn' /\ RunsOnceUntilFailure'
  BY DEF Inv, TypeOK, StartedCallsGoOn, RunsOnceUntilFailure, Answered
<1>4. EntriesTrue'
  BY DEF Inv, TypeOK, EntriesTrue, Live
<1>5. SoundKeysTriedOnce'
  BY DEF Inv, TypeOK, SoundKeysTriedOnce, Sound, Answered
<1> QED BY <1>1, <1>2, <1>3, <1>4, <1>5 DEF Inv

\* What record() leaves behind.
LEMMA RecordInv ==
    ASSUME Inv, NEW c \in Calls, call[c] = "idle",
           NEW verdict \in Seen(KeyOf[c]) \ {"completed", "recorded"},
           Record(c, verdict), Enter(c), UNCHANGED <<crashes, file>>
    PROVE  Inv'
<1> DEFINE k == KeyOf[c]
           t == Tool(c)
<1>0. k \in Keys /\ t \in Tools
  BY CallFacts
<1>a. c \notin started /\ (\A u \in Tools : c \notin Range(queue[u]))
  BY DEF Inv, StartedCallsGoOn, QueuesHoldWaiters
<1>b. \/ /\ call' = [call EXCEPT ![c] = "failed"]
         /\ UNCHANGED <<queue, executing, started>>
      \/ /\ call' = [call EXCEPT ![c] = "running"]
         /\ executing' = executing \cup {c}
         /\ started' = started \cup {c}
         /\ UNCHANGED queue
      \/ /\ call' = [call EXCEPT ![c] = "queued"]
         /\ queue' = [queue EXCEPT ![t] = Append(@, c)]
         /\ UNCHANGED <<executing, started>>
  BY DEF Enter, Saturated
<1>c. \/ /\ k \in Required /\ verdict = "new"
         /\ entries' = [entries EXCEPT ![k] = [status |-> "recorded", by |-> c]]
         /\ keyed' = keyed \cup {c}
         /\ failing' = failing
         /\ forgotten' = IF entries[k].status = "recorded"
                         THEN forgotten \cup {k} ELSE forgotten
      \/ /\ k \notin Required \/ verdict # "new"
         /\ UNCHANGED <<keyed, entries, failing, forgotten>>
  BY DEF Record, manager
<1>d. \A d \in Calls : call'[d] = IF d = c THEN call'[c] ELSE call[d]
  BY <1>b DEF Inv, TypeOK
<1>e. call'[c] \in {"failed", "running", "queued"}
  BY <1>b DEF Inv, TypeOK
<1>1. TypeOK'
  <2>1. call' \in [Calls -> Live \cup Answered \cup {"idle", "lost"}]
    BY <1>b DEF Inv, TypeOK, Live
  <2>2. queue' \in [Tools -> Seq(Calls)]
    <3>1. Append(queue[t], c) \in Seq(Calls)
      BY <1>0, AppendProperties DEF Inv, TypeOK
    <3> QED BY <1>b, <3>1 DEF Inv, TypeOK
  <2>3. executing' \subseteq Calls /\ started' \subseteq Calls
    BY <1>b DEF Inv, TypeOK
  <2>4. keyed' \subseteq Calls /\ failing' \subseteq Keys /\ forgotten' \subseteq Keys
    BY <1>0, <1>c DEF Inv, TypeOK
  <2>5. entries' \in [Keys -> Entry]
    BY <1>0, <1>c DEF Inv, TypeOK, Entry, Statuses
  <2> QED BY <2>1, <2>2, <2>3, <2>4, <2>5 DEF Inv, TypeOK
<1>2. QueuesHoldWaiters'
  <2>0. \A u \in Tools : \A d \in Range(queue[u]) :
            call'[d] = "queued" /\ ToolOf[KeyOf[d]] = u
    BY <1>a, <1>d, QueueFacts DEF Inv, Tool
  <2>1. CASE queue' = queue
    BY <2>0, <2>1 DEF Inv, QueuesHoldWaiters, Tool
  <2>2. CASE queue' # queue
    <3>1. call'[c] = "queued" /\ queue' = [queue EXCEPT ![t] = Append(@, c)]
      BY <1>b, <2>2 DEF Inv, TypeOK
    <3>2. Distinct(queue'[t]) /\ Range(queue'[t]) = Range(queue[t]) \cup {c}
      BY <1>0, <1>a, <3>1, AppendDistinct DEF Inv, TypeOK, QueuesHoldWaiters
    <3> QED BY <1>0, <2>0, <3>1, <3>2 DEF Inv, TypeOK, QueuesHoldWaiters, Tool
  <2> QED BY <2>1, <2>2
<1>3. StartedCallsGoOn'
  BY <1>b, <1>d DEF Inv, TypeOK, StartedCallsGoOn
<1>4. EntriesTrue'
  <2> SUFFICES ASSUME NEW j \in Keys
               PROVE  EntriesTrue!(j)'
    BY DEF EntriesTrue
  <2>1. CASE entries'[j] = entries[j]
    BY <1>c, <1>d, <1>e, <2>1 DEF Inv, TypeOK, EntriesTrue, Live
  <2>2. CASE entries'[j] # entries[j]
    <3>1. j = k /\ entries'[j] = [status |-> "recorded", by |-> c] /\ c \in keyed'
      BY <1>0, <1>c, <2>2 DEF Inv, TypeOK
    <3> QED BY <1>e, <3>1 DEF Live
  <2> QED BY <2>1, <2>2
\* The call is of a sound key only if the key was never tried.
<1>5. ASSUME k \in Sound'
      PROVE  /\ entries[k].status = "none" /\ entries'[k].status = "recorded"
             /\ k \in Sound
  <2>1. k \in Sound /\ (verdict = "new" => entries[k].status # "recorded")
    BY <1>5, <1>c DEF Sound
  <2>2. entries[k].status # "failed" /\ entries[k].status \in Statuses
    BY <1>0, <2>1 DEF Inv, TypeOK, EntriesTrue, Sound, Entry
  <2>3. verdict = "new"
    BY <2>2 DEF Seen, Statuses
  <2> QED BY <1>0, <1>c, <2>1, <2>2, <2>3 DEF Seen, Statuses, Sound, Inv, TypeOK
<1>6. SoundKeysTriedOnce'
  <2> SUFFICES ASSUME NEW e \in Calls, KeyOf[e] \in Sound'
               PROVE  /\ entries'[KeyOf[e]].status = "none" => e \notin started' /\ call'[e] # "queued"
                      /\ call'[e] = "queued" =>
                            \A d \in Calls : KeyOf[d] = KeyOf[e] =>
                                d \notin started' /\ (call'[d] = "queued" => d = e)
    BY DEF SoundKeysTriedOnce
  <2>1. CASE KeyOf[e] = k
    <3>1. \A d \in Calls : KeyOf[d] = k => d \notin started /\ call[d] # "queued"
      BY <1>5, <2>1 DEF Inv, SoundKeysTriedOnce
    <3> QED BY <1>5, <1>b, <1>d, <1>e, <2>1, <3>1 DEF Inv, TypeOK
  <2>2. CASE KeyOf[e] # k
    <3>1. KeyOf[e] \in Sound /\ entries'[KeyOf[e]] = entries[KeyOf[e]]
      BY <1>0, <1>c, <2>2, CallFacts DEF Sound, Inv, TypeOK
    <3>2. \A d \in Calls : KeyOf[d] = KeyOf[e] =>
              call'[d] = call[d] /\ (d \in started' <=> d \in started)
      BY <1>b, <1>d, <2>2
    <3> QED BY <3>1, <3>2 DEF Inv, SoundKeysTriedOnce
  <2> QED BY <2>1, <2>2
<1>7. RunsOnceUntilFailure'
  <2> SUFFICES ASSUME NEW d \in started', NEW e \in started',
                      KeyOf[d] = KeyOf[e], KeyOf[d] \in Sound'
               PROVE  d = e
    BY DEF RunsOnceUntilFailure, Sound
  <2>1. d \in Calls /\ e \in Calls
    BY <1>1 DEF TypeOK
  <2>2. CASE KeyOf[d] = k
    <3>1. \A x \in Calls : KeyOf[x] = k => x \notin started
      BY <1>5, <2>2 DEF Inv, SoundKeysTriedOnce
    <3>2. started' \subseteq started \cup {c}
      BY <1>b
    <3> QED BY <2>1, <2>2, <3>1, <3>2
  <2>3. CASE KeyOf[d] # k
    <3>1. d \in started /\ e \in started /\ KeyOf[d] \in Sound
      BY <1>b, <1>c, <2>3 DEF Sound
    <3> QED BY <3>1 DEF Inv, RunsOnceUntilFailure, Sound
  <2> QED BY <2>2, <2>3
<1> QED BY <1>1, <1>2, <1>3, <1>4, <1>6, <1>7 DEF Inv

\* A handler that ends and a timer that fires: the call goes on to its outcome
\* and the head of the queue, if there is one, starts.
LEMMA ReleaseInv ==
    ASSUME Inv, NEW c \in Calls, NEW outcome \in {"ok", "failed"}, NEW over \in SUBSET Calls,
           Release(c, outcome, over)
    PROVE  Inv'
<1> DEFINE t == Tool(c)
           h == Head(queue[t])
<1>0. t \in Tools /\ call[c] = "running" /\ UNCHANGED <<keyed, entries, failing, forgotten, crashes, file>>
  BY CallFacts DEF Release, manager, SameSession
<1>1. CASE queue[t] = <<>>
  <2>1. /\ call' = [call EXCEPT ![c] = outcome]
        /\ executing' = executing \ over
        /\ UNCHANGED <<queue, started>>
    BY <1>1 DEF Release
  <2>2. \A d \in Calls : call'[d] = IF d = c THEN outcome ELSE call[d]
    BY <2>1 DEF Inv, TypeOK
  <2>3. TypeOK'
    BY <1>0, <2>1 DEF Inv, TypeOK, Live
  <2>4. QueuesHoldWaiters'
    BY <1>0, <2>1, <2>2, QueueFacts DEF Inv, QueuesHoldWaiters
  <2>5. StartedCallsGoOn' /\ RunsOnceUntilFailure'
    BY <1>0, <2>1, <2>2 DEF Inv, TypeOK, StartedCallsGoOn, RunsOnceUntilFailure
  <2>6. EntriesTrue'
    BY <1>0, <2>1, <2>2 DEF Inv, TypeOK, EntriesTrue, Live
  <2>7. SoundKeysTriedOnce'
    BY <1>0, <2>1, <2>2 DEF Inv, SoundKeysTriedOnce, Sound
  <2> QED BY <2>3, <2>4, <2>5, <2>6, <2>7 DEF Inv
<1>2. CASE queue[t] # <<>>
  <2>1. /\ call' = [call EXCEPT ![c] = outcome, ![h] = "running"]
        /\ executing' = (executing \ over) \cup {h}
        /\ started' = started \cup {h}
        /\ queue' = [queue EXCEPT ![t] = Tail(@)]
    BY <1>2 DEF Release
  <2>2. /\ Tail(queue[t]) \in Seq(Calls)
        /\ h \in Range(queue[t])
        /\ Distinct(Tail(queue[t]))
        /\ Range(Tail(queue[t])) = Range(queue[t]) \ {h}
    BY <1>0, <1>2, TailDistinct DEF Inv, TypeOK, QueuesHoldWaiters
  <2>3. h \in Calls /\ call[h] = "queued" /\ Tool(h) = t /\ h # c
    BY <1>0, <2>2, QueueFacts DEF Inv
  <2>4. \A d \in Calls :
            call'[d] = IF d = h THEN "running" ELSE IF d = c THEN outcome ELSE call[d]
    BY <2>1, <2>3 DEF Inv, TypeOK
  <2>5. TypeOK'
    <3>1. call' \in [Calls -> Live \cup Answered \cup {"idle", "lost"}]
      BY <2>1 DEF Inv, TypeOK, Live
    <3>2. executing' \subseteq Calls /\ started' \subseteq Calls
      BY <2>1, <2>3 DEF Inv, TypeOK
    <3>3. queue' \in [Tools -> Seq(Calls)]
      BY <2>1, <2>2 DEF Inv, TypeOK
    <3> QED BY <1>0, <3>1, <3>2, <3>3 DEF Inv, TypeOK
  <2>6. QueuesHoldWaiters'
    <3> SUFFICES ASSUME NEW u \in Tools
                 PROVE  /\ Distinct(queue'[u])
                        /\ \A d \in Range(queue'[u]) : call'[d] = "queued" /\ Tool(d) = u
      BY DEF QueuesHoldWaiters, Tool
    <3>1. CASE u = t
      <4>1. queue'[u] = Tail(queue[t])
        BY <1>0, <2>1, <3>1 DEF Inv, TypeOK
      <4>2. \A d \in Range(queue'[u]) : d # h /\ d \in Range(queue[t])
        BY <4>1, <2>2
      <4> QED BY <1>0, <2>2, <2>4, <3>1, <4>1, <4>2, QueueFacts DEF Inv
    <3>2. CASE u # t
      <4>1. queue'[u] = queue[u]
        BY <2>1, <3>2 DEF Inv, TypeOK
      <4>2. \A d \in Range(queue[u]) : d \in Calls /\ call[d] = "queued" /\ Tool(d) = u
        BY QueueFacts DEF Inv
      <4>3. \A d \in Range(queue[u]) : call'[d] = "queued"
        BY <1>0, <2>3, <2>4, <3>2, <4>2
      <4> QED BY <4>1, <4>2, <4>3 DEF Inv, QueuesHoldWaiters
    <3> QED BY <3>1, <3>2
  <2>7. StartedCallsGoOn'
    BY <2>1, <2>3, <2>4 DEF Inv, TypeOK, StartedCallsGoOn
  <2>8. EntriesTrue'
    BY <1>0, <2>3, <2>4 DEF Inv, TypeOK, EntriesTrue, Live
\* The head was the only call of its key, if the key is sound.
  <2>9. SoundKeysTriedOnce' /\ RunsOnceUntilFailure'
    <3>1. \A d \in Calls : call'[d] = "queued" => call[d] = "queued" /\ d # h
      BY <2>4
    <3>2. \A d \in Calls : KeyOf[d] = KeyOf[h] /\ KeyOf[d] \in Sound =>
              d \notin started /\ (call[d] = "queued" => d = h)
      BY <2>3 DEF Inv, SoundKeysTriedOnce
    <3>3. KeyOf[h] \in Sound => entries[KeyOf[h]].status # "none"
      BY <2>3 DEF Inv, SoundKeysTriedOnce
    <3>4. Sound' = Sound
      BY <1>0 DEF Sound
    <3>5. SoundKeysTriedOnce'
      <4> SUFFICES ASSUME NEW e \in Calls, KeyOf[e] \in Sound
                   PROVE  /\ entries[KeyOf[e]].status = "none" =>
                                e \notin started' /\ call'[e] # "queued"
                          /\ call'[e] = "queued" =>
                                \A d \in Calls : KeyOf[d] = KeyOf[e] =>
                                    d \notin started' /\ (call'[d] = "queued" => d = e)
        BY <1>0, <3>4 DEF SoundKeysTriedOnce
      <4>1. e # h /\ entries[KeyOf[e]].status = "none" => e \notin started'
        BY <2>1 DEF Inv, SoundKeysTriedOnce
      <4>2. ASSUME call'[e] = "queued", NEW d \in Calls, KeyOf[d] = KeyOf[e]
            PROVE  d \notin started' /\ (call'[d] = "queued" => d = e)
        <5>1. d # h /\ call[e] = "queued"
          BY <2>3, <3>1, <3>2, <4>2
        <5> QED BY <2>1, <3>1, <4>2, <5>1 DEF Inv, SoundKeysTriedOnce
      <4> QED BY <3>1, <3>3, <4>1, <4>2 DEF Inv, SoundKeysTriedOnce
    <3>6. RunsOnceUntilFailure'
      <4> SUFFICES ASSUME NEW d \in started', NEW e \in started',
                          KeyOf[d] = KeyOf[e], KeyOf[d] \in Sound'
                   PROVE  d = e
        BY DEF RunsOnceUntilFailure, Sound
      <4>1. d \in Calls /\ e \in Calls
        BY <2>5 DEF TypeOK
      <4>2. CASE KeyOf[d] = KeyOf[h]
        BY <2>1, <3>2, <3>4, <4>1, <4>2
      <4>3. CASE KeyOf[d] # KeyOf[h]
        <5>1. d \in started /\ e \in started
          BY <2>1, <4>3
        <5> QED BY <3>4, <5>1 DEF Inv, RunsOnceUntilFailure, Sound
      <4> QED BY <4>2, <4>3
    <3> QED BY <3>5, <3>6
  <2> QED BY <2>5, <2>6, <2>7, <2>8, <2>9 DEF Inv
<1> QED BY <1>1, <1>2

LEMMA LateEndInv ==
    ASSUME Inv, NEW c \in Calls, LateEnd(c)
    PROVE  Inv'
<1> USE DEF LateEnd, manager, SameSession
<1>1. TypeOK'
  BY DEF Inv, TypeOK
<1>2. QueuesHoldWaiters' /\ StartedCallsGoOn' /\ RunsOnceUntilFailure'
  BY DEF Inv, QueuesHoldWaiters, StartedCallsGoOn, RunsOnceUntilFailure, Tool
<1>3. EntriesTrue' /\ SoundKeysTriedOnce'
  BY DEF Inv, EntriesTrue, SoundKeysTriedOnce, Sound
<1> QED BY <1>1, <1>2, <1>3 DEF Inv

LEMMA AbortQueuedInv ==
    ASSUME Inv, NEW c \in Calls, AbortQueued(c)
    PROVE  Inv'
<1> DEFINE t == Tool(c)
<1>0. /\ t \in Tools /\ call[c] = "queued"
      /\ call' = [call EXCEPT ![c] = "failed"]
      /\ UNCHANGED <<executing, started, keyed, entries, failing, forgotten, crashes, file>>
  BY CallFacts DEF AbortQueued, manager, SameSession
<1>1. PICK i \in 1 .. Len(queue[t]) :
          queue[t][i] = c /\ queue' = [queue EXCEPT ![t] = RemoveAt(@, i)]
  BY DEF AbortQueued
<1>2. /\ RemoveAt(queue[t], i) \in Seq(Calls)
      /\ Distinct(RemoveAt(queue[t], i))
      /\ Range(RemoveAt(queue[t], i)) = Range(queue[t]) \ {c}
  BY <1>0, <1>1, RemoveAtProperties, RemoveAtDistinct DEF Inv, TypeOK, QueuesHoldWaiters
<1>3. \A d \in Calls : call'[d] = IF d = c THEN "failed" ELSE call[d]
  BY <1>0 DEF Inv, TypeOK
<1>4. TypeOK'
  <2>1. queue' \in [Tools -> Seq(Calls)]
    BY <1>0, <1>1, <1>2 DEF Inv, TypeOK
  <2> QED BY <1>0, <2>1 DEF Inv, TypeOK, Live
<1>5. QueuesHoldWaiters'
  <2> SUFFICES ASSUME NEW u \in Tools
               PROVE  /\ Distinct(queue'[u])
                      /\ \A d \in Range(queue'[u]) : call'[d] = "queued" /\ Tool(d) = u
    BY DEF QueuesHoldWaiters, Tool
  <2>1. \A d \in Range(queue[u]) : d \in Calls /\ call[d] = "queued" /\ Tool(d) = u
    BY QueueFacts DEF Inv
  <2>2. CASE u = t
    <3>1. queue'[u] = RemoveAt(queue[t], i)
      BY <1>0, <1>1, <2>2 DEF Inv, TypeOK
    <3> QED BY <1>2, <1>3, <2>1, <2>2, <3>1
  <2>3. CASE u # t
    <3>1. queue'[u] = queue[u]
      BY <1>1, <2>3 DEF Inv, TypeOK
    <3>2. \A d \in Range(queue[u]) : d # c
      BY <2>1, <2>3
    <3> QED BY <1>3, <2>1, <3>1, <3>2 DEF Inv, QueuesHoldWaiters
  <2> QED BY <2>2, <2>3
<1>6. StartedCallsGoOn' /\ RunsOnceUntilFailure'
  BY <1>0, <1>3 DEF Inv, TypeOK, StartedCallsGoOn, RunsOnceUntilFailure
<1>7. EntriesTrue'
  BY <1>0, <1>3 DEF Inv, TypeOK, EntriesTrue, Live
<1>8. SoundKeysTriedOnce'
  BY <1>0, <1>3 DEF Inv, SoundKeysTriedOnce, Sound
<1> QED BY <1>4, <1>5, <1>6, <1>7, <1>8 DEF Inv

\* What complete() does to the entries.
LEMMA SettleInv ==
    ASSUME Inv, NEW c \in Calls, Settle(c)
    PROVE  Inv'
<1> DEFINE k == KeyOf[c]
<1>0. /\ k \in Keys /\ call[c] \in {"ok", "failed"}
      /\ call' = [call EXCEPT ![c] = IF @ = "ok" THEN "done" ELSE "error"]
      /\ UNCHANGED <<queue, executing, started, keyed, forgotten, crashes, file>>
  BY CallFacts DEF Settle, Complete, manager, SameSession
<1>1. \/ /\ c \in keyed /\ entries[k].status # "none"
         /\ entries' = [entries EXCEPT ![k] = [status |-> Outcome(c), by |-> c]]
         /\ failing' = IF call[c] = "failed" THEN failing \cup {k} ELSE failing
      \/ /\ c \notin keyed \/ entries[k].status = "none"
         /\ UNCHANGED <<entries, failing>>
  BY DEF Settle, Complete, manager
<1>2. \A d \in Calls :
          call'[d] = IF d = c THEN IF call[c] = "ok" THEN "done" ELSE "error" ELSE call[d]
  BY <1>0 DEF Inv, TypeOK
<1>3. TypeOK'
  <2>1. call' \in [Calls -> Live \cup Answered \cup {"idle", "lost"}]
    BY <1>0 DEF Inv, TypeOK, Answered
  <2>2. entries' \in [Keys -> Entry]
    BY <1>0, <1>1 DEF Inv, TypeOK, Entry, Statuses, Outcome
  <2>3. failing' \subseteq Keys
    BY <1>0, <1>1 DEF Inv, TypeOK
  <2> QED BY <1>0, <2>1, <2>2, <2>3 DEF Inv, TypeOK
<1>4. QueuesHoldWaiters'
  BY <1>0, <1>2, QueueFacts DEF Inv, QueuesHoldWaiters
<1>5. StartedCallsGoOn'
  BY <1>0, <1>2 DEF Inv, TypeOK, StartedCallsGoOn
<1>6. EntriesTrue'
  <2> SUFFICES ASSUME NEW j \in Keys
               PROVE  /\ entries'[j].status = "completed" =>
                            /\ entries'[j].by \in Calls
                            /\ KeyOf[entries'[j].by] = j
                            /\ call'[entries'[j].by] = "done"
                      /\ entries'[j].status = "recorded" /\ entries'[j].by # Nobody =>
                            /\ entries'[j].by \in keyed'
                            /\ KeyOf[entries'[j].by] = j
                            /\ call'[entries'[j].by] \in Live
                      /\ entries'[j].status = "failed" => j \in failing'
    BY DEF EntriesTrue
  <2>1. CASE c \in keyed /\ entries[k].status # "none" /\ j = k
    <3>1. entries'[j] = [status |-> Outcome(c), by |-> c]
      BY <1>0, <1>1, <2>1 DEF Inv, TypeOK
    <3>2. failing' = IF call[c] = "failed" THEN failing \cup {k} ELSE failing
      BY <1>1, <2>1
    <3> QED BY <1>0, <1>2, <2>1, <3>1, <3>2 DEF Outcome
\* The recorder of any other entry is not the call that settles.
  <2>2. CASE ~(c \in keyed /\ entries[k].status # "none" /\ j = k)
    <3>1. entries'[j] = entries[j] /\ (j \in failing => j \in failing')
      BY <1>0, <1>1, <2>2 DEF Inv, TypeOK
    <3>2. entries[j].status = "recorded" /\ entries[j].by # Nobody => entries[j].by # c
      BY <2>2 DEF Inv, EntriesTrue
    <3>3. entries[j].status = "completed" => entries[j].by # c
      BY <1>0 DEF Inv, EntriesTrue
    <3> QED BY <1>0, <1>2, <3>1, <3>2, <3>3 DEF Inv, TypeOK, EntriesTrue
  <2> QED BY <2>1, <2>2
<1>7. Sound' \subseteq Sound
  BY <1>0, <1>1 DEF Sound
<1>8. SoundKeysTriedOnce'
  <2>1. \A d \in Calls : call'[d] = "queued" => call[d] = "queued"
    BY <1>0, <1>2
  <2>2. \A j \in Keys : entries'[j].status = "none" => entries[j].status = "none"
    BY <1>0, <1>1 DEF Inv, TypeOK, Outcome
  <2> QED BY <1>0, <1>7, <2>1, <2>2, CallFacts DEF Inv, SoundKeysTriedOnce
<1>9. RunsOnceUntilFailure'
  BY <1>0, <1>7 DEF Inv, RunsOnceUntilFailure, Sound
<1> QED BY <1>3, <1>4, <1>5, <1>6, <1>8, <1>9 DEF Inv

LEMMA CrashInv ==
    ASSUME Inv, Crash
    PROVE  Inv'
<1> USE DEF Crash
<1>1. \A c \in Calls : call'[c] = IF call[c] \in Live THEN "lost" ELSE call[c]
  OBVIOUS
<1>2. \A k \in Keys : entries'[k] = IF file THEN Loaded(entries[k]) ELSE NoEntry
  OBVIOUS
<1>3. \A k \in Keys : Loaded(entries[k]).status = entries[k].status
  BY DEF Inv, TypeOK, Entry, Loaded
<1>4. TypeOK'
  <2>1. call' \in [Calls -> Live \cup Answered \cup {"idle", "lost"}]
    BY DEF Inv, TypeOK
  <2>2. entries' \in [Keys -> Entry]
    BY DEF Inv, TypeOK, Entry, Loaded, NoEntry, Statuses
  <2>3. queue' \in [Tools -> Seq(Calls)]
    BY EmptySeq
  <2>4. crashes' \in 0 .. MaxCrashes
    BY CallsAssumption DEF Inv, TypeOK
  <2> QED BY <2>1, <2>2, <2>3, <2>4 DEF Inv, TypeOK
<1>5. QueuesHoldWaiters'
  BY EmptyQueue DEF QueuesHoldWaiters
<1>6. StartedCallsGoOn'
  BY <1>1 DEF Inv, TypeOK, StartedCallsGoOn
<1>7. EntriesTrue'
  <2> SUFFICES ASSUME NEW j \in Keys
               PROVE  /\ entries'[j].status = "completed" =>
                            /\ entries'[j].by \in Calls
                            /\ KeyOf[entries'[j].by] = j
                            /\ call'[entries'[j].by] = "done"
                      /\ entries'[j].status = "recorded" => entries'[j].by = Nobody
                      /\ entries'[j].status = "failed" => j \in failing'
    BY DEF EntriesTrue
  <2>1. CASE file
    BY <1>1, <1>2, <2>1 DEF Inv, TypeOK, Entry, EntriesTrue, Loaded, Live
  <2>2. CASE ~file
    BY <1>2, <2>2 DEF NoEntry
  <2> QED BY <2>1, <2>2
<1>8. Sound' \subseteq Sound
  BY DEF Sound
\* A key that lost its entry is no longer sound.
<1>9. \A k \in Sound' : entries'[k].status = "none" => entries[k].status = "none"
  BY <1>2, <1>3, CallsAssumption DEF Sound, NoEntry
<1>10. SoundKeysTriedOnce'
  BY <1>1, <1>8, <1>9 DEF Inv, SoundKeysTriedOnce, Live
<1>11. RunsOnceUntilFailure'
  BY <1>8 DEF Inv, RunsOnceUntilFailure, Sound
<1> QED BY <1>4, <1>5, <1>6, <1>7, <1>10, <1>11 DEF Inv

LEMMA StepInv == Inv /\ [Next]_vars => Inv'
<1> SUFFICES ASSUME Inv, [Next]_vars PROVE Inv'
  OBVIOUS
<1>1. CASE UNCHANGED vars
  BY <1>1 DEF vars, Inv, TypeOK, QueuesHoldWaiters, StartedCallsGoOn, EntriesTrue,
              SoundKeysTriedOnce, Sound, RunsOnceUntilFailure, Tool
<1>2. CASE Crash
  BY <1>2, CrashInv
<1>3. ASSUME NEW c \in Calls, CallStep(c)
      PROVE  Inv'
  <2>1. CASE Replay(c) \/ Conflict(c)
    BY <2>1, AnswerInv DEF Replay, Conflict, Answered
  <2>2. CASE Admit(c)
    BY <2>2, RecordInv DEF Admit, SameSession
  <2>3. CASE HandlerEnds(c)
    BY <2>3, ReleaseInv DEF HandlerEnds
  <2>4. CASE Timeout(c)
    BY <2>4, ReleaseInv DEF Timeout
  <2>5. CASE LateEnd(c)
    BY <2>5, LateEndInv
  <2>6. CASE AbortQueued(c)
    BY <2>6, AbortQueuedInv
  <2>7. CASE Settle(c)
    BY <2>7, SettleInv
  <2> QED BY <1>3, <2>1, <2>2, <2>3, <2>4, <2>5, <2>6, <2>7 DEF CallStep
<1> QED BY <1>1, <1>2, <1>3 DEF Next

LEMMA Invariance == Spec => []Inv
<1> QED BY InitInv, StepInv, PTL DEF Spec

-----------------------------------------------------------------------------
\* Every reachable state of the gateway is well typed.
THEOREM ToolCallsTypeOK == Spec => []TypeOK
<1>1. Inv => TypeOK
  BY DEF Inv
<1> QED BY <1>1, Invariance, PTL

\* A mutation with a required key is executed at most once until an attempt of it
\* fails or its record is given up.
THEOREM ToolCallsRunOnce == Spec => []RunsOnceUntilFailure
<1>1. Inv => RunsOnceUntilFailure
  BY DEF Inv
<1> QED BY <1>1, Invariance, PTL

\* What a repeated call is answered with was returned by a call of the same key.
THEOREM ToolCallsReplayIsReal == Spec => []ReplayIsReal
<1>1. Inv => ReplayIsReal
  BY DEF Inv, EntriesTrue, ReplayIsReal
<1> QED BY <1>1, Invariance, PTL

\* A key is blocked by a call still on the way or by an earlier process.
THEOREM ToolCallsNoOrphanKeys == Spec => []NoOrphanKeys
<1>1. Inv => NoOrphanKeys
  BY DEF Inv, EntriesTrue, NoOrphanKeys
<1> QED BY <1>1, Invariance, PTL
-----------------------------------------------------------------------------
(* The gates as lease pools *)

\* The queue of a tool is the set of its waiting calls, and somebody waits only
\* while every lease of the tool is out.
GateSound(t) ==
    /\ Waiters(t) \subseteq Range(queue[t])
    /\ Cardinality(LeasesOut(t)) <= MaxConcurrent
    /\ Waiters(t) # {} => Cardinality(LeasesOut(t)) = MaxConcurrent
GatesSound == \A t \in Tools : GateSound(t)

LEMMA PoolCardinality == \A t \in Tools : \A S : Pool(t)!Cardinality(S) = Cardinality(S)
  BY DEF Cardinality, Pool!Cardinality, IsFiniteSet, Pool!IsFiniteSet

\* The leases that are out, counted, before and after one changes hands.
LEMMA LeaseCount ==
    ASSUME NEW t, NEW c \in Calls
    PROVE  /\ IsFiniteSet(LeasesOut(t)) /\ Cardinality(LeasesOut(t)) \in Nat
           /\ c \notin LeasesOut(t) =>
                 Cardinality(LeasesOut(t) \cup {c}) = Cardinality(LeasesOut(t)) + 1
           /\ c \in LeasesOut(t) =>
                 Cardinality(LeasesOut(t) \ {c}) = Cardinality(LeasesOut(t)) - 1
<1>1. IsFiniteSet(LeasesOut(t))
  BY CallsAssumption, FS_Subset DEF LeasesOut
<1> QED BY <1>1, FS_CardinalityType, FS_AddElement, FS_RemoveElement

\* A queue is empty when nobody waits, and only then.
LEMMA WaitersQueued ==
    ASSUME Inv, GatesSound, NEW t \in Tools
    PROVE  /\ Range(queue[t]) = Waiters(t)
           /\ queue[t] = <<>> <=> Waiters(t) = {}
           /\ queue[t] \in Seq(Calls) /\ Distinct(queue[t])
<1>1. queue[t] \in Seq(Calls) /\ Distinct(queue[t])
  BY DEF Inv, TypeOK, QueuesHoldWaiters
<1>2. Range(queue[t]) = Waiters(t)
  BY QueueFacts DEF Inv, GatesSound, GateSound, Waiters
<1>3. queue[t] # <<>> => Head(queue[t]) \in Range(queue[t])
  BY <1>1, TailDistinct
<1> QED BY <1>1, <1>2, <1>3, EmptyQueue

\* A call that neither takes, gives back, nor waits for a lease of the tool.
LEMMA OtherTool ==
    ASSUME GatesSound, NEW t \in Tools, queue'[t] = queue[t],
           \A d \in Calls : Tool(d) = t =>
               \/ call'[d] = call[d]
               \/ {call[d], call'[d]} \cap {"running", "queued"} = {}
    PROVE  GateSound(t)' /\ UNCHANGED <<LeasesOut(t), Waiters(t)>>
<1>1. UNCHANGED <<LeasesOut(t), Waiters(t)>>
  BY DEF LeasesOut, Waiters, Tool
<1> QED BY <1>1 DEF GatesSound, GateSound

\* stage 6: a lease is taken when nobody waits for it, and a place in the queue
\* when all leases are out.
LEMMA AdmitPool ==
    ASSUME Inv, GatesSound, NEW c \in Calls, Admit(c), NEW t \in Tools
    PROVE  GateSound(t)' /\ [Pool(t)!Next]_<<LeasesOut(t), Waiters(t)>>
<1> DEFINE u == Tool(c)
<1>0. u \in Tools /\ call[c] = "idle" /\ MaxConcurrent \in Nat
  BY CallFacts, CallsAssumption DEF Admit
<1>1. \/ call' = [call EXCEPT ![c] = "failed"] /\ UNCHANGED queue
      \/ /\ Cardinality(LeasesOut(u)) < MaxConcurrent
         /\ call' = [call EXCEPT ![c] = "running"] /\ UNCHANGED queue
      \/ /\ ~(Cardinality(LeasesOut(u)) < MaxConcurrent) /\ call' = [call EXCEPT ![c] = "queued"]
         /\ queue' = [queue EXCEPT ![u] = Append(@, c)]
  <2>1. Len(queue[u]) \in Nat /\ MaxQueueDepth \in Nat
    BY <1>0, CallsAssumption, LenProperties DEF Inv, TypeOK
  <2>2. Len(queue[u]) >= MaxQueueDepth \/ Len(queue[u]) < MaxQueueDepth
    BY <2>1
  <2>3. Enter(c)
    BY DEF Admit
  <2> QED BY <2>2, <2>3 DEF Enter, Saturated
<1>2. /\ \A d \in Calls \ {c} : call'[d] = call[d]
      /\ \A v \in Tools \ {u} : queue'[v] = queue[v]
  BY <1>1 DEF Inv, TypeOK
<1>3. CASE t # u \/ call'[c] = "failed"
  <2>1. queue'[t] = queue[t]
    BY <1>1, <1>2, <1>3 DEF Inv, TypeOK
  <2> QED BY <1>0, <1>2, <1>3, <2>1, OtherTool
<1>4. CASE t = u /\ call'[c] # "failed"
  <2>1. /\ c \notin LeasesOut(t) /\ c \notin Waiters(t)
        /\ Cardinality(LeasesOut(t)) \in Nat /\ GateSound(t)
    BY <1>0, LeaseCount DEF LeasesOut, Waiters, GatesSound
  <2>2. CASE call' = [call EXCEPT ![c] = "running"]
    <3>1. LeasesOut(t)' = LeasesOut(t) \cup {c} /\ Waiters(t)' = Waiters(t)
      BY <1>0, <1>4, <2>2 DEF LeasesOut, Waiters, Tool, Inv, TypeOK
    <3>2. Cardinality(LeasesOut(t)) < MaxConcurrent /\ queue' = queue
      BY <1>0, <1>1, <1>4, <2>2 DEF Inv, TypeOK
    <3>3. Waiters(t) = {}
      BY <1>0, <2>1, <3>2 DEF GateSound
    <3>4. Cardinality(LeasesOut(t)') = Cardinality(LeasesOut(t)) + 1
      BY <2>1, <3>1, LeaseCount
    <3>5. GateSound(t)'
      BY <1>0, <2>1, <3>1, <3>2, <3>3, <3>4 DEF GateSound
    <3>6. Pool(t)!Take(c)
      BY <2>1, <3>1, <3>2, <3>3, PoolCardinality DEF Pool!Take, Pool!Idle
    <3> QED BY <3>5, <3>6 DEF Pool!Next
  <2>3. CASE call' # [call EXCEPT ![c] = "running"]
    <3>1. /\ ~(Cardinality(LeasesOut(t)) < MaxConcurrent)
          /\ call' = [call EXCEPT ![c] = "queued"]
          /\ queue'[t] = Append(queue[t], c)
      BY <1>0, <1>1, <1>4, <2>3 DEF Inv, TypeOK
    <3>2. LeasesOut(t)' = LeasesOut(t) /\ Waiters(t)' = Waiters(t) \cup {c}
      BY <1>0, <1>4, <3>1 DEF LeasesOut, Waiters, Tool, Inv, TypeOK
    <3>3. Cardinality(LeasesOut(t)) = MaxConcurrent
      BY <1>0, <2>1, <3>1 DEF GateSound
    <3>4. Range(queue'[t]) = Waiters(t) \cup {c}
      BY <2>1, <3>1, WaitersQueued, AppendDistinct
    <3>5. GateSound(t)'
      BY <1>0, <2>1, <3>2, <3>3, <3>4 DEF GateSound
    <3>6. Pool(t)!Wait(c)
      BY <2>1, <3>2, <3>3, PoolCardinality DEF Pool!Wait, Pool!Idle
    <3> QED BY <3>5, <3>6 DEF Pool!Next
  <2> QED BY <2>2, <2>3
<1> QED BY <1>3, <1>4

\* gate.run's finally: the lease goes to the head of the queue, or back.
LEMMA ReleasePool ==
    ASSUME Inv, GatesSound, NEW c \in Calls, NEW outcome \in {"ok", "failed"},
           NEW over \in SUBSET Calls, Release(c, outcome, over), NEW t \in Tools
    PROVE  GateSound(t)' /\ [Pool(t)!Next]_<<LeasesOut(t), Waiters(t)>>
<1> DEFINE u == Tool(c)
           h == Head(queue[u])
<1>0. u \in Tools /\ call[c] = "running" /\ MaxConcurrent \in Nat
  BY CallFacts, CallsAssumption DEF Release
<1>1. CASE queue[u] = <<>>
  <2>1. call' = [call EXCEPT ![c] = outcome] /\ queue' = queue
    BY <1>1 DEF Release
  <2>2. CASE t # u
    BY <1>0, <2>1, <2>2, OtherTool DEF Inv, TypeOK
  <2>3. CASE t = u
    <3>1. c \in LeasesOut(t) /\ Waiters(t) = {} /\ GateSound(t)
      BY <1>0, <1>1, <2>3, WaitersQueued DEF LeasesOut, GatesSound
    <3>2. LeasesOut(t)' = LeasesOut(t) \ {c} /\ Waiters(t)' = Waiters(t)
      BY <1>0, <2>1 DEF LeasesOut, Waiters, Tool, Inv, TypeOK
    <3>3. /\ Cardinality(LeasesOut(t)) \in Nat
          /\ Cardinality(LeasesOut(t)') = Cardinality(LeasesOut(t)) - 1
      BY <3>1, <3>2, LeaseCount
    <3>4. GateSound(t)'
      BY <1>0, <2>1, <3>1, <3>2, <3>3 DEF GateSound
    <3> QED BY <3>1, <3>2, <3>4 DEF Pool!Next, Pool!Return
  <2> QED BY <2>2, <2>3
<1>2. CASE queue[u] # <<>>
  <2>1. /\ call' = [call EXCEPT ![c] = outcome, ![h] = "running"]
        /\ queue' = [queue EXCEPT ![u] = Tail(@)]
    BY <1>2 DEF Release
  <2>2. /\ h \in Waiters(u) /\ h \in Calls /\ call[h] = "queued" /\ Tool(h) = u /\ h # c
        /\ Range(Tail(queue[u])) = Waiters(u) \ {h}
    BY <1>0, <1>2, WaitersQueued, TailDistinct DEF Waiters
  <2>3. \A d \in Calls :
            call'[d] = IF d = h THEN "running" ELSE IF d = c THEN outcome ELSE call[d]
    BY <2>1, <2>2 DEF Inv, TypeOK
  <2>4. CASE t # u
    <3>1. queue'[t] = queue[t]
      BY <2>1, <2>4 DEF Inv, TypeOK
    <3> QED BY <2>2, <2>3, <2>4, <3>1, OtherTool
  <2>5. CASE t = u
    <3> HIDE DEF h
    <3>1. LeasesOut(t)' = (LeasesOut(t) \ {c}) \cup {h} /\ Waiters(t)' = Waiters(t) \ {h}
      BY <1>0, <2>2, <2>3, <2>5 DEF LeasesOut, Waiters, Tool
    <3>2. c \in LeasesOut(t) /\ h \notin LeasesOut(t) /\ h \in Waiters(t) /\ GateSound(t)
      BY <1>0, <2>2, <2>5 DEF LeasesOut, GatesSound
    <3>3. IsFiniteSet(LeasesOut(t) \ {c}) /\ h \notin LeasesOut(t) \ {c}
      BY <3>2, LeaseCount, FS_RemoveElement
    <3>4. Cardinality(LeasesOut(t)') = Cardinality(LeasesOut(t))
      <4>1. Cardinality(LeasesOut(t)') = Cardinality(LeasesOut(t) \ {c}) + 1
        BY <3>1, <3>3, FS_AddElement
      <4>2. /\ Cardinality(LeasesOut(t)) \in Nat
            /\ Cardinality(LeasesOut(t) \ {c}) = Cardinality(LeasesOut(t)) - 1
        BY <3>2, LeaseCount
      <4> QED BY <4>1, <4>2
    <3>5. queue'[t] = Tail(queue[u])
      BY <1>0, <2>1, <2>5 DEF Inv, TypeOK
    <3>6. GateSound(t)'
      BY <2>2, <2>5, <3>1, <3>2, <3>4, <3>5 DEF GateSound
    <3>7. Pool(t)!HandOver(c, h)
      BY <3>1, <3>2 DEF Pool!HandOver
    <3> QED BY <2>2, <3>6, <3>7 DEF Pool!Next
  <2> QED BY <2>4, <2>5
<1> QED BY <1>1, <1>2

\* An abort gives up a place in the queue.
LEMMA AbortPool ==
    ASSUME Inv, GatesSound, NEW c \in Calls, AbortQueued(c), NEW t \in Tools
    PROVE  GateSound(t)' /\ [Pool(t)!Next]_<<LeasesOut(t), Waiters(t)>>
<1> DEFINE u == Tool(c)
<1>0. u \in Tools /\ call[c] = "queued" /\ call' = [call EXCEPT ![c] = "failed"]
  BY CallFacts DEF AbortQueued
<1>1. PICK i \in 1 .. Len(queue[u]) :
          queue[u][i] = c /\ queue' = [queue EXCEPT ![u] = RemoveAt(@, i)]
  BY DEF AbortQueued
<1>2. CASE t # u
  <2>1. queue'[t] = queue[t] /\ \A d \in Calls : d # c => call'[d] = call[d]
    BY <1>0, <1>1, <1>2 DEF Inv, TypeOK
  <2> QED BY <1>2, <2>1, OtherTool
<1>3. CASE t = u
  <2>1. c \in Waiters(t) /\ GateSound(t)
    BY <1>0, <1>3 DEF Waiters, GatesSound
  <2>2. LeasesOut(t)' = LeasesOut(t) /\ Waiters(t)' = Waiters(t) \ {c}
    BY <1>0 DEF LeasesOut, Waiters, Tool, Inv, TypeOK
  <2>3. Range(queue'[t]) = Waiters(t) \ {c}
    <3>1. queue'[t] = RemoveAt(queue[t], i) /\ i \in 1 .. Len(queue[t]) /\ queue[t][i] = c
      BY <1>0, <1>1, <1>3 DEF Inv, TypeOK
    <3> QED BY <3>1, WaitersQueued, RemoveAtDistinct
  <2>4. GateSound(t)'
    BY <2>1, <2>2, <2>3 DEF GateSound
  <2> QED BY <2>1, <2>2, <2>4 DEF Pool!Next, Pool!GiveUp
<1> QED BY <1>2, <1>3

\* Every step, for every tool.
LEMMA PoolStep ==
    ASSUME Inv, GatesSound, [Next]_vars, ~Crash, NEW t \in Tools
    PROVE  GateSound(t)' /\ [Pool(t)!Next]_<<LeasesOut(t), Waiters(t)>>
<1>1. CASE UNCHANGED vars
  BY <1>1, OtherTool DEF vars
<1>2. ASSUME NEW c \in Calls, Replay(c) \/ Conflict(c) \/ LateEnd(c) \/ Settle(c)
      PROVE  GateSound(t)' /\ UNCHANGED <<LeasesOut(t), Waiters(t)>>
  <2>1. queue' = queue /\ \A d \in Calls : d # c => call'[d] = call[d]
    BY <1>2 DEF Replay, Conflict, Answer, LateEnd, Settle, Inv, TypeOK
  <2>2. call'[c] = call[c] \/ {call[c], call'[c]} \cap {"running", "queued"} = {}
    BY <1>2 DEF Replay, Conflict, Answer, LateEnd, Settle, Inv, TypeOK
  <2> QED BY <2>1, <2>2, OtherTool
<1>3. ASSUME NEW c \in Calls, Admit(c) \/ HandlerEnds(c) \/ Timeout(c) \/ AbortQueued(c)
      PROVE  GateSound(t)' /\ [Pool(t)!Next]_<<LeasesOut(t), Waiters(t)>>
  BY <1>3, AdmitPool, ReleasePool, AbortPool DEF HandlerEnds, Timeout
<1> QED BY <1>1, <1>2, <1>3 DEF Next, CallStep

\* With the process the queues and the leases are gone.
LEMMA CrashPool ==
    ASSUME Inv, Crash, NEW t \in Tools
    PROVE  GateSound(t)'
<1>1. LeasesOut(t)' = {} /\ Waiters(t)' = {}
  BY DEF Crash, LeasesOut, Waiters, Live, Tool
<1>2. Cardinality({}) = 0 /\ MaxConcurrent \in Nat
  BY FS_EmptySet, CallsAssumption
<1> QED BY <1>1, <1>2 DEF GateSound

LEMMA GatesInvariance == Spec => [](Inv /\ GatesSound)
<1>1. Init => GatesSound
  <2> SUFFICES ASSUME Init, NEW t \in Tools PROVE GateSound(t)
    BY DEF GatesSound
  <2>1. LeasesOut(t) = {} /\ Waiters(t) = {}
    BY DEF Init, LeasesOut, Waiters
  <2>2. Cardinality({}) = 0 /\ MaxConcurrent \in Nat
    BY FS_EmptySet, CallsAssumption
  <2> QED BY <2>1, <2>2 DEF GateSound
<1>2. Inv /\ GatesSound /\ [Next]_vars => GatesSound'
  BY PoolStep, CrashPool DEF GatesSound
<1> QED BY <1>1, <1>2, InitInv, StepInv, PTL DEF Spec

\* Each tool's gate, with all of invoke around it, is the lease pool that
\* ConcurrencyGate implements, for any number of calls and tools.
THEOREM ToolCallsUsePools == Spec => GatesAreLeasePools
<1>1. Inv /\ GatesSound /\ [Next]_vars =>
        [Crash \/ \A t \in Tools : [Pool(t)!Next]_<<LeasesOut(t), Waiters(t)>>]_vars
  BY PoolStep
<1> QED BY <1>1, GatesInvariance, PTL DEF Spec, GatesAreLeasePools

\* No tool runs more handlers under a lease than its definition allows, and none
\* makes a call wait while a lease is free.
THEOREM ToolCallsLeases ==
    Spec => [](\A t \in Tools :
                  /\ Cardinality(LeasesOut(t)) <= MaxConcurrent
                  /\ Waiters(t) # {} => Cardinality(LeasesOut(t)) = MaxConcurrent)
<1>1. GatesSound => \A t \in Tools :
          /\ Cardinality(LeasesOut(t)) <= MaxConcurrent
          /\ Waiters(t) # {} => Cardinality(LeasesOut(t)) = MaxConcurrent
  BY DEF GatesSound, GateSound
<1> QED BY <1>1, GatesInvariance, PTL
=============================================================================
