-------------------------- MODULE AgentRuns_proofs --------------------------
(***************************************************************************)
(* Cancelling reaches a whole tree of runs, and the tree stays within the  *)
(* budget of its root, for any number of runs, agents, leases, children    *)
(* and tool calls.                                                         *)
(***************************************************************************)
EXTENDS AgentRuns, SequenceTheorems, FiniteSetTheorems, TLAPS

-----------------------------------------------------------------------------
(* Facts about sequences *)

\* No value occurs twice in a queue.
Distinct(q) == \A j, k \in 1..Len(q) : q[j] = q[k] => j = k

LEMMA EmptyQueue == Range(<<>>) = {} /\ Distinct(<<>>)
<1>1. <<>> \in Seq({}) /\ Len(<<>>) = 0
  BY EmptySeq
<1>2. Range(<<>>) = {<<>>[i] : i \in 1..Len(<<>>)}
  BY <1>1, RangeEquality
<1> QED BY <1>1, <1>2 DEF Distinct

\* Array.push of a value that is not in the queue.
LEMMA AppendDistinct ==
    ASSUME NEW S, NEW q \in Seq(S), NEW x \in S, Distinct(q), x \notin Range(q)
    PROVE  /\ Distinct(Append(q, x))
           /\ Range(Append(q, x)) = Range(q) \cup {x}
<1> DEFINE r == Append(q, x)
           n == Len(q)
<1>1. /\ n \in Nat /\ r \in Seq(S) /\ Len(r) = n + 1 /\ r[n + 1] = x
      /\ \A j \in 1..n : r[j] = q[j]
  BY AppendProperties, LenProperties
<1> HIDE DEF r
<1>2. Range(q) = {q[j] : j \in 1..n} /\ Range(r) = {r[j] : j \in 1..(n + 1)}
  BY <1>1, RangeEquality
<1>3. Distinct(r)
  BY <1>1, <1>2 DEF Distinct
<1> QED BY <1>1, <1>2, <1>3 DEF r

\* Array.shift of the head of a queue without repetitions.
LEMMA TailDistinct ==
    ASSUME NEW S, NEW q \in Seq(S), q # <<>>, Distinct(q)
    PROVE  /\ Tail(q) \in Seq(S)
           /\ Head(q) \in Range(q)
           /\ Distinct(Tail(q))
           /\ Range(Tail(q)) = Range(q) \ {Head(q)}
<1> DEFINE r == Tail(q)
           n == Len(q) - 1
<1>1. /\ r \in Seq(S) /\ Len(r) = n /\ n \in Nat /\ Len(q) = n + 1 /\ Head(q) = q[1]
      /\ \A j \in 1..n : r[j] = q[j + 1]
  BY HeadTailProperties, EmptySeq, LenProperties
<1>2. Range(q) = {q[j] : j \in 1..(n + 1)} /\ Range(r) = {r[j] : j \in 1..n}
  BY <1>1, RangeEquality
<1> HIDE DEF r, n
<1>3. Distinct(r)
  BY <1>1 DEF Distinct
<1>4. \A j \in 2..(n + 1) : j - 1 \in 1..n /\ q[j] = r[j - 1] /\ q[j] # q[1]
  BY <1>1 DEF Distinct
<1>5. Range(r) = Range(q) \ {q[1]}
  BY <1>1, <1>2, <1>4
<1> QED BY <1>1, <1>2, <1>3, <1>5 DEF r

-----------------------------------------------------------------------------

\* The line of a run holds the lines of all in it, which have started, and goes
\* round in no circle, and the run heeds what they heed; a run to come has made
\* nothing.
LinesGoUp ==
    \A r \in Runs :
        /\ r \in line[r]
        /\ heeds[r] \subseteq line[r] \ {r}
        /\ \A d \in line[r] :
              /\ line[d] \subseteq line[r]
              /\ heeds[d] \subseteq heeds[r]
              /\ d # r => Started(d) /\ r \notin line[d]
        /\ phase[r] = "new" => line[r] = {r} /\ spent[r] = 0

\* A strategy whose context is aborted is aborted, and so is the context of
\* whatever is below that, or heeds the strategy.
AbortsGoDown ==
    \A r \in Runs :
        /\ r \in ctx /\ Started(r) => r \in ctl
        /\ r \in ctx => Descendants(r) \subseteq ctx
        /\ r \in ctl => Heeding(r) \subseteq ctx

\* What a tree has spent, the budget of its root has counted.
SpentIsCounted == \A r \in Runs : spent[r] <= used[r]

Inv ==
    /\ TypeOK
    /\ LinesGoUp
    /\ AbortsGoDown
    /\ SpentIsCounted
    /\ TreeWithinBudget

-----------------------------------------------------------------------------
\* What execute() and the end of a run do to the phases: only the run, and the
\* head of the queue, move, and who starts under an aborted context is aborted.
Moves(who) ==
    /\ \A s \in Runs : s \notin who => phase'[s] = phase[s]
    /\ \A s \in who : phase'[s] # "new"
    /\ \A s \in Runs : Started(s) => Started(s)'
    /\ \A s \in Runs : Started(s)' /\ ~Started(s) /\ s \in ctx' => s \in ctl'
    /\ ctl \subseteq ctl' /\ ctl' \subseteq ctl \cup (who \cap ctx')

LEMMA ExecuteMoves ==
    ASSUME TypeOK, NEW r \in Runs, NEW a \in Agents, phase[r] = "new", Execute(r, a)
    PROVE  /\ Moves({r})
           /\ phase' \in [Runs -> {"new", "queued", "running", "ended"}]
           /\ queue' \in [Agents -> Seq(Runs)]
           /\ ctl' \subseteq Runs
<1>1. CASE Cardinality(Holders(a)) < MaxConcurrent
  BY <1>1 DEF Execute, Moves, TypeOK, Started, Controllers
<1>2. CASE ~(Cardinality(Holders(a)) < MaxConcurrent)
  <2>1. Append(queue[a], r) \in Seq(Runs)
    BY AppendProperties DEF TypeOK
  <2> QED BY <1>2, <2>1 DEF Execute, Moves, TypeOK, Started
<1> QED BY <1>1, <1>2

LEMMA EndMoves ==
    ASSUME TypeOK, NEW r \in Runs, phase[r] = "running", End(r), UNCHANGED ctx
    PROVE  /\ \E who \in SUBSET Runs : Moves(who)
           /\ phase' \in [Runs -> {"new", "queued", "running", "ended"}]
           /\ awaits' \in [Runs -> Runs \cup {NoRun}]
           /\ queue' \in [Agents -> Seq(Runs)]
           /\ ctl' \subseteq Runs
<1> DEFINE q == queue[agent[r]]
           h == Head(q)
<1>1. q \in Seq(Runs) /\ agent[r] \in Agents
  BY DEF TypeOK
<1>2. awaits' \in [Runs -> Runs \cup {NoRun}]
  BY DEF End, TypeOK
<1>3. CASE q = <<>>
  <2>1. Moves({r})
    BY <1>3 DEF End, Moves, TypeOK, Started
  <2> QED BY <1>2, <1>3, <2>1 DEF End, TypeOK
<1>4. CASE q # <<>>
  <2>1. h \in Runs /\ Tail(q) \in Seq(Runs)
    BY <1>1, <1>4, HeadTailProperties
  <2>2. /\ phase' = [phase EXCEPT ![r] = "ended", ![h] = "running"]
        /\ queue' = [queue EXCEPT ![agent[r]] = Tail(q)]
        /\ ctl' = ctl \cup ({h} \cap ctx')
    BY <1>4 DEF End, Controllers
  <2> HIDE DEF q, h
  <2>3. phase' \in [Runs -> {"new", "queued", "running", "ended"}]
    BY <2>1, <2>2 DEF TypeOK
  <2>4. Moves({r, h})
    BY <2>1, <2>2 DEF Moves, TypeOK, Started
  <2>5. queue' \in [Agents -> Seq(Runs)] /\ ctl' \subseteq Runs
    BY <1>1, <2>1, <2>2 DEF TypeOK, q
  <2> QED BY <1>2, <2>1, <2>3, <2>4, <2>5
<1> QED BY <1>3, <1>4

\* A step that starts or ends runs and leaves the lines alone.
LEMMA MovesInv ==
    ASSUME Inv, TypeOK', NEW who \in SUBSET Runs, Moves(who), UNCHANGED <<line, heeds, ctx, spent>>,
           \A d \in Runs : used[d] <= used'[d] /\ (limit'[d] = limit[d] \/ phase[d] = "new")
    PROVE  Inv'
<1>1. LinesGoUp'
  BY DEF Inv, TypeOK, LinesGoUp, Moves
<1>2. AbortsGoDown'
  <2> SUFFICES ASSUME NEW r \in Runs
               PROVE  /\ r \in ctx' /\ Started(r)' => r \in ctl'
                      /\ r \in ctx' => Descendants(r)' \subseteq ctx'
                      /\ r \in ctl' => Heeding(r)' \subseteq ctx'
    BY DEF AbortsGoDown
  <2>1. r \in ctx' /\ Started(r)' => r \in ctl'
    BY DEF Inv, AbortsGoDown, Moves
  <2>2. ASSUME r \in ctx', NEW d \in Descendants(r)' PROVE d \in ctx'
    <3>1. d \in Runs /\ r \in line[d] /\ r \in ctx
      BY <2>2 DEF Descendants
    <3>2. CASE phase[d] = "new"
      BY <3>1, <3>2 DEF Inv, LinesGoUp
    <3>3. CASE phase[d] # "new"
      BY <3>1, <3>3 DEF Inv, AbortsGoDown, Descendants
    <3> QED BY <3>2, <3>3
  <2>3. ASSUME r \in ctl', NEW d \in Heeding(r)' PROVE d \in ctx'
    <3>1. d \in Runs /\ r \in heeds[d] /\ d # r /\ r \in line[d]
      BY <2>3 DEF Heeding, Inv, LinesGoUp
    <3>2. Started(r)
      BY <3>1 DEF Inv, LinesGoUp
    <3>3. r \in ctl
      BY <2>3, <3>2 DEF Moves, Inv, AbortsGoDown
    <3> QED BY <3>1, <3>3 DEF Inv, AbortsGoDown, Heeding
  <2> QED BY <2>1, <2>2, <2>3
<1>3. SpentIsCounted' /\ TreeWithinBudget'
  <2> SUFFICES ASSUME NEW r \in Runs
               PROVE  spent'[r] <= used'[r] /\ spent'[r] <= limit'[r]
    BY DEF SpentIsCounted, TreeWithinBudget
  <2>1. /\ spent[r] \in Nat /\ used[r] \in Nat /\ limit[r] \in Nat
        /\ used'[r] \in Nat /\ limit'[r] \in Nat
    BY DEF Inv, TypeOK
  <2>2. /\ spent[r] <= used[r] /\ spent[r] <= limit[r]
        /\ phase[r] = "new" => spent[r] = 0
    BY DEF Inv, SpentIsCounted, TreeWithinBudget, LinesGoUp
  <2>3. spent'[r] = spent[r]
    OBVIOUS
  <2> QED BY <2>1, <2>2, <2>3
<1> QED BY <1>1, <1>2, <1>3 DEF Inv

LEMMA InitInv == Init => Inv
<1> SUFFICES ASSUME Init PROVE Inv
  OBVIOUS
<1> USE DEF Init
<1>1. TypeOK
  BY RunsAssumption, EmptySeq DEF TypeOK
<1>2. LinesGoUp /\ SpentIsCounted /\ TreeWithinBudget
  BY DEF LinesGoUp, SpentIsCounted, TreeWithinBudget
<1>3. AbortsGoDown
  BY DEF AbortsGoDown
<1> QED BY <1>1, <1>2, <1>3 DEF Inv

LEMMA SubmitInv ==
    ASSUME Inv, NEW r \in Runs, NEW a \in Agents, Submit(r, a)
    PROVE  Inv'
<1>1. /\ phase[r] = "new"
      /\ Execute(r, a)
      /\ agent' = [agent EXCEPT ![r] = a]
      /\ limit' = [limit EXCEPT ![r] = MaxToolCalls]
      /\ UNCHANGED <<line, heeds, awaits, used, spent, ctx>>
  BY DEF Submit, Fresh
<1>2. /\ Moves({r})
      /\ phase' \in [Runs -> {"new", "queued", "running", "ended"}]
      /\ queue' \in [Agents -> Seq(Runs)]
      /\ ctl' \subseteq Runs
  BY <1>1, ExecuteMoves DEF Inv
<1>3. TypeOK'
  BY <1>1, <1>2, RunsAssumption DEF Inv, TypeOK
<1>4. \A d \in Runs : used[d] <= used'[d] /\ (limit'[d] = limit[d] \/ phase[d] = "new")
  BY <1>1 DEF Inv, TypeOK
<1> QED BY <1>1, <1>2, <1>3, <1>4, MovesInv DEF Inv, TypeOK, LinesGoUp

LEMMA ShareIsNat ==
    ASSUME TypeOK, NEW r \in Runs
    PROVE  Share(r) \in Nat
<1>1. limit[r] \in Nat /\ used[r] \in Nat
  BY DEF TypeOK
<1> QED BY <1>1 DEF Share

LEMMA DelegateInv ==
    ASSUME Inv, NEW r \in Runs, NEW c \in Runs, NEW a \in Agents, NEW hook \in BOOLEAN,
           Delegate(r, c, a, hook)
    PROVE  Inv'
<1>1. /\ phase[r] = "running" /\ phase[c] = "new" /\ r # c
      /\ Execute(c, a)
      /\ agent' = [agent EXCEPT ![c] = a]
      /\ line' = [line EXCEPT ![c] = line[r] \cup {c}]
      /\ limit' = [limit EXCEPT ![c] = Share(r)]
      /\ heeds' = [heeds EXCEPT ![c] = IF hook THEN heeds[r] ELSE heeds[r] \cup {r}]
      /\ ctx' = IF r \in (IF hook THEN ctx ELSE ctl) THEN ctx \cup {c} ELSE ctx
      /\ UNCHANGED <<awaits, used, spent>>
  BY DEF Delegate, Fresh, Free
<1>2. /\ Moves({c})
      /\ phase' \in [Runs -> {"new", "queued", "running", "ended"}]
      /\ queue' \in [Agents -> Seq(Runs)]
      /\ ctl' \subseteq Runs
  BY <1>1, ExecuteMoves DEF Inv
<1>3. TypeOK'
  BY <1>1, <1>2, ShareIsNat DEF Inv, TypeOK
<1>4. \A d \in Runs :
          /\ line'[d] = IF d = c THEN line[r] \cup {c} ELSE line[d]
          /\ heeds'[d] = IF d = c THEN IF hook THEN heeds[r] ELSE heeds[r] \cup {r}
                                  ELSE heeds[d]
  BY <1>1 DEF Inv, TypeOK
<1>5. \A d \in Runs : c \in line[d] => d = c
  BY <1>1 DEF Inv, LinesGoUp, Started
<1>6. line[r] \subseteq Runs /\ c \notin line[r] /\ Started(r)
  BY <1>1, <1>5 DEF Inv, TypeOK, Started
<1>7. LinesGoUp'
  <2> SUFFICES ASSUME NEW s \in Runs
               PROVE  /\ s \in line'[s]
                      /\ heeds'[s] \subseteq line'[s] \ {s}
                      /\ \A d \in line'[s] :
                            /\ line'[d] \subseteq line'[s]
                            /\ heeds'[d] \subseteq heeds'[s]
                            /\ d # s => Started(d)' /\ s \notin line'[d]
                      /\ phase'[s] = "new" => line'[s] = {s} /\ spent'[s] = 0
    BY DEF LinesGoUp
  <2>1. CASE s = c
    <3>1. \A d \in line[r] : /\ d \in Runs /\ d # c /\ line'[d] = line[d]
                             /\ line[d] \subseteq line[r]
                             /\ heeds'[d] = heeds[d]
                             /\ heeds[d] \subseteq heeds[r]
                             /\ Started(d)
      BY <1>4, <1>6 DEF Inv, LinesGoUp
    <3>2. \A d \in line[r] : Started(d)' /\ c \notin line[d]
      BY <1>2, <1>5, <3>1 DEF Moves
    <3>3. line'[c] = line[r] \cup {c} /\ phase'[c] # "new"
      BY <1>2, <1>4 DEF Moves
    <3>4. /\ heeds[r] \subseteq heeds'[c]
          /\ heeds'[c] \subseteq heeds[r] \cup {r}
          /\ heeds[r] \subseteq line[r] /\ r \in line[r]
      BY <1>4 DEF Inv, LinesGoUp
    <3> QED BY <1>6, <2>1, <3>1, <3>2, <3>3, <3>4
  <2>2. CASE s # c
    <3>1. line'[s] = line[s] /\ heeds'[s] = heeds[s] /\ c \notin line[s] /\ phase'[s] = phase[s]
      BY <1>2, <1>4, <1>5, <2>2 DEF Moves
    <3>2. \A d \in line[s] : /\ d \in Runs /\ line'[d] = line[d] /\ heeds'[d] = heeds[d]
                             /\ Started(d) => Started(d)'
      BY <1>2, <1>4, <3>1 DEF Inv, TypeOK, Moves
    <3> QED BY <1>1, <3>1, <3>2 DEF Inv, LinesGoUp
  <2> QED BY <2>1, <2>2
<1>8. AbortsGoDown'
  <2> SUFFICES ASSUME NEW s \in Runs
               PROVE  /\ s \in ctx' /\ Started(s)' => s \in ctl'
                      /\ s \in ctx' => Descendants(s)' \subseteq ctx'
                      /\ s \in ctl' => Heeding(s)' \subseteq ctx'
    BY DEF AbortsGoDown
  <2>1. s \in ctx' /\ Started(s)' => s \in ctl'
    <3>1. CASE Started(s)
      BY <1>1, <1>2, <3>1 DEF Inv, AbortsGoDown, Moves, Started
    <3>2. CASE ~Started(s)
      BY <1>2, <3>2 DEF Moves
    <3> QED BY <3>1, <3>2
  <2>2. r \in ctx => c \in ctx'
    BY <1>1, <1>6 DEF Inv, AbortsGoDown
  <2>3. ASSUME s \in ctx', NEW d \in Descendants(s)' PROVE d \in ctx'
    <3>1. d \in Runs /\ s \in line'[d] /\ phase'[d] # "new"
      BY <2>3 DEF Descendants
    <3>2. CASE s = c
      BY <1>4, <1>5, <2>3, <3>1, <3>2
    <3>3. CASE s # c /\ d = c
      <4>1. s \in line[r] /\ s \in ctx
        BY <1>1, <1>4, <2>3, <3>1, <3>3
      <4>2. r \in Descendants(s)
        BY <1>1, <4>1 DEF Descendants
      <4> QED BY <2>2, <3>3, <4>1, <4>2 DEF Inv, AbortsGoDown
    <3>4. CASE s # c /\ d # c
      <4>1. d \in Descendants(s) /\ s \in ctx
        BY <1>1, <1>2, <1>4, <2>3, <3>1, <3>4 DEF Descendants, Moves
      <4> QED BY <1>1, <4>1 DEF Inv, AbortsGoDown
    <3> QED BY <3>2, <3>3, <3>4
  <2>4. ASSUME s \in ctl', NEW d \in Heeding(s)' PROVE d \in ctx'
    <3>1. d \in Runs /\ s \in heeds'[d]
      BY <2>4 DEF Heeding
    <3>2. s # c
      BY <1>4, <1>5, <1>6, <3>1 DEF Inv, LinesGoUp
    <3>3. s \in ctl
      BY <1>2, <2>4, <3>2 DEF Moves
    <3>4. CASE d = c
      <4>1. s \in heeds[r] \/ (s = r /\ ~hook)
        BY <1>4, <3>1, <3>4
      <4>2. CASE s \in heeds[r]
        <5>1. r \in ctx
          BY <3>3, <4>2 DEF Inv, AbortsGoDown, Heeding
        <5> QED BY <2>2, <3>4, <5>1
      <4>3. CASE s = r /\ ~hook
        BY <1>1, <3>3, <3>4, <4>3
      <4> QED BY <4>1, <4>2, <4>3
    <3>5. CASE d # c
      <4>1. d \in Heeding(s)
        BY <1>4, <3>1, <3>5 DEF Heeding
      <4> QED BY <1>1, <3>3, <4>1 DEF Inv, AbortsGoDown
    <3> QED BY <3>4, <3>5
  <2> QED BY <2>1, <2>3, <2>4
<1>9. SpentIsCounted' /\ TreeWithinBudget'
  <2>1. limit' \in [Runs -> Nat] /\ spent[c] = 0
    BY <1>1, <1>3 DEF TypeOK, Inv, LinesGoUp
  <2>2. \A d \in Runs : d # c => limit'[d] = limit[d]
    BY <1>1 DEF Inv, TypeOK
  <2> QED BY <1>1, <2>1, <2>2 DEF Inv, SpentIsCounted, TreeWithinBudget
<1> QED BY <1>3, <1>7, <1>8, <1>9 DEF Inv

LEMMA ObserveInv ==
    ASSUME Inv, NEW r \in Runs, NEW c \in Runs, Observe(r, c)
    PROVE  Inv'
<1>1. TypeOK'
  BY DEF Inv, TypeOK, Observe, budgets
<1>2. LinesGoUp' /\ AbortsGoDown'
  BY DEF Inv, Observe, budgets, LinesGoUp, AbortsGoDown, Started, Heeding, Descendants
<1>3. SpentIsCounted' /\ TreeWithinBudget'
  BY DEF Inv, Observe, budgets, SpentIsCounted, TreeWithinBudget
<1> QED BY <1>1, <1>2, <1>3 DEF Inv

LEMMA UsedGrows ==
    ASSUME TypeOK, NEW r \in Runs, Consume(r)
    PROVE  used' \in [Runs -> Nat] /\ \A d \in Runs : used[d] <= used'[d]
BY DEF TypeOK, Consume

\* The end of a run, by Finish or by OutOfBudget.
LEMMA EndInv ==
    ASSUME Inv, NEW r \in Runs, phase[r] = "running", End(r),
           UNCHANGED <<agent, line, heeds, limit, spent, ctx>>,
           used' \in [Runs -> Nat], \A d \in Runs : used[d] <= used'[d]
    PROVE  Inv'
<1>1. /\ \E who \in SUBSET Runs : Moves(who)
      /\ phase' \in [Runs -> {"new", "queued", "running", "ended"}]
      /\ awaits' \in [Runs -> Runs \cup {NoRun}]
      /\ queue' \in [Agents -> Seq(Runs)]
      /\ ctl' \subseteq Runs
  BY EndMoves DEF Inv
<1>2. TypeOK'
  BY <1>1 DEF Inv, TypeOK
<1>3. PICK who \in SUBSET Runs : Moves(who)
  BY <1>1
<1> QED BY <1>2, <1>3, MovesInv DEF Inv, LinesGoUp

LEMMA FinishInv ==
    ASSUME Inv, NEW r \in Runs, Finish(r)
    PROVE  Inv'
<1>1. used' \in [Runs -> Nat] /\ \A d \in Runs : used[d] <= used'[d]
  BY DEF Finish, budgets, Inv, TypeOK
<1> QED BY <1>1, EndInv DEF Finish, Free, budgets

LEMMA OutOfBudgetInv ==
    ASSUME Inv, NEW r \in Runs, OutOfBudget(r)
    PROVE  Inv'
<1>1. used' \in [Runs -> Nat] /\ \A d \in Runs : used[d] <= used'[d]
  BY UsedGrows DEF OutOfBudget, Inv
<1> QED BY <1>1, EndInv DEF OutOfBudget, Free

LEMMA ToolCallInv ==
    ASSUME Inv, NEW r \in Runs, ToolCall(r)
    PROVE  Inv'
<1>1. /\ Exhausted(r) = {} /\ phase[r] = "running"
      /\ used' = [a \in Runs |-> IF a \in line[r] THEN used[a] + 1 ELSE used[a]]
      /\ spent' = [a \in Runs |-> IF a \in line[r] THEN spent[a] + 1 ELSE spent[a]]
      /\ UNCHANGED <<phase, agent, line, heeds, awaits, queue, ctx, ctl, limit>>
  BY DEF ToolCall, Free, Consume, Counted
<1>2. TypeOK'
  BY <1>1 DEF Inv, TypeOK
<1>3. AbortsGoDown'
  BY <1>1 DEF Inv, AbortsGoDown, Started, Heeding, Descendants
<1>4. LinesGoUp'
  <2>1. \A d \in Runs : phase[d] = "new" => d \notin line[r]
    BY <1>1 DEF Inv, LinesGoUp, Started
  <2>2. \A d \in Runs : phase[d] = "new" => spent'[d] = spent[d]
    BY <1>1, <2>1
  <2> QED BY <1>1, <2>2 DEF Inv, LinesGoUp, Started
<1>5. SpentIsCounted' /\ TreeWithinBudget'
  <2>1. \A a \in line[r] : used[a] + 1 <= limit[a]
    <3> SUFFICES ASSUME NEW a \in line[r] PROVE used[a] + 1 <= limit[a]
      OBVIOUS
    <3>1. a \in Runs /\ ~(used[a] + 1 > limit[a])
      BY <1>1 DEF Exhausted, Inv, TypeOK
    <3> QED BY <3>1 DEF Inv, TypeOK
  <2>2. \A a \in Runs : spent[a] \in Nat /\ used[a] \in Nat /\ limit[a] \in Nat
    BY DEF Inv, TypeOK
  <2> QED BY <1>1, <2>1, <2>2 DEF Inv, SpentIsCounted, TreeWithinBudget
<1> QED BY <1>2, <1>3, <1>4, <1>5 DEF Inv

\* What an abort reaches, with r's strategy or without, is closed: with a context
\* goes what is below it, with a strategy what heeds it.
LEMMA AbortInv ==
    ASSUME Inv, NEW C \in SUBSET Runs, NEW D \in SUBSET Runs,
           UNCHANGED <<phase, agent, line, heeds, awaits, queue, budgets>>,
           ctx' = ctx \cup C, ctl' = ctl \cup D,
           \A s \in C : Descendants(s) \subseteq C /\ (Started(s) => s \in D),
           \A s \in D : Heeding(s) \subseteq C
    PROVE  Inv'
<1>1. TypeOK'
  BY DEF Inv, TypeOK, budgets
<1>2. LinesGoUp'
  BY DEF Inv, LinesGoUp, budgets, Started
<1>3. SpentIsCounted' /\ TreeWithinBudget'
  BY DEF Inv, SpentIsCounted, TreeWithinBudget, budgets
<1>4. AbortsGoDown'
  BY DEF Inv, AbortsGoDown, Started, Heeding, Descendants
<1> QED BY <1>1, <1>2, <1>3, <1>4 DEF Inv

LEMMA CancelInv ==
    ASSUME Inv, NEW r \in Runs, Cancel(r)
    PROVE  Inv'
<1> DEFINE C == Heeding(r)
           D == {r} \cup {d \in Heeding(r) : Started(d)}
<1>1. C \in SUBSET Runs /\ D \in SUBSET Runs
  BY DEF Heeding
<1>2. \A s \in C : r \in heeds[s] /\ s \in Runs
  BY DEF Heeding
<1>3. \A s \in C : Descendants(s) \subseteq C
  BY <1>2 DEF Inv, LinesGoUp, Descendants, Heeding
<1>4. \A s \in C : Heeding(s) \subseteq C
  BY <1>2 DEF Inv, LinesGoUp, Heeding
<1>5. \A s \in D : Heeding(s) \subseteq C
  BY <1>4
<1>6. \A s \in C : Started(s) => s \in D
  OBVIOUS
<1>7. ctx' = ctx \cup C /\ ctl' = ctl \cup D
  BY DEF Cancel
<1> HIDE DEF C, D
<1> QED BY <1>1, <1>3, <1>5, <1>6, <1>7, AbortInv DEF Cancel

LEMMA AbortUserInv ==
    ASSUME Inv, NEW r \in Runs, AbortUser(r)
    PROVE  Inv'
<1> DEFINE C == Descendants(r)
           D == {d \in Descendants(r) : Started(d)}
<1>1. C \in SUBSET Runs /\ D \in SUBSET Runs
  BY DEF Descendants
<1>2. \A s \in C : r \in line[s] /\ s \in Runs
  BY DEF Descendants
<1>3. \A s \in C : Descendants(s) \subseteq C
  BY <1>2 DEF Inv, LinesGoUp, Descendants
<1>4. ASSUME NEW s \in D, NEW d \in Heeding(s) PROVE d \in C
  <2>1. d \in Runs /\ s \in line[d] /\ d # s /\ s \in C
    BY <1>4 DEF Inv, LinesGoUp, Heeding
  <2>2. phase[d] # "new"
    BY <2>1 DEF Inv, LinesGoUp
  <2>3. r \in line[d]
    BY <1>2, <2>1 DEF Inv, LinesGoUp
  <2> QED BY <2>1, <2>2, <2>3 DEF Descendants
<1>5. \A s \in C : Started(s) => s \in D
  OBVIOUS
<1>6. ctx' = ctx \cup C /\ ctl' = ctl \cup D
  BY DEF AbortUser
<1> HIDE DEF C, D
<1> QED BY <1>1, <1>3, <1>4, <1>5, <1>6, AbortInv DEF AbortUser

LEMMA NextInv == Inv /\ [Next]_vars => Inv'
<1> SUFFICES ASSUME Inv, [Next]_vars PROVE Inv'
  OBVIOUS
<1>1. CASE UNCHANGED vars
  BY <1>1 DEF vars, Inv, TypeOK, LinesGoUp, AbortsGoDown, SpentIsCounted, TreeWithinBudget,
              Started, Heeding, Descendants
<1>2. ASSUME NEW r \in Runs, RunStep(r) PROVE Inv'
  BY <1>2, SubmitInv, DelegateInv, ObserveInv, FinishInv, ToolCallInv, OutOfBudgetInv,
     CancelInv, AbortUserInv DEF RunStep
<1> QED BY <1>1, <1>2 DEF Next

\* What each variable holds, for any runs, agents and limits.
THEOREM AgentRunsTypeOK == Spec => []TypeOK
<1>1. Inv => TypeOK
  BY DEF Inv
<1> QED BY <1>1, InitInv, NextInv, PTL DEF Spec

\* No tree of runs makes more tool calls than its root's own limit, however the
\* shares of its children add up (budget-manager.ts:195-304).
THEOREM AgentRunsWithinBudget == Spec => []TreeWithinBudget
<1>1. Inv => TreeWithinBudget
  BY DEF Inv
<1> QED BY <1>1, InitInv, NextInv, PTL DEF Spec

-----------------------------------------------------------------------------
\* A strategy is aborted as soon as a context in its line or a strategy it heeds is.
LEMMA SilencedStops ==
    ASSUME Inv, NEW r \in Runs, Started(r), Silenced(r)
    PROVE  r \in ctl
<1>1. CASE line[r] \cap ctx # {}
  <2>1. PICK a \in line[r] : a \in ctx
    BY <1>1
  <2>2. a \in Runs /\ r \in Descendants(a)
    BY <2>1 DEF Inv, TypeOK, Descendants, Started
  <2>3. r \in ctx
    BY <2>1, <2>2 DEF Inv, AbortsGoDown
  <2> QED BY <2>3 DEF Inv, AbortsGoDown
<1>2. CASE \E a \in heeds[r] : a \in ctl
  <2>1. PICK a \in heeds[r] : a \in ctl
    BY <1>2
  <2>2. a \in Runs /\ r \in Heeding(a)
    BY <2>1 DEF Inv, TypeOK, Heeding
  <2>3. r \in ctx
    BY <2>1, <2>2 DEF Inv, AbortsGoDown
  <2> QED BY <2>3 DEF Inv, AbortsGoDown
<1> QED BY <1>1, <1>2 DEF Silenced

\* A tool call is spent by the run that makes it and by those above it, which
\* have that run below them; a silenced run makes none.
LEMMA StepStops ==
    ASSUME Inv, [Next]_vars
    PROVE  [\A r \in Runs : Silenced(r) => ~Calls(r)]_vars
<1> SUFFICES ASSUME NEW r \in Runs, Silenced(r), Calls(r) PROVE FALSE
  OBVIOUS
<1>1. CASE spent' = spent
  BY <1>1 DEF Calls
<1>2. ASSUME NEW q \in Runs, ToolCall(q) PROVE FALSE
  <2>1. Started(q) /\ q \notin ctl
    BY <1>2 DEF ToolCall, Free, Started
  <2>2. \A a \in Runs : spent'[a] = IF a \in line[q] THEN spent[a] + 1 ELSE spent[a]
    BY <1>2 DEF ToolCall
  <2>3. r \in line[q] /\ q \in line[q]
    BY <2>2 DEF Calls, Inv, LinesGoUp
  <2>4. spent'[q] # spent[q]
    BY <2>2, <2>3 DEF Inv, TypeOK
  <2>5. q = r
    BY <2>1, <2>3, <2>4 DEF Calls, Descendants, Started
  <2> QED BY <2>1, <2>5, SilencedStops
<1>3. CASE UNCHANGED vars
  BY <1>1, <1>3 DEF vars
<1>4. ASSUME NEW q \in Runs, RunStep(q), ~ToolCall(q) PROVE spent' = spent
  BY <1>4 DEF RunStep, Submit, Delegate, Observe, Finish, OutOfBudget, Cancel, AbortUser, budgets
<1> QED BY <1>1, <1>2, <1>3, <1>4 DEF Next

\* A run starts no tool call once a user's abort of any run above it, or a cancel
\* of itself or of a run whose strategy it descends from, has taken place, in
\* whatever order runs are delegated, from strategies or hooks, queued, started and
\* ended (agent-runtime.ts:223-230, execution-context.ts:166-168).
THEOREM AgentRunsCancelStopsTree == Spec => CancelStopsTree
<1> QED BY InitInv, NextInv, StepStops, PTL DEF Spec, CancelStopsTree

-----------------------------------------------------------------------------
(* The gates of the agents as lease pools, and what keeps a run waiting *)

Queued(a) == {r \in Runs : phase[r] = "queued" /\ agent[r] = a}

Gate(a) ==
    INSTANCE LeasePool WITH Callers <- Runs, Limit <- MaxConcurrent,
                            holding <- Holders(a), waiting <- Queued(a)

\* The queue of an agent is the set of its waiting runs, each once, and somebody
\* waits only while every lease is out.
GateSound(a) ==
    /\ Distinct(queue[a]) /\ Range(queue[a]) = Queued(a)
    /\ Cardinality(Holders(a)) <= MaxConcurrent
    /\ Queued(a) # {} => Cardinality(Holders(a)) = MaxConcurrent
GatesSound == \A a \in Agents : GateSound(a)

\* Who is awaited has not ended.
AwaitsUnended == \A r \in Runs : awaits[r] # NoRun => phase[awaits[r]] \in {"queued", "running"}

LEMMA GateCardinality == \A a \in Agents : \A S : Gate(a)!Cardinality(S) = Cardinality(S)
  BY DEF Cardinality, Gate!Cardinality, IsFiniteSet, Gate!IsFiniteSet

LEMMA HoldersCount ==
    ASSUME NEW a
    PROVE  IsFiniteSet(Holders(a)) /\ Cardinality(Holders(a)) \in Nat
<1>1. IsFiniteSet(Runs)
  BY RunsAssumption, FS_Interval DEF Runs
<1> QED BY <1>1, FS_Subset, FS_CardinalityType DEF Holders

\* An empty queue, and one that is not.
LEMMA QueueFacts ==
    ASSUME TypeOK, GatesSound, NEW a \in Agents
    PROVE  /\ queue[a] \in Seq(Runs) /\ Distinct(queue[a]) /\ Range(queue[a]) = Queued(a)
           /\ queue[a] = <<>> <=> Queued(a) = {}
<1>1. queue[a] \in Seq(Runs) /\ Distinct(queue[a]) /\ Range(queue[a]) = Queued(a)
  BY DEF TypeOK, GatesSound, GateSound
<1>2. queue[a] # <<>> => Head(queue[a]) \in Range(queue[a])
  BY <1>1, TailDistinct
<1> QED BY <1>1, <1>2, EmptyQueue

\* A run that comes to its agent's gate takes a lease or a place in the queue.
LEMMA EnterGate ==
    ASSUME TypeOK, GatesSound, NEW r \in Runs, NEW a \in Agents, phase[r] = "new",
           Execute(r, a), agent' = [agent EXCEPT ![r] = a], NEW b \in Agents
    PROVE  GateSound(b)' /\ [Gate(b)!Next]_<<Holders(b), Queued(b)>>
<1>1. /\ MaxConcurrent \in Nat /\ Cardinality(Holders(b)) \in Nat /\ GateSound(b)
      /\ r \notin Holders(b) /\ r \notin Queued(b)
      /\ \A s \in Runs : agent'[s] = IF s = r THEN a ELSE agent[s]
  BY RunsAssumption, HoldersCount DEF TypeOK, GatesSound, Holders, Queued
<1>2. CASE b # a
  <2>1. queue'[b] = queue[b] /\ \A s \in Runs : s # r => phase'[s] = phase[s]
    BY <1>2 DEF Execute, TypeOK
  <2>2. UNCHANGED <<Holders(b), Queued(b)>>
    BY <1>1, <1>2, <2>1 DEF Holders, Queued
  <2> QED BY <1>1, <2>1, <2>2 DEF GateSound
<1>3. CASE b = a /\ Cardinality(Holders(b)) < MaxConcurrent
  <2>1. queue' = queue /\ \A s \in Runs : phase'[s] = IF s = r THEN "running" ELSE phase[s]
    BY <1>3 DEF Execute, TypeOK
  <2>2. Holders(b)' = Holders(b) \cup {r} /\ Queued(b)' = Queued(b)
    BY <1>1, <1>3, <2>1 DEF Holders, Queued
  <2>3. Queued(b) = {}
    BY <1>1, <1>3 DEF GateSound
  <2>4. Cardinality(Holders(b)') = Cardinality(Holders(b)) + 1
    BY <1>1, <2>2, HoldersCount, FS_AddElement
  <2>5. GateSound(b)'
    BY <1>1, <1>3, <2>1, <2>2, <2>3, <2>4 DEF GateSound
  <2>6. Gate(b)!Take(r)
    BY <1>1, <1>3, <2>2, <2>3, GateCardinality DEF Gate!Take, Gate!Idle
  <2> QED BY <2>5, <2>6 DEF Gate!Next
<1>4. CASE b = a /\ ~(Cardinality(Holders(b)) < MaxConcurrent)
  <2>1. /\ queue'[b] = Append(queue[b], r)
        /\ \A s \in Runs : phase'[s] = IF s = r THEN "queued" ELSE phase[s]
    BY <1>4 DEF Execute, TypeOK
  <2>2. Holders(b)' = Holders(b) /\ Queued(b)' = Queued(b) \cup {r}
    BY <1>1, <1>4, <2>1 DEF Holders, Queued
  <2>3. Cardinality(Holders(b)) = MaxConcurrent
    BY <1>1, <1>4 DEF GateSound
  <2>4. Distinct(queue'[b]) /\ Range(queue'[b]) = Queued(b) \cup {r}
    BY <1>1, <2>1, QueueFacts, AppendDistinct
  <2>5. GateSound(b)'
    BY <1>1, <2>2, <2>3, <2>4 DEF GateSound
  <2>6. Gate(b)!Wait(r)
    BY <1>1, <2>2, <2>3, GateCardinality DEF Gate!Wait, Gate!Idle
  <2> QED BY <2>5, <2>6 DEF Gate!Next
<1> QED BY <1>2, <1>3, <1>4

\* A run that ends hands its lease to the head of the queue, or gives it back.
LEMMA LeaveGate ==
    ASSUME TypeOK, GatesSound, NEW r \in Runs, phase[r] = "running", End(r),
           agent' = agent, NEW b \in Agents
    PROVE  GateSound(b)' /\ [Gate(b)!Next]_<<Holders(b), Queued(b)>>
<1> DEFINE a == agent[r]
           h == Head(queue[a])
<1>1. a \in Agents /\ MaxConcurrent \in Nat /\ Cardinality(Holders(b)) \in Nat /\ GateSound(b)
  BY RunsAssumption, HoldersCount DEF TypeOK, GatesSound
<1>2. CASE queue[a] = <<>>
  <2>1. queue' = queue /\ \A s \in Runs : phase'[s] = IF s = r THEN "ended" ELSE phase[s]
    BY <1>2 DEF End, TypeOK
  <2>2. CASE b # a
    <3>1. UNCHANGED <<Holders(b), Queued(b)>>
      BY <2>1, <2>2 DEF Holders, Queued
    <3> QED BY <1>1, <2>1, <3>1 DEF GateSound
  <2>3. CASE b = a
    <3>1. r \in Holders(b) /\ Queued(b) = {}
      BY <1>1, <1>2, <2>3, QueueFacts DEF Holders
    <3>2. Holders(b)' = Holders(b) \ {r} /\ Queued(b)' = Queued(b)
      BY <2>1 DEF Holders, Queued
    <3>3. Cardinality(Holders(b)') = Cardinality(Holders(b)) - 1
      BY <3>1, <3>2, HoldersCount, FS_RemoveElement
    <3>4. GateSound(b)'
      BY <1>1, <2>1, <3>1, <3>2, <3>3 DEF GateSound
    <3> QED BY <3>1, <3>2, <3>4 DEF Gate!Next, Gate!Return
  <2> QED BY <2>2, <2>3
<1>3. CASE queue[a] # <<>>
  <2>1. /\ h \in Runs /\ phase[h] = "queued" /\ agent[h] = a /\ h # r
        /\ Distinct(Tail(queue[a])) /\ Range(Tail(queue[a])) = Queued(a) \ {h}
    BY <1>1, <1>3, QueueFacts, TailDistinct DEF Queued
  <2>2. /\ phase' = [phase EXCEPT ![r] = "ended", ![h] = "running"]
        /\ queue' = [queue EXCEPT ![a] = Tail(@)]
    BY <1>3 DEF End
  <2>3. \A s \in Runs :
            phase'[s] = IF s = h THEN "running" ELSE IF s = r THEN "ended" ELSE phase[s]
    BY <2>1, <2>2 DEF TypeOK
  <2>4. CASE b # a
    <3>1. queue'[b] = queue[b]
      BY <2>2, <2>4 DEF TypeOK
    <3>2. UNCHANGED <<Holders(b), Queued(b)>>
      BY <2>1, <2>3, <2>4 DEF Holders, Queued
    <3> QED BY <1>1, <3>1, <3>2 DEF GateSound
  <2>5. CASE b = a
    <3>0. queue'[b] = Tail(queue[a])
      BY <1>1, <2>2, <2>5 DEF TypeOK
    <3> HIDE DEF h
    <3>1. Holders(b)' = (Holders(b) \ {r}) \cup {h} /\ Queued(b)' = Queued(b) \ {h}
      BY <2>1, <2>3, <2>5 DEF Holders, Queued
    <3>2. r \in Holders(b) /\ h \notin Holders(b) /\ h \in Queued(b)
      BY <2>1, <2>5 DEF Holders, Queued
    <3>3. /\ IsFiniteSet(Holders(b) \ {r})
          /\ Cardinality(Holders(b) \ {r}) = Cardinality(Holders(b)) - 1
      BY <3>2, HoldersCount, FS_RemoveElement
    <3>4. Cardinality(Holders(b)') = Cardinality(Holders(b) \ {r}) + 1
      BY <3>1, <3>2, <3>3, FS_AddElement
    <3>5. Cardinality(Holders(b)') = Cardinality(Holders(b))
      BY <1>1, <3>3, <3>4
    <3>6. GateSound(b)'
      BY <1>1, <2>1, <2>5, <3>0, <3>1, <3>2, <3>5 DEF GateSound
    <3>7. Gate(b)!HandOver(r, h)
      BY <3>1, <3>2 DEF Gate!HandOver
    <3> QED BY <2>1, <3>6, <3>7 DEF Gate!Next
  <2> QED BY <2>4, <2>5
<1> QED BY <1>2, <1>3

LEMMA GateStep ==
    ASSUME Inv, GatesSound, [Next]_vars, NEW b \in Agents
    PROVE  GateSound(b)' /\ [Gate(b)!Next]_<<Holders(b), Queued(b)>>
<1>1. ASSUME UNCHANGED <<phase, agent, queue>>
      PROVE  GateSound(b)' /\ UNCHANGED <<Holders(b), Queued(b)>>
  <2>1. UNCHANGED <<Holders(b), Queued(b)>>
    BY <1>1 DEF Holders, Queued
  <2> QED BY <1>1, <2>1 DEF GatesSound, GateSound
<1>2. ASSUME NEW r \in Runs, RunStep(r)
      PROVE  GateSound(b)' /\ [Gate(b)!Next]_<<Holders(b), Queued(b)>>
  <2>1. CASE \E a \in Agents :
                 Submit(r, a) \/ \E c \in Runs, hook \in BOOLEAN : Delegate(r, c, a, hook)
    BY <2>1, EnterGate DEF Submit, Delegate, Fresh, Inv
  <2>2. CASE Finish(r) \/ OutOfBudget(r)
    BY <2>2, LeaveGate DEF Finish, OutOfBudget, Free, Inv
  <2>3. CASE ToolCall(r) \/ Cancel(r) \/ AbortUser(r) \/ \E c \in Runs : Observe(r, c)
    BY <1>1, <2>3 DEF ToolCall, Cancel, AbortUser, Observe
  <2> QED BY <1>2, <2>1, <2>2, <2>3 DEF RunStep
<1> QED BY <1>1, <1>2 DEF Next, vars

\* A run that ends is awaited no more; one that is awaited when it starts runs.
LEMMA AwaitsStep == Inv /\ GatesSound /\ AwaitsUnended /\ [Next]_vars => AwaitsUnended'
<1> SUFFICES ASSUME Inv, GatesSound, AwaitsUnended, [Next]_vars PROVE AwaitsUnended'
  OBVIOUS
<1>1. ASSUME UNCHANGED <<phase, awaits>> PROVE AwaitsUnended'
  BY <1>1 DEF AwaitsUnended
<1>2. ASSUME NEW r \in Runs, NEW a \in Agents, phase[r] = "new", Execute(r, a), awaits' = awaits
      PROVE  AwaitsUnended'
  <2>1. \A s \in Runs : phase[s] \in {"queued", "running"} => phase'[s] = phase[s]
    BY <1>2 DEF Execute, Inv, TypeOK
  <2> QED BY <1>2, <2>1, RunsAssumption DEF AwaitsUnended, Inv, TypeOK
<1>3. ASSUME NEW r \in Runs, NEW c \in Runs, Observe(r, c) PROVE AwaitsUnended'
  <2>1. phase[c] \in {"queued", "running"} /\ awaits' = [awaits EXCEPT ![r] = c] /\ phase' = phase
    BY <1>3 DEF Observe, Children, Inv, TypeOK
  <2> QED BY <2>1 DEF AwaitsUnended, Inv, TypeOK
<1>4. ASSUME NEW r \in Runs, phase[r] = "running", End(r) PROVE AwaitsUnended'
  <2>1. awaits' = [s \in Runs |-> IF awaits[s] = r THEN NoRun ELSE awaits[s]]
    BY <1>4 DEF End
  <2>2. \A s \in Runs : s # r /\ phase[s] \in {"queued", "running"} =>
            phase'[s] \in {"queued", "running"}
    <3>1. CASE queue[agent[r]] = <<>>
      BY <1>4, <3>1 DEF End, Inv, TypeOK
    <3>2. CASE queue[agent[r]] # <<>>
      BY <1>4, <3>2 DEF End, Inv, TypeOK
    <3> QED BY <3>1, <3>2
  <2> QED BY <2>1, <2>2, RunsAssumption DEF AwaitsUnended, Inv, TypeOK
<1>5. ASSUME NEW r \in Runs, RunStep(r) PROVE AwaitsUnended'
  BY <1>1, <1>2, <1>3, <1>4, <1>5 DEF RunStep, Submit, Delegate, Fresh, Finish, OutOfBudget, Free,
     ToolCall, Cancel, AbortUser
<1> QED BY <1>1, <1>5 DEF Next, vars

LEMMA GatesInvariance == Spec => [](Inv /\ GatesSound /\ AwaitsUnended)
<1>1. Init => GatesSound /\ AwaitsUnended
  <2> SUFFICES ASSUME Init PROVE GatesSound /\ AwaitsUnended
    OBVIOUS
  <2>1. AwaitsUnended
    BY DEF Init, AwaitsUnended
  <2>2. ASSUME NEW a \in Agents PROVE GateSound(a)
    <3>1. queue[a] = <<>> /\ Holders(a) = {} /\ Queued(a) = {}
      BY DEF Init, Holders, Queued
    <3>2. Cardinality({}) = 0 /\ MaxConcurrent \in Nat
      BY FS_EmptySet, RunsAssumption
    <3> QED BY <3>1, <3>2, EmptyQueue DEF GateSound
  <2> QED BY <2>1, <2>2 DEF GatesSound
<1>2. Inv /\ GatesSound /\ [Next]_vars => GatesSound'
  BY GateStep DEF GatesSound
<1> QED BY <1>1, <1>2, AwaitsStep, InitInv, NextInv, PTL DEF Spec

\* Each agent's gate, in a system where the holders of leases wait for one
\* another, is the lease pool that ConcurrencyGate implements
\* (agent-runtime.ts:222-258).
THEOREM AgentRunsUsePools ==
    Spec => [][\A a \in Agents : [Gate(a)!Next]_<<Holders(a), Queued(a)>>]_vars
<1>1. Inv /\ GatesSound /\ [Next]_vars =>
        [\A a \in Agents : [Gate(a)!Next]_<<Holders(a), Queued(a)>>]_vars
  BY GateStep
<1> QED BY <1>1, GatesInvariance, PTL DEF Spec

\* The runs that a queued run waits for, if none of them is free to go on, are a
\* knot.
LEMMA WaitingIsKnot ==
    ASSUME Inv, GatesSound, AwaitsUnended, NEW r \in Runs, phase[r] = "queued",
           NEW S \in SUBSET Runs, r \in S, \A s \in S : WaitsFor(s) \subseteq S,
           \A s \in S : ~Free(s)
    PROVE  Knotted(r)
<1> DEFINE K == {s \in S : phase[s] \in {"queued", "running"}}
<1>1. K \in SUBSET {s \in Runs : phase[s] \in {"queued", "running"}} /\ r \in K
  OBVIOUS
<1>2. ASSUME NEW s \in K, phase[s] = "queued"
      PROVE  Cardinality(Holders(agent[s])) = MaxConcurrent /\ Holders(agent[s]) \subseteq K
  <2>1. agent[s] \in Agents /\ s \in Queued(agent[s])
    BY <1>2 DEF Inv, TypeOK, Queued
  <2>2. Cardinality(Holders(agent[s])) = MaxConcurrent
    BY <2>1 DEF GatesSound, GateSound
  <2>3. Holders(agent[s]) \subseteq S
    BY <1>2 DEF WaitsFor
  <2> QED BY <2>2, <2>3 DEF Holders
<1>3. ASSUME NEW s \in K, phase[s] # "queued"
      PROVE  awaits[s] \in K
  <2>1. awaits[s] # NoRun
    BY <1>3 DEF Free
  <2>2. awaits[s] \in S
    BY <1>3, <2>1 DEF WaitsFor
  <2> QED BY <2>1, <2>2 DEF AwaitsUnended
<1> HIDE DEF K
<1> QED BY <1>1, <1>2, <1>3 DEF Knotted

\* A run waits only for runs that can go on, unless it is caught in a knot of
\* parents that hold the leases their children wait for: no run waits because a
\* lease was lost, or for a child that has ended (agent-runtime.ts:222-258,
\* delegator.ts:263).
THEOREM AgentRunsBlockedOnlyInKnots == Spec => []BlockedOnlyInKnots
<1>1. Inv /\ GatesSound /\ AwaitsUnended => BlockedOnlyInKnots
  BY WaitingIsKnot DEF BlockedOnlyInKnots
<1> QED BY <1>1, GatesInvariance, PTL
=============================================================================
