----------------------------- MODULE AgentRuns -----------------------------
(***************************************************************************)
(* Agent runs and the runs they delegate to: DefaultAgentRuntime.execute   *)
(* and cancel (src/runtime/agent/agent-runtime.ts), Delegator.delegate and *)
(* observe (src/orchestration/delegation/delegator.ts), the child contexts *)
(* of src/runtime/context/execution-context.ts and the tool calls that the *)
(* strategy loop takes from a tree of budgets (src/runtime/budget/).       *)
(*                                                                         *)
(* A run has two signals: the one of the context it was given, and the one *)
(* of the controller that execute makes once it has the lease of its       *)
(* agent's gate and hands to the strategy.  The controller listens to the  *)
(* context.  A child's context listens to the context its parent delegates *)
(* with: the strategy's, or, in a hook, which is not given that one, the   *)
(* one execute was given.  No listener goes when its run ends, so that an  *)
(* abort and all it reaches are one synchronous step; but cancel(runId)    *)
(* aborts the strategy's signal only.  The wait for the lease takes no     *)
(* signal, and a queued run has no controller yet.                         *)
(*                                                                         *)
(* Runs are numbered as they come; a child's number is above its parent's. *)
(* Each run delegates through a Delegator of its own (a wait inside a      *)
(* tool's handler would be cut off by the tool's timer).  The scope that   *)
(* execute registers with the cancellation registry has no listeners and   *)
(* is left out.                                                            *)
(***************************************************************************)
EXTENDS Integers, Sequences, FiniteSets, SequencesExt, FiniteSetsExt

CONSTANTS
    Agents,         \* registered agents, each with a gate
    NoRun,          \* the child that nobody waits for
    MaxRuns,        \* bound: runs started
    MaxRoots,       \* bound: runs started by a user
    MaxConcurrent,  \* leases of an agent's gate (4)
    MaxActive,      \* maxConcurrentChildren (2)
    MaxTotal,       \* maxTotalChildren (8)
    MaxToolCalls    \* the tool calls of a user's run

ASSUME RunsAssumption ==
    /\ MaxRuns \in Nat /\ MaxRoots \in Nat
    /\ MaxConcurrent \in Nat \ {0}
    /\ MaxActive \in Nat /\ MaxTotal \in Nat
    /\ MaxToolCalls \in Nat
    /\ NoRun \notin Nat
    /\ Agents # {}

Runs == 1 .. MaxRuns

VARIABLES
    phase,      \* new, queued at its agent's gate, running, or ended
    agent,      \* the agent of each run
    line,       \* the run with its parent, its parent's parent, ...
    heeds,      \* the runs above whose strategy's signal reaches its context
    awaits,     \* the child whose result the run waits for
    queue,      \* runs waiting at each agent's gate
    ctx,        \* runs whose context's signal is aborted
    ctl,        \* runs whose strategy's signal is aborted
    limit,      \* maxToolCalls of each run's budget
    used,       \* the tool calls each budget has counted
    spent       \* history: tool calls made by each run and its descendants

vars == <<phase, agent, line, heeds, awaits, queue, ctx, ctl, limit, used, spent>>
budgets == <<limit, used, spent>>

Started(r) == phase[r] \in {"running", "ended"}
Parent(r) == IF line[r] = {r} THEN NoRun ELSE Max(line[r] \ {r})
Children(r) == {c \in Runs : Parent(c) = r /\ phase[c] # "new"}
Descendants(r) == {d \in Runs : r \in line[d] /\ phase[d] # "new"}
Holders(a) == {r \in Runs : phase[r] = "running" /\ agent[r] = a}
Free(r) == phase[r] = "running" /\ awaits[r] = NoRun

TypeOK ==
    /\ phase \in [Runs -> {"new", "queued", "running", "ended"}]
    /\ agent \in [Runs -> Agents]
    /\ line \in [Runs -> SUBSET Runs]
    /\ heeds \in [Runs -> SUBSET Runs]
    /\ awaits \in [Runs -> Runs \cup {NoRun}]
    /\ queue \in [Agents -> Seq(Runs)]
    /\ ctx \subseteq Runs /\ ctl \subseteq Runs
    /\ limit \in [Runs -> Nat] /\ used \in [Runs -> Nat] /\ spent \in [Runs -> Nat]

-----------------------------------------------------------------------------
Init ==
    /\ phase = [r \in Runs |-> "new"]
    /\ agent = [r \in Runs |-> CHOOSE a \in Agents : TRUE]
    /\ line = [r \in Runs |-> {r}]
    /\ heeds = [r \in Runs |-> {}]
    /\ awaits = [r \in Runs |-> NoRun]
    /\ queue = [a \in Agents |-> <<>>]
    /\ ctx = {} /\ ctl = {}
    /\ limit = [r \in Runs |-> 0]
    /\ used = [r \in Runs |-> 0]
    /\ spent = [r \in Runs |-> 0]

Fresh(r) == phase[r] = "new" /\ \A s \in 1 .. (r - 1) : phase[s] # "new"

\* Runs that now have their lease make their controller: it is aborted at once
\* if the context is, for a listener added to an aborted signal is not called.
\* Mutant: execute only adds the listener.
Controllers_ListenOnly(started) == ctl
Controllers(started) == ctl \cup (started \cap ctx')

\* execute() up to the lease: gate.acquire, without a signal.
Execute(r, a) ==
    IF Cardinality(Holders(a)) < MaxConcurrent
    THEN /\ phase' = [phase EXCEPT ![r] = "running"]
         /\ ctl' = Controllers({r})
         /\ UNCHANGED queue
    ELSE /\ phase' = [phase EXCEPT ![r] = "queued"]
         /\ queue' = [queue EXCEPT ![a] = Append(@, r)]
         /\ UNCHANGED ctl

\* A user's run, with a context and a budget of its own.
Submit(r, a) ==
    /\ Fresh(r)
    /\ Cardinality({s \in Runs : phase[s] # "new" /\ line[s] = {s}}) < MaxRoots
    /\ agent' = [agent EXCEPT ![r] = a]
    /\ limit' = [limit EXCEPT ![r] = MaxToolCalls]
    /\ UNCHANGED ctx
    /\ Execute(r, a)
    /\ UNCHANGED <<line, heeds, awaits, used, spent>>

\* deriveChildBudget: half of what is left, and never less than one.
Share(r) == IF limit[r] - used[r] >= 2 THEN (limit[r] - used[r]) \div 2 ELSE 1

\* delegate(), allowed by review(), with the strategy's context or, in a hook,
\* the one execute was given: the child's context is aborted from the start if
\* that one is.
Delegate(r, c, a, hook) ==
    /\ Free(r)
    /\ Fresh(c)
    /\ Cardinality(Children(r)) < MaxTotal
    /\ Cardinality({d \in Children(r) : phase[d] # "ended"}) < MaxActive
    /\ agent' = [agent EXCEPT ![c] = a]
    /\ line' = [line EXCEPT ![c] = line[r] \cup {c}]
    /\ limit' = [limit EXCEPT ![c] = Share(r)]
    /\ heeds' = [heeds EXCEPT ![c] = IF hook THEN heeds[r] ELSE heeds[r] \cup {r}]
    /\ ctx' = IF r \in (IF hook THEN ctx ELSE ctl) THEN ctx \cup {c} ELSE ctx
    /\ Execute(c, a)
    /\ UNCHANGED <<awaits, used, spent>>

\* observe(): the run keeps its lease while it waits, and hears no signal.
Observe(r, c) ==
    /\ Free(r)
    /\ c \in Children(r) /\ phase[c] # "ended"
    /\ awaits' = [awaits EXCEPT ![r] = c]
    /\ UNCHANGED <<phase, agent, line, heeds, queue, ctx, ctl, budgets>>

\* The finally of execute: the lease goes to the next run at the gate, and who
\* awaited the result has it.
\* Mutant: release is left out.
End_LeaseKept(r) ==
    /\ phase' = [phase EXCEPT ![r] = "ended"]
    /\ awaits' = [s \in Runs |-> IF awaits[s] = r THEN NoRun ELSE awaits[s]]
    /\ UNCHANGED <<queue, ctl>>
End(r) ==
    LET a == agent[r] IN
    /\ awaits' = [s \in Runs |-> IF awaits[s] = r THEN NoRun ELSE awaits[s]]
    /\ IF queue[a] = <<>>
       THEN /\ phase' = [phase EXCEPT ![r] = "ended"]
            /\ UNCHANGED <<queue, ctl>>
       ELSE /\ phase' = [phase EXCEPT ![r] = "ended", ![Head(queue[a])] = "running"]
            /\ queue' = [queue EXCEPT ![a] = Tail(@)]
            /\ ctl' = Controllers({Head(queue[a])})

\* The strategy comes to its end, by its own account, by an error, or because
\* it sees that its signal is aborted.
Finish(r) ==
    /\ Free(r)
    /\ UNCHANGED ctx
    /\ End(r)
    /\ UNCHANGED <<agent, line, heeds, budgets>>

-----------------------------------------------------------------------------
\* consumeToolCall: the run's budget counts the call, then its parent's, and so
\* on, until one that is over its limit throws.
Exhausted(r) == {a \in line[r] : used[a] + 1 > limit[a]}
\* Mutant: a child's calls are not propagated.
Counted_OwnOnly(r) == {r}
Counted(r) ==
    IF Exhausted(r) = {} THEN line[r] ELSE {a \in line[r] : a >= Max(Exhausted(r))}
Consume(r) == used' = [a \in Runs |-> IF a \in Counted(r) THEN used[a] + 1 ELSE used[a]]

\* The loop of the strategy, seeing no abort, takes a tool call from the budget
\* and makes it.
ToolCall(r) ==
    /\ Free(r) /\ r \notin ctl
    /\ Exhausted(r) = {}
    /\ Consume(r)
    /\ spent' = [a \in Runs |-> IF a \in line[r] THEN spent[a] + 1 ELSE spent[a]]
    /\ UNCHANGED <<phase, agent, line, heeds, awaits, queue, ctx, ctl, limit>>

\* The error of an exhausted budget ends the run.
OutOfBudget(r) ==
    /\ Free(r) /\ r \notin ctl
    /\ Exhausted(r) # {}
    /\ Consume(r)
    /\ UNCHANGED ctx
    /\ End(r)
    /\ UNCHANGED <<agent, line, heeds, limit, spent>>

\* What the abort of a strategy's signal reaches.
Heeding(r) == {d \in Runs : r \in heeds[d]}

\* cancel(runId), also by the handle of a delegated child.  A run without a
\* controller, queued or ended, is not reached.
Cancel(r) ==
    /\ phase[r] = "running" /\ r \notin ctl
    /\ ctx' = ctx \cup Heeding(r)
    /\ ctl' = ctl \cup {r} \cup {d \in Heeding(r) : Started(d)}
    /\ UNCHANGED <<phase, agent, line, heeds, awaits, queue, budgets>>

\* The user's signal, which is that of the context of a run without parent.
AbortUser(r) ==
    /\ phase[r] # "new" /\ line[r] = {r} /\ r \notin ctx
    /\ ctx' = ctx \cup Descendants(r)
    /\ ctl' = ctl \cup {d \in Descendants(r) : Started(d)}
    /\ UNCHANGED <<phase, agent, line, heeds, awaits, queue, budgets>>

RunStep(r) ==
    \/ \E a \in Agents : Submit(r, a) \/ \E c \in Runs, hook \in BOOLEAN : Delegate(r, c, a, hook)
    \/ \E c \in Runs : Observe(r, c)
    \/ Finish(r) \/ ToolCall(r) \/ OutOfBudget(r)
    \/ Cancel(r) \/ AbortUser(r)

Next == \E r \in Runs : RunStep(r)

\* A strategy has at most maxToolTurns turns, of calls that have time limits.
Fairness == \A r \in Runs : WF_vars(Finish(r))

Spec == Init /\ [][Next]_vars /\ Fairness

-----------------------------------------------------------------------------
\* Once a user has aborted a run, no tool call starts in it or anywhere below it;
\* once it is cancelled, none in it or in what its strategy delegated and all that
\* is below: not in children that waited for their lease, were delegated
\* afterwards, or outlive the run that delegated them (agent-runtime.ts:223-230,
\* execution-context.ts:166-168).  What a cancel does not reach, although
\* agent-runtime.ts:262-267 names "child agents", is what a hook of the run
\* delegated.
Silenced(r) == line[r] \cap ctx # {} \/ (heeds[r] \cup {r}) \cap ctl # {}
Calls(r) == spent'[r] # spent[r] /\ \A d \in Descendants(r) \ {r} : spent'[d] = spent[d]
CancelStopsTree == [][\A r \in Runs : Silenced(r) => ~Calls(r)]_vars

\* The tool calls of a run and of everything it delegated, all levels together,
\* stay within its own limit, although a child is always given at least one and
\* siblings are given shares of what is left at the time: a burst of children
\* "can never outrun the top-level run's budget" (budget-manager.ts:11-14).
TreeWithinBudget == \A r \in Runs : spent[r] <= limit[r]

\* A knot: every lease of a queued run's agent is held by a run that waits for a
\* child, which waits for a lease in the knot, or for a child of its own
\* (agent-runtime.ts:222, delegator.ts:263).  Nothing else keeps a run waiting.
Knotted(r) ==
    \E S \in SUBSET {s \in Runs : phase[s] \in {"queued", "running"}} :
        /\ r \in S
        /\ \A s \in S :
              IF phase[s] = "queued"
              THEN /\ Cardinality(Holders(agent[s])) = MaxConcurrent
                   /\ Holders(agent[s]) \subseteq S
              ELSE awaits[s] \in S

\* What a queued run waits for, and what that waits for in turn, includes a run
\* that is free to go on, or else the run is knotted: no lease is lost or left idle
\* beside a queue, and no run waits for a child that has ended
\* (agent-runtime.ts:222-258, delegator.ts:263).
WaitsFor(s) ==
    IF phase[s] = "queued" THEN Holders(agent[s]) ELSE {awaits[s]} \ {NoRun}
BlockedOnlyInKnots ==
    \A r \in Runs : phase[r] = "queued" =>
        \A S \in SUBSET Runs :
            r \in S /\ (\A s \in S : WaitsFor(s) \subseteq S) =>
                (\E s \in S : Free(s)) \/ Knotted(r)

\* Every queued run is served, or comes to be knotted.
ServedOrKnotted == \A r \in Runs : phase[r] = "queued" ~> Started(r) \/ Knotted(r)
=============================================================================
