----------------------------- MODULE ToolCalls -----------------------------
(***************************************************************************)
(* src/tools/gateway/tool-gateway.ts, DefaultToolGateway.invoke, with the  *)
(* IdempotencyManager of src/tools/idempotency.ts: tool calls that wait    *)
(* for a lease of their tool's gate, run their handler against a timer,    *)
(* and leave a record under their key by which repeated calls are told.    *)
(*                                                                         *)
(* A key stands for a tool with its arguments.  Everything invoke does     *)
(* before its only await is one step, and so is what follows it; the lease *)
(* goes back, in gate.run, before the outcome is recorded.  A timer that   *)
(* fires settles the call and takes the lease back; the handler knows      *)
(* nothing of it and runs on.  The gate is the one of ConcurrencyGate,     *)
(* used in its normal lane: a lease is out for each running call and       *)
(* nobody is queued while one is free.                                     *)
(*                                                                         *)
(* A manager made with a file writes it after each change and reads it     *)
(* when it is made anew (the writes are taken to succeed); one without,    *)
(* the kind the products make, forgets everything with its process.        *)
(* prune() is left out: nothing calls it.                                  *)
(***************************************************************************)
EXTENDS Integers, Sequences, FiniteSets, SequencesExt

CONSTANTS
    Calls,          \* calls of invoke, over all sessions
    Keys,           \* idempotency keys
    Tools,          \* tools, each with a gate of its own
    Nobody,         \* the author of a key without an entry
    KeyOf,          \* the key of a call's tool and arguments
    ToolOf,         \* the tool of a key
    Required,       \* keys of tools whose idempotencyKey is "required"
    MaxConcurrent,  \* maxConcurrent of each gate
    MaxQueueDepth,  \* maxQueueDepth of each gate
    MaxCrashes      \* bound: ends of the process

ASSUME CallsAssumption ==
    /\ IsFiniteSet(Calls) /\ Nobody \notin Calls
    /\ KeyOf \in [Calls -> Keys]
    /\ ToolOf \in [Keys -> Tools]
    /\ Required \subseteq Keys
    /\ MaxConcurrent \in Nat \ {0} /\ MaxQueueDepth \in Nat \ {0}
    /\ MaxCrashes \in Nat

VARIABLES
    call,       \* where each call is, or how it was answered
    queue,      \* calls waiting for a lease of each tool
    executing,  \* calls whose handler runs
    keyed,      \* calls that recorded their key, and complete it
    entries,    \* the manager's entry of each key and who wrote its status
    file,       \* whether the manager has a file
    crashes,    \* ends of the process so far
    started,    \* history: calls whose handler was ever started
    failing,    \* history: keys with a failed attempt
    forgotten   \* history: keys whose record was dropped for its age or lost
                \* with a process

vars == <<call, queue, executing, keyed, entries, file, crashes, started, failing,
          forgotten>>

Live == {"queued", "running", "ok", "failed"}
Answered == {"replay", "done", "error"}
Statuses == {"none", "recorded", "completed", "failed"}
Entry == [status : Statuses, by : Calls \cup {Nobody}]
NoEntry == [status |-> "none", by |-> Nobody]

TypeOK ==
    /\ call \in [Calls -> Live \cup Answered \cup {"idle", "lost"}]
    /\ queue \in [Tools -> Seq(Calls)]
    /\ executing \subseteq Calls
    /\ keyed \subseteq Calls
    /\ entries \in [Keys -> Entry]
    /\ file \in BOOLEAN
    /\ crashes \in 0 .. MaxCrashes
    /\ started \subseteq Calls
    /\ failing \subseteq Keys
    /\ forgotten \subseteq Keys

-----------------------------------------------------------------------------
Init ==
    /\ call = [c \in Calls |-> "idle"]
    /\ queue = [t \in Tools |-> <<>>]
    /\ executing = {}
    /\ keyed = {}
    /\ entries = [k \in Keys |-> NoEntry]
    /\ file \in BOOLEAN
    /\ crashes = 0
    /\ started = {}
    /\ failing = {}
    /\ forgotten = {}

Tool(c) == ToolOf[KeyOf[c]]
LeasesOut(t) == {c \in Calls : call[c] = "running" /\ Tool(c) = t}

manager == <<keyed, entries, failing, forgotten>>
SameSession == UNCHANGED <<crashes, file>>

\* check(): what a key's entry says of a new call.  A recorded entry may be
\* older than the pending TTL; it is then deleted, as if it had never been.
\* Mutant: a completed entry is taken for a new one.
Seen_CompletedIsNew(k) ==
    CASE entries[k].status = "recorded" -> {"recorded", "new"}
      [] entries[k].status \in {"none", "completed"} -> {"new"}
      [] OTHER -> {entries[k].status}
Seen(k) ==
    CASE entries[k].status = "recorded" -> {"recorded", "new"}
      [] entries[k].status = "none" -> {"new"}
      [] OTHER -> {entries[k].status}

Answer(c, how) ==
    /\ call[c] = "idle"
    /\ call' = [call EXCEPT ![c] = how]
    /\ UNCHANGED <<queue, executing, started, manager>> /\ SameSession

\* Stage 5b: the result of the completed entry is the answer.
Replay(c) == "completed" \in Seen(KeyOf[c]) /\ Answer(c, "replay")

Conflict(c) == "recorded" \in Seen(KeyOf[c]) /\ Answer(c, "error")

\* record(): only a key that is required and new gets an entry.  A key whose
\* last attempt failed is run without one; in auto mode none is ever made, so
\* that such a call goes as one without a key, always new.
Record(c, verdict) ==
    IF KeyOf[c] \in Required /\ verdict = "new"
    THEN /\ entries' = [entries EXCEPT ![KeyOf[c]] = [status |-> "recorded", by |-> c]]
         /\ keyed' = keyed \cup {c}
         /\ forgotten' = IF entries[KeyOf[c]].status = "recorded"
                         THEN forgotten \cup {KeyOf[c]} ELSE forgotten
         /\ UNCHANGED failing
    ELSE UNCHANGED manager

\* What a call goes on with when the gate is saturated: acquire throws inside
\* the try, whose catch completes the key.
\* Mutant: acquire is called before the try.
Saturated_Escapes == "error"
Saturated == "failed"

\* Stage 6, gate.acquire: an error, a lease with the handler started, or a
\* place in the queue.
Enter(c) ==
    LET t == Tool(c) IN
    CASE Len(queue[t]) >= MaxQueueDepth ->
            /\ call' = [call EXCEPT ![c] = Saturated]
            /\ UNCHANGED <<queue, executing, started>>
      [] Len(queue[t]) < MaxQueueDepth /\ Cardinality(LeasesOut(t)) < MaxConcurrent ->
            /\ call' = [call EXCEPT ![c] = "running"]
            /\ executing' = executing \cup {c}
            /\ started' = started \cup {c}
            /\ UNCHANGED queue
      [] OTHER ->
            /\ call' = [call EXCEPT ![c] = "queued"]
            /\ queue' = [queue EXCEPT ![t] = Append(@, c)]
            /\ UNCHANGED <<executing, started>>

Admit(c) ==
    /\ call[c] = "idle"
    /\ \E verdict \in Seen(KeyOf[c]) \ {"completed", "recorded"} : Record(c, verdict)
    /\ Enter(c)
    /\ SameSession

-----------------------------------------------------------------------------
\* A running call goes on to its outcome; the finally of gate.run has given its
\* lease to the next waiter of the tool, whose handler starts.  The handlers in
\* "over" have ended.
Release(c, outcome, over) ==
    LET t == Tool(c) IN
    /\ call[c] = "running"
    /\ IF queue[t] = <<>>
       THEN /\ call' = [call EXCEPT ![c] = outcome]
            /\ executing' = executing \ over
            /\ UNCHANGED <<queue, started>>
       ELSE /\ call' = [call EXCEPT ![c] = outcome, ![Head(queue[t])] = "running"]
            /\ executing' = (executing \ over) \cup {Head(queue[t])}
            /\ started' = started \cup {Head(queue[t])}
            /\ queue' = [queue EXCEPT ![t] = Tail(@)]
    /\ UNCHANGED manager /\ SameSession

HandlerEnds(c) == \E outcome \in {"ok", "failed"} : Release(c, outcome, {c})

\* withTimeout: the timer rejects the race and the handler runs on.
\* Mutant: the lease is not given on until the handler ends.
Timeout_LeaseKept(c) ==
    /\ call[c] = "running"
    /\ call' = [call EXCEPT ![c] = "failed"]
    /\ UNCHANGED <<queue, executing, started, manager>> /\ SameSession
Timeout(c) == Release(c, "failed", {})

\* A handler whose call the timer has settled ends at last.
LateEnd(c) ==
    /\ c \in executing /\ call[c] # "running"
    /\ executing' = executing \ {c}
    /\ UNCHANGED <<call, queue, started, manager>> /\ SameSession

\* The run's signal is aborted: a queued call leaves the queue.  A running
\* handler sees the signal too, and ends or does not.
AbortQueued(c) ==
    /\ call[c] = "queued"
    /\ call' = [call EXCEPT ![c] = "failed"]
    /\ \E i \in 1 .. Len(queue[Tool(c)]) :
         /\ queue[Tool(c)][i] = c
         /\ queue' = [queue EXCEPT ![Tool(c)] = RemoveAt(@, i)]
    /\ UNCHANGED <<executing, started, manager>> /\ SameSession

\* The status complete() gives to an entry.
\* Mutant: the failed flag is left out.
Outcome_Unflagged(c) == "completed"
Outcome(c) == IF call[c] = "ok" THEN "completed" ELSE "failed"

\* complete(), by a call that recorded its key: the entry takes the outcome,
\* whoever recorded it last.
Complete(c) ==
    IF c \in keyed /\ entries[KeyOf[c]].status # "none"
    THEN /\ entries' = [entries EXCEPT ![KeyOf[c]] = [status |-> Outcome(c), by |-> c]]
         /\ failing' = IF call[c] = "failed" THEN failing \cup {KeyOf[c]} ELSE failing
         /\ UNCHANGED <<keyed, forgotten>>
    ELSE UNCHANGED manager

\* invoke answers.
Settle(c) ==
    /\ call[c] \in {"ok", "failed"}
    /\ Complete(c)
    /\ call' = [call EXCEPT ![c] = IF @ = "ok" THEN "done" ELSE "error"]
    /\ UNCHANGED <<queue, executing, started>> /\ SameSession

\* persist() and load(): the new process does not know who recorded what.
Loaded(e) == IF e.status = "recorded" THEN [e EXCEPT !.by = Nobody] ELSE e

\* The process ends; the next one starts with what the file kept.
Crash ==
    /\ crashes < MaxCrashes
    /\ crashes' = crashes + 1
    /\ call' = [c \in Calls |-> IF call[c] \in Live THEN "lost" ELSE call[c]]
    /\ queue' = [t \in Tools |-> <<>>]
    /\ executing' = {}
    /\ entries' = [k \in Keys |-> IF file THEN Loaded(entries[k]) ELSE NoEntry]
    /\ forgotten' = IF file THEN forgotten
                    ELSE forgotten \cup {k \in Keys : entries[k] # NoEntry}
    /\ keyed' = {}
    /\ UNCHANGED <<file, started, failing>>

CallStep(c) ==
    \/ Replay(c) \/ Conflict(c) \/ Admit(c)
    \/ HandlerEnds(c) \/ Timeout(c) \/ LateEnd(c)
    \/ AbortQueued(c) \/ Settle(c)

Next == Crash \/ \E c \in Calls : CallStep(c)

\* Timers fire and continuations run; a handler owes nothing.
Fairness == \A c \in Calls : WF_vars(Timeout(c)) /\ WF_vars(Settle(c))

Spec == Init /\ [][Next]_vars /\ Fairness

-----------------------------------------------------------------------------
\* A mutation with a required key is executed at most once, over timeouts,
\* queues, repeated calls and restarts, as long as no attempt of it failed, none
\* was given up for its age and no record of it was lost: the purpose of
\* idempotency.ts:4-11.
RunsOnceUntilFailure ==
    \A c, d \in started :
        KeyOf[c] = KeyOf[d] /\ KeyOf[c] \in Required \ (failing \cup forgotten) => c = d

\* The result a later call is answered with was returned by a call of the same
\* key whose handler completed in time (idempotency.ts:101, tool-gateway.ts:374),
\* also when late completions and expired records overlap.
ReplayIsReal ==
    \A k \in Keys : entries[k].status = "completed" =>
        /\ KeyOf[entries[k].by] = k
        /\ call[entries[k].by] = "done"

\* A key that refuses its calls as being in flight (tool-gateway.ts:379) has its
\* recorder still on the way, or got the record from an earlier process: no way
\* out of invoke (a full gate, an abort in the queue, a throw, a timeout) leaves
\* a key blocked.
NoOrphanKeys ==
    \A k \in Keys : entries[k].status = "recorded" =>
        entries[k].by = Nobody \/ call[entries[k].by] \in Live

\* Every call is answered while its process lives, whatever the handlers do:
\* those that never return are cut off by the timer and give their lease on.
EveryCallAnswers ==
    \A c \in Calls : call[c] \in Live ~> call[c] \in Answered \cup {"lost"}

\* What a tool's gate gives out to invoke is a pool of leases, whichever way the
\* calls leave it: a timer that fires hands the lease on at once, an abort gives up
\* a place, and none is left over while a call waits (tool-gateway.ts:404,
\* 447-456).  Only the end of the process takes them all.
Waiters(t) == {c \in Calls : call[c] = "queued" /\ Tool(c) = t}
Pool(t) ==
    INSTANCE LeasePool WITH Callers <- Calls, Limit <- MaxConcurrent,
                            holding <- LeasesOut(t), waiting <- Waiters(t)
GatesAreLeasePools ==
    [][Crash \/ \A t \in Tools : [Pool(t)!Next]_<<LeasesOut(t), Waiters(t)>>]_vars

\* idempotency.ts:10-11: a prior attempt "in flight/unfinished" makes the gateway
\* refuse "a second concurrent execution of the same key".  The code breaks it: a
\* failed attempt, one cut off by the timer while its handler runs on included,
\* lets every later call of the key run, recorded by none of them.
OneExecutionAtATime ==
    \A c, d \in executing :
        KeyOf[c] = KeyOf[d] /\ KeyOf[c] \in Required \ forgotten => c = d
=============================================================================
