--------------------------- MODULE LanguageServers ---------------------------
(***************************************************************************)
(* The pool of language servers of src/lsp: LspPool (pool.ts) keeps at     *)
(* most one session per language for LspManager (manager.ts); a session    *)
(* (session.ts) owns a server process that it starts, initializes and shuts *)
(* down (client.ts).                                                       *)
(*                                                                         *)
(* An acquire awaits the stop of the session it evicts and the start of its *)
(* own, and a stop and a start await an answer of the server or the timeout *)
(* of the request: each is a step, and so is what runs between two awaits. *)
(* Of the documents of a session it matters only whether any is open; of   *)
(* times, nothing: any session without documents may be the oldest one, or *)
(* idle.                                                                   *)
(***************************************************************************)
EXTENDS Naturals, FiniteSets

CONSTANTS
    Keys,        \* languages of the workspace
    Callers,     \* acquires under way at a time
    MaxServers,  \* maxServers of the configuration
    MaxStarts    \* bound: sessions ever made

ASSUME ServersAssumption ==
    /\ Keys # {} /\ IsFiniteSet(Callers)
    /\ MaxServers \in Nat \ {0} /\ MaxStarts \in Nat

Servers == 1..MaxStarts
None == 0

VARIABLES
    pool,      \* the session of each language, or None
    made,      \* sessions made so far: the last one
    of,        \* the language of each session
    status,    \* its status, "none" before it is made
    alive,     \* sessions whose process runs
    stopping,  \* sessions that a stop() waits for
    docs,      \* sessions with open documents
    call,      \* acquires: stage, language, session waited for
    closing,   \* stopAll: not called, at work, done
    last,      \* the session that stopAll waits for, or None
    shared     \* history: languages of which two acquires were under way at once

sessions == <<pool, made, of, status>>
vars == <<sessions, alive, stopping, docs, call, closing, last, shared>>

Stages == {"idle", "evicting", "starting"}
Some == CHOOSE k \in Keys : TRUE
Idle == [stage |-> "idle", key |-> Some, server |-> None]

TypeOK ==
    /\ pool \in [Keys -> Servers \cup {None}]
    /\ made \in 0..MaxStarts
    /\ of \in [Servers -> Keys]
    /\ status \in [Servers -> {"none", "starting", "running", "stopped", "error"}]
    /\ alive \subseteq Servers /\ stopping \subseteq Servers /\ docs \subseteq Servers
    /\ call \in [Callers -> [stage : Stages, key : Keys, server : Servers \cup {None}]]
    /\ closing \in {"no", "yes", "done"}
    /\ last \in Servers \cup {None}
    /\ shared \subseteq Keys

Init ==
    /\ pool = [k \in Keys |-> None] /\ made = 0
    /\ of = [s \in Servers |-> Some]
    /\ status = [s \in Servers |-> "none"]
    /\ alive = {} /\ stopping = {} /\ docs = {}
    /\ call = [c \in Callers |-> Idle]
    /\ closing = "no" /\ last = None
    /\ shared = {}

-----------------------------------------------------------------------------
Pooled(p) == {p[k] : k \in Keys} \ {None}
Without(p, s) == [k \in Keys |-> IF p[k] = s THEN None ELSE p[k]]
Has(k, st) == \E s \in Servers : pool[k] = s /\ status[s] = st

\* A caller that has its session may open a document in it.
Opens(s) == docs' = docs \/ docs' = docs \cup {s}

\* stop(), up to its await.
BeginStop(s) ==
    /\ status' = [status EXCEPT ![s] = "stopped"]
    /\ stopping' = stopping \cup {s}
    /\ docs' = docs \ {s}

\* The session is made and entered in the pool, over any other, and its server
\* is spawned.
Create(c, k, p) ==
    LET s == made + 1 IN
    /\ made' = s
    /\ pool' = [p EXCEPT ![k] = s]
    /\ of' = [of EXCEPT ![s] = k]
    /\ status' = [status EXCEPT ![s] = "starting"]
    /\ alive' = alive \cup {s}
    /\ call' = [call EXCEPT ![c] = [stage |-> "starting", key |-> k, server |-> s]]
    /\ UNCHANGED <<stopping, docs>>

\* evictOne().
\* Mutant: open documents are not looked at.
Evictable_Any(p) == {s \in Pooled(p) : status[s] # "starting"}
Evictable(p) == {s \in Pooled(p) : s \notin docs /\ status[s] # "starting"}

Evict(c, k, p) ==
    /\ \/ \E s \in Evictable(p) :
             /\ pool' = Without(p, s)
             /\ BeginStop(s)
             /\ call' = [call EXCEPT ![c] = [stage |-> "evicting", key |-> k, server |-> s]]
       \/ /\ Evictable(p) = {}
          /\ pool' = p
          /\ call' = [call EXCEPT ![c] = [stage |-> "evicting", key |-> k, server |-> None]]
          /\ UNCHANGED <<status, stopping, docs>>
    /\ UNCHANGED <<made, of, alive>>

\* acquire(): the running session of the language is given out at once.
Reuse(c, k) ==
    /\ call[c].stage = "idle"
    /\ Has(k, "running")
    /\ Opens(pool[k])
    /\ UNCHANGED <<sessions, alive, stopping, call, closing, last, shared>>

\* Else one that failed is dropped, and one that is starting is not looked at: a
\* new one is made, after an eviction when the pool is full.
Evicting == {c \in Callers : call[c].stage = "evicting"}
Acquire(c, k) ==
    LET p == IF Has(k, "error") THEN Without(pool, pool[k]) ELSE pool IN
    /\ call[c].stage = "idle"
    /\ ~Has(k, "running")
    /\ made + Cardinality(Evicting) < MaxStarts
    /\ IF Cardinality(Pooled(p)) >= MaxServers THEN Evict(c, k, p) ELSE Create(c, k, p)
    /\ shared' = shared \cup {x \in {k} : \E d \in Callers \ {c} :
                                              call[d].stage # "idle" /\ call[d].key = k}
    /\ UNCHANGED <<closing, last>>

\* The eviction is over; the pool is not looked at again.
Proceed(c) ==
    /\ call[c].stage = "evicting"
    /\ call[c].server \notin stopping
    /\ Create(c, call[c].key, pool)
    /\ UNCHANGED <<closing, last, shared>>

\* initialize is answered; an answer that was sent is read after exit() too.  The
\* status is set whatever it is by now.  A session whose stop() is over has no
\* client, and opens nothing.
Started(c) ==
    LET s == call[c].server IN
    /\ call[c].stage = "starting"
    /\ status' = [status EXCEPT ![s] = "running"]
    /\ call' = [call EXCEPT ![c] = Idle]
    /\ IF s \in alive THEN Opens(s) ELSE UNCHANGED docs
    /\ UNCHANGED <<pool, made, of, alive, stopping, closing, last, shared>>

\* start() throws: there is no such program, the server exits, answers with an
\* error or does not answer in time.  The pool forgets the language, and nothing stops a
\* process that still runs.
\* Mutant: only the server itself can end its start, and no timeout.
Ended_NoTimeout(c) == call[c].server \in alive \/ status[call[c].server] # "stopped"
Ended(c) == TRUE
StartFails(c) ==
    /\ call[c].stage = "starting" /\ Ended(c)
    /\ status' = [status EXCEPT ![call[c].server] = "error"]
    /\ pool' = [pool EXCEPT ![call[c].key] = None]
    /\ alive' = alive \/ alive' = alive \ {call[c].server}
    /\ call' = [call EXCEPT ![c] = Idle]
    /\ UNCHANGED <<made, of, stopping, docs, closing, last, shared>>

\* The end of stop(): the shutdown request is answered, fails or times out, and
\* the client makes the process exit.
\* Mutant: exit() is forgotten.
Exits_Not(s) == UNCHANGED alive
Exits(s) == alive' = alive \ {s}
StopEnds(s) ==
    /\ s \in stopping
    /\ stopping' = stopping \ {s}
    /\ Exits(s)
    /\ UNCHANGED <<sessions, docs, call, closing, last, shared>>

\* The process exits by itself after its start.
Crash(s) ==
    /\ s \in alive
    /\ \A c \in Callers : call[c].stage = "starting" => call[c].server # s
    /\ alive' = alive \ {s}
    /\ status' = [status EXCEPT ![s] = IF @ = "stopped" THEN @ ELSE "error"]
    /\ UNCHANGED <<pool, made, of, stopping, docs, call, closing, last, shared>>

\* release(), and one session of the idle sweep.
Removes(k) ==
    /\ pool' = [pool EXCEPT ![k] = None]
    /\ BeginStop(pool[k])
    /\ UNCHANGED <<made, of, alive, call, shared>>
Release(k) ==
    /\ pool[k] # None
    /\ Removes(k)
    /\ UNCHANGED <<closing, last>>
Sweep(k) ==
    /\ Has(k, "running") /\ pool[k] \notin docs
    /\ Removes(k)
    /\ UNCHANGED <<closing, last>>

\* stopAll(): one session after the other, those that come meanwhile too.
StopAll(k) ==
    /\ closing # "done" /\ last \notin stopping
    /\ pool[k] # None
    /\ Removes(k)
    /\ closing' = "yes" /\ last' = pool[k]
StopAllEnds ==
    /\ closing # "done" /\ last \notin stopping
    /\ Pooled(pool) = {}
    /\ closing' = "done" /\ last' = None
    /\ UNCHANGED <<sessions, alive, stopping, docs, call, shared>>

\* notifyClose() of the last open document.
CloseDocument(k) ==
    /\ pool[k] \in docs /\ Has(k, "running")
    /\ docs' = docs \ {pool[k]}
    /\ UNCHANGED <<sessions, alive, stopping, call, closing, last, shared>>

Next ==
    \/ \E c \in Callers, k \in Keys : Reuse(c, k) \/ Acquire(c, k)
    \/ \E c \in Callers : Proceed(c) \/ Started(c) \/ StartFails(c)
    \/ \E s \in Servers : StopEnds(s) \/ Crash(s)
    \/ \E k \in Keys : Release(k) \/ Sweep(k) \/ StopAll(k) \/ CloseDocument(k)
    \/ StopAllEnds

\* A request that is not answered times out (client.ts:143-149), and who awaits it
\* goes on.  No server is trusted to answer.
Fairness ==
    /\ \A c \in Callers : WF_vars(Proceed(c)) /\ WF_vars(StartFails(c))
    /\ \A s \in Servers : WF_vars(StopEnds(s))

Spec == Init /\ [][Next]_vars /\ Fairness

-----------------------------------------------------------------------------
\* A server process that no session of the pool owns is on its way out: nothing
\* else ever stops it.  There are two exceptions, that of a start that failed while
\* its process ran on (pool.ts:43-45), and that of a language acquired twice at
\* once, where a session is replaced, or dropped by the failure of another
\* (pool.ts:37-44).
NoStrayServer ==
    \A s \in alive :
        s \in Pooled(pool) \cup stopping \/ status[s] = "error" \/ of[s] \in shared

\* The pool parts with a running session that has open documents only when it is
\* told to: an eviction (pool.ts:132-142) or an idle sweep (pool.ts:120-121) never
\* takes it, and an acquire that waited for its own eviction replaces it only if
\* the language was acquired twice at once.
DocumentsKept ==
    [][\A k \in Keys :
        LET s == pool[k] IN
        s \in docs /\ Has(k, "running") /\ s \notin Pooled(pool') =>
            k \in shared \/ Release(k) \/ StopAll(k)]_vars

\* Every acquire ends, though the session it waits for may be stopped, replaced or
\* crash before it is up (pool.ts:33-50).
AcquiresEnd == \A c \in Callers : call[c].stage # "idle" ~> call[c].stage = "idle"
=============================================================================
