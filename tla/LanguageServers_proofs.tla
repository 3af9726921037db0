----------------------- MODULE LanguageServers_proofs -----------------------
(***************************************************************************)
(* The pool of language servers, for any languages, any number of callers  *)
(* and sessions: every process is owned by the pool or on its way out, and *)
(* documents are closed on request only, for a language that is acquired   *)
(* by one caller at a time.                                                *)
(***************************************************************************)
EXTENDS LanguageServers, FiniteSetTheorems, TLAPS

\* A session that is still to be made has no process, and there is room for the
\* one that each eviction makes way for.
Made ==
    /\ \A s \in alive : s <= made
    /\ made + Cardinality(Evicting) <= MaxStarts

\* The pool holds a session under its language and until its stop only; one that
\* starts is waited for by the caller that made it.
PooledSessions ==
    \A k \in Keys : pool[k] # None =>
        /\ pool[k] <= made
        /\ of[pool[k]] = k
        /\ status[pool[k]] \in {"starting", "running", "error"}
        /\ status[pool[k]] = "starting" =>
              \E c \in Callers : call[c].stage = "starting" /\ call[c].server = pool[k]

\* What a caller awaits: the start of a session that nobody else waits for, which
\* may have been stopped meanwhile, but has not ended.
Awaited ==
    /\ \A c \in Callers : call[c].stage = "starting" =>
          /\ call[c].server \in 1..made
          /\ of[call[c].server] = call[c].key
          /\ status[call[c].server] \in {"starting", "stopped"}
    /\ \A c, d \in Callers :
          call[c].stage = "starting" /\ call[d].stage = "starting" =>
              c = d \/ call[c].server # call[d].server

\* A language is shared as soon as two acquires of it are under way; until then
\* its place in the pool is that of the only one.
Alone ==
    /\ \A c, d \in Callers :
          c # d /\ call[c].stage # "idle" /\ call[d].stage # "idle" =>
              call[c].key # call[d].key \/ call[c].key \in shared
    /\ \A c \in Callers : call[c].key \notin shared =>
          /\ call[c].stage = "evicting" => pool[call[c].key] = None
          /\ call[c].stage = "starting" =>
                pool[call[c].key] \in {None, call[c].server}

Inv == TypeOK /\ Made /\ PooledSessions /\ Awaited /\ Alone /\ NoStrayServer
-----------------------------------------------------------------------------
(* Facts about the operators *)

\* How many evictions are under way, before and after a caller moves.
LEMMA EvictingCount ==
    /\ IsFiniteSet(Evicting) /\ Cardinality(Evicting) \in Nat
    /\ \A c \in Callers :
          /\ IsFiniteSet(Evicting \cup {c})
          /\ c \notin Evicting =>
                Cardinality(Evicting \cup {c}) = Cardinality(Evicting) + 1
          /\ c \in Evicting =>
                Cardinality(Evicting \ {c}) = Cardinality(Evicting) - 1
<1>1. IsFiniteSet(Evicting)
  BY ServersAssumption, FS_Subset DEF Evicting
<1> QED BY <1>1, FS_CardinalityType, FS_AddElement, FS_RemoveElement

\* A session has one place in the pool, so that taking it out by its language or
\* by itself is the same.
LEMMA OnePlace ==
    ASSUME TypeOK, PooledSessions
    PROVE  /\ \A k, m \in Keys : pool[k] = pool[m] /\ pool[k] # None => k = m
           /\ \A k \in Keys : Without(pool, pool[k]) = [pool EXCEPT ![k] = None]
<1>1. \A k, m \in Keys : pool[k] = pool[m] /\ pool[k] # None => k = m
  BY DEF PooledSessions
<1> QED BY <1>1 DEF Without, TypeOK

-----------------------------------------------------------------------------
(* The steps that several actions share *)

\* A new session: its place was free, but for a language that is shared, or held
\* by a session that failed.
LEMMA CreateStep ==
    ASSUME Inv, NEW c \in Callers, NEW k \in Keys,
           NEW p \in [Keys -> Servers \cup {None}],
           \A m \in Keys : p[m] = pool[m] \/ (p[m] = None /\ status[pool[m]] = "error"),
           p[k] = None \/ k \in shared',
           call[c].stage # "starting",
           made < MaxStarts, made' + Cardinality(Evicting') <= MaxStarts,
           shared \subseteq shared', shared' \subseteq Keys,
           \A d \in Callers \ {c} :
               call[d].stage # "idle" /\ call[d].key = k => k \in shared',
           Create(c, k, p), UNCHANGED <<closing, last>>
    PROVE  Inv'
<1> USE DEF None
<1>0. made \in Nat /\ made + 1 \in Servers /\ \A s \in Servers : s \in Nat \ {0}
  BY ServersAssumption DEF Inv, TypeOK, Servers
<1>1. TypeOK'
  BY ServersAssumption, <1>0 DEF Inv, TypeOK, Create, Stages, Servers
<1>2. Made'
  BY <1>0, <1>1 DEF Inv, Made, TypeOK, Create
<1>3. PooledSessions'
  <2> SUFFICES ASSUME NEW m \in Keys, pool'[m] # None
               PROVE  /\ pool'[m] <= made'
                      /\ of'[pool'[m]] = m
                      /\ status'[pool'[m]] \in {"starting", "running", "error"}
                      /\ status'[pool'[m]] = "starting" =>
                            \E d \in Callers : /\ call'[d].stage = "starting"
                                               /\ call'[d].server = pool'[m]
    BY DEF PooledSessions
  <2>1. CASE m = k
    <3>1. pool'[m] = made + 1 /\ made' = made + 1 /\ of'[made + 1] = m
      BY <1>0, <2>1 DEF Inv, TypeOK, Create
    <3>2. /\ status'[made + 1] = "starting"
          /\ call'[c].stage = "starting" /\ call'[c].server = made + 1
      BY <1>0 DEF Inv, TypeOK, Create
    <3> QED BY <3>1, <3>2 DEF Inv, TypeOK
  <2>2. CASE m # k
    <3>1. pool'[m] = pool[m] /\ pool[m] # None
      BY <2>2 DEF Inv, TypeOK, Create
    <3>2. pool[m] <= made /\ of'[pool[m]] = of[pool[m]] /\ status'[pool[m]] = status[pool[m]]
      BY <3>1 DEF Inv, TypeOK, Create, PooledSessions
    <3>3. \A d \in Callers : call[d].stage = "starting" => call'[d] = call[d]
      BY <1>0 DEF Inv, TypeOK, Create
    <3> QED BY <3>1, <3>2, <3>3, <1>0 DEF Inv, PooledSessions, Create
  <2> QED BY <2>1, <2>2
<1>4. Awaited'
  <2>1. /\ call'[c].server = made + 1 /\ call'[c].key = k /\ made' = made + 1
        /\ of'[made + 1] = k /\ status'[made + 1] = "starting"
    BY <1>0 DEF Inv, TypeOK, Create
  <2>2. \A d \in Callers : d # c => call'[d] = call[d]
    BY <1>0 DEF Inv, TypeOK, Create
  <2>3. \A s \in 1..made : of'[s] = of[s] /\ status'[s] = status[s]
    BY <1>0 DEF Inv, TypeOK, Create, Servers
  <2> QED BY <1>0, <2>1, <2>2, <2>3 DEF Inv, Awaited
<1>5. Alone'
  BY DEF Inv, TypeOK, Create, Alone
<1>6. NoStrayServer'
  <2> SUFFICES ASSUME NEW s \in alive'
               PROVE  \/ s \in Pooled(pool') \cup stopping'
                      \/ status'[s] = "error" \/ of'[s] \in shared'
    BY DEF NoStrayServer
  <2>1. CASE s = made + 1
    BY <2>1 DEF Inv, TypeOK, Create, Pooled
  <2>2. CASE s # made + 1
    <3>1. s \in alive /\ s \in Servers /\ status'[s] = status[s] /\ of'[s] = of[s]
      BY <2>2 DEF Inv, TypeOK, Create
    <3>2. CASE s \in Pooled(pool)
      <4>1. PICK m \in Keys : pool[m] = s
        BY <3>2 DEF Pooled
      <4>2. CASE p[m] # s
        BY <4>1, <4>2, <3>1
      <4>3. CASE p[m] = s /\ m # k
        <5>1. pool'[m] = s
          BY <4>3 DEF Create
        <5> QED BY <5>1, <3>1, <1>0 DEF Pooled
      <4>4. CASE p[m] = s /\ m = k
        BY <1>0, <4>1, <4>4, <3>1 DEF Inv, PooledSessions
      <4> QED BY <4>2, <4>3, <4>4
    <3> QED BY <3>1, <3>2 DEF Inv, NoStrayServer, Create
  <2> QED BY <2>1, <2>2
<1> QED BY <1>1, <1>2, <1>3, <1>4, <1>5, <1>6 DEF Inv

\* release(), a sweep, stopAll() and an eviction: a session leaves the pool as it
\* begins to stop.
LEMMA RemoveStep ==
    ASSUME Inv, NEW k \in Keys, pool[k] # None,
           pool' = [pool EXCEPT ![k] = None], BeginStop(pool[k]),
           UNCHANGED <<made, of, alive, call, shared>>,
           closing' \in {"no", "yes", "done"}, last' \in Servers \cup {None}
    PROVE  Inv'
<1> USE DEF Servers, None
<1>1. TypeOK'
  BY DEF Inv, TypeOK, BeginStop
<1>2. Made'
  BY DEF Inv, Made, Evicting
<1>3. PooledSessions'
  BY OnePlace DEF Inv, TypeOK, PooledSessions, BeginStop
<1>4. Awaited'
  BY DEF Inv, TypeOK, Awaited, BeginStop
<1>5. Alone'
  BY DEF Inv, TypeOK, Alone
<1>6. NoStrayServer'
  <2>1. \A s \in Pooled(pool) : s \in Pooled(pool') \/ s = pool[k]
    BY DEF Inv, TypeOK, Pooled
  <2>2. \A s \in Servers : s # pool[k] => status'[s] = status[s]
    BY DEF Inv, TypeOK, BeginStop
  <2> QED BY <2>1, <2>2 DEF Inv, TypeOK, NoStrayServer, BeginStop
<1> QED BY <1>1, <1>2, <1>3, <1>4, <1>5, <1>6 DEF Inv
\* acquire(): what its two ways find in the pool, once a failed session of the
\* language is dropped.
LEMMA AcquireFacts ==
    ASSUME Inv, NEW c \in Callers, NEW k \in Keys, Acquire(c, k),
           NEW p, p = IF Has(k, "error") THEN Without(pool, pool[k]) ELSE pool
    PROVE  /\ p \in [Keys -> Servers \cup {None}]
           /\ \A m \in Keys : p[m] = pool[m] \/ (p[m] = None /\ status[pool[m]] = "error")
           /\ p[k] = None \/ k \in shared'
           /\ shared \subseteq shared' /\ shared' \subseteq Keys
           /\ \A d \in Callers \ {c} :
                  call[d].stage # "idle" /\ call[d].key = k => k \in shared'
<1> USE DEF None
<1>1. /\ shared \subseteq shared' /\ shared' \subseteq Keys
      /\ \A d \in Callers \ {c} :
             call[d].stage # "idle" /\ call[d].key = k => k \in shared'
  BY DEF Acquire, Inv, TypeOK
<1>2. /\ p \in [Keys -> Servers \cup {None}]
      /\ \A m \in Keys : p[m] = pool[m] \/ (p[m] = None /\ status[pool[m]] = "error")
  <2>1. CASE Has(k, "error")
    <3>1. p = [pool EXCEPT ![k] = None] /\ status[pool[k]] = "error"
      BY <2>1, OnePlace DEF Inv, Has
    <3> QED BY <3>1 DEF Inv, TypeOK
  <2>2. CASE ~Has(k, "error")
    BY <2>2 DEF Inv, TypeOK
  <2> QED BY <2>1, <2>2
<1>3. ASSUME p[k] # None PROVE k \in shared'
  <2>1. pool[k] # None /\ pool[k] \in Servers /\ status[pool[k]] \notin {"running", "error"}
    BY <1>3, OnePlace DEF Inv, TypeOK, Acquire, Has
  <2>2. PICK d \in Callers : call[d].stage = "starting" /\ call[d].server = pool[k]
    BY <2>1 DEF Inv, PooledSessions
  <2>3. call[d].key = k /\ d # c
    BY <2>1, <2>2 DEF Inv, PooledSessions, Awaited, Acquire
  <2> QED BY <1>1, <2>2, <2>3
<1> QED BY <1>1, <1>2, <1>3

LEMMA AcquireStep ==
    ASSUME Inv, NEW c \in Callers, NEW k \in Keys, Acquire(c, k)
    PROVE  Inv'
<1> DEFINE p == IF Has(k, "error") THEN Without(pool, pool[k]) ELSE pool
<1>1. /\ p \in [Keys -> Servers \cup {None}]
      /\ \A m \in Keys : p[m] = pool[m] \/ (p[m] = None /\ status[pool[m]] = "error")
      /\ p[k] = None \/ k \in shared'
      /\ shared \subseteq shared' /\ shared' \subseteq Keys
      /\ \A d \in Callers \ {c} :
             call[d].stage # "idle" /\ call[d].key = k => k \in shared'
  BY AcquireFacts
<1>2. /\ call[c].stage = "idle" /\ made + Cardinality(Evicting) < MaxStarts
      /\ UNCHANGED <<closing, last>>
      /\ Create(c, k, p) \/ Evict(c, k, p)
  BY DEF Acquire
<1> HIDE DEF p
<1>3. /\ made \in Nat /\ MaxStarts \in Nat /\ Cardinality(Evicting) \in Nat
      /\ Cardinality(Evicting \cup {c}) = Cardinality(Evicting) + 1
      /\ \A s \in Servers : s # None
  <2>1. c \notin Evicting
    BY <1>2 DEF Evicting
  <2>2. /\ Cardinality(Evicting) \in Nat
        /\ Cardinality(Evicting \cup {c}) = Cardinality(Evicting) + 1
    BY <2>1, EvictingCount
  <2> QED BY <2>2, ServersAssumption DEF Inv, TypeOK, Servers, None
<1>4. CASE Create(c, k, p)
  <2>1. Evicting' = Evicting
    BY <1>2, <1>4 DEF Inv, TypeOK, Create, Evicting
  <2>2. made < MaxStarts /\ made' + Cardinality(Evicting') <= MaxStarts
    BY <1>2, <1>3, <1>4, <2>1 DEF Create
  <2> QED BY <1>1, <1>2, <1>4, <2>2, CreateStep
<1>5. CASE Evict(c, k, p)
  <2>1. /\ UNCHANGED <<made, of, alive, closing, last>>
        /\ call'[c].stage = "evicting" /\ call'[c].key = k
        /\ \A d \in Callers \ {c} : call'[d] = call[d]
        /\ call' \in [Callers -> [stage : Stages, key : Keys, server : Servers \cup {None}]]
    BY <1>1, <1>2, <1>5 DEF Inv, TypeOK, Evict, Evictable, Pooled, Stages
  <2>2. /\ pool' \in [Keys -> Servers \cup {None}]
        /\ \A m \in Keys : pool'[m] = p[m] \/ pool'[m] = None
        /\ \A m \in Keys : p[m] # None /\ pool'[m] = None =>
               p[m] \in stopping'
    BY <1>1, <1>5 DEF Evict, Without, BeginStop, None
  <2>3. /\ status' \in [Servers -> {"none", "starting", "running", "stopped", "error"}]
        /\ stopping \subseteq stopping' /\ stopping' \subseteq Servers
        /\ docs' \subseteq Servers
        /\ \A s \in Servers :
               \/ status'[s] = status[s]
               \/ /\ status'[s] = "stopped" /\ status[s] # "starting"
                  /\ s \in stopping' /\ \A m \in Keys : pool'[m] # s
    BY <1>1, <1>3, <1>5 DEF Evict, Evictable, Pooled, Without, BeginStop, Inv, TypeOK
  <2>4. TypeOK'
    BY <1>1, <1>2, <2>1, <2>2, <2>3 DEF Inv, TypeOK
  <2>5. Made'
    <3>1. Evicting' = Evicting \cup {c}
      BY <2>1 DEF Evicting
    <3> QED BY <1>2, <1>3, <2>1, <3>1 DEF Inv, Made
  <2>6. PooledSessions'
    <3> SUFFICES ASSUME NEW m \in Keys, pool'[m] # None
                 PROVE  /\ pool'[m] <= made'
                        /\ of'[pool'[m]] = m
                        /\ status'[pool'[m]] \in {"starting", "running", "error"}
                        /\ status'[pool'[m]] = "starting" =>
                              \E d \in Callers : /\ call'[d].stage = "starting"
                                                 /\ call'[d].server = pool'[m]
      BY DEF PooledSessions
    <3>1. pool'[m] = pool[m] /\ pool[m] \in Servers /\ status'[pool[m]] = status[pool[m]]
      BY <1>1, <2>2, <2>3
    <3>2. \A d \in Callers : call[d].stage = "starting" => call'[d] = call[d]
      BY <1>2, <2>1
    <3> QED BY <2>1, <3>1, <3>2 DEF Inv, PooledSessions
  <2>7. Awaited'
    <3>1. \A s \in 1..made : s \in Servers
      BY ServersAssumption DEF Inv, TypeOK, Servers
    <3>2. \A d \in Callers : call'[d].stage = "starting" => call'[d] = call[d]
      BY <2>1
    <3>3. ASSUME NEW d \in Callers, call'[d].stage = "starting"
          PROVE  /\ call'[d].server \in 1..made'
                 /\ of'[call'[d].server] = call'[d].key
                 /\ status'[call'[d].server] \in {"starting", "stopped"}
      BY <2>1, <2>3, <3>1, <3>2, <3>3 DEF Inv, Awaited
    <3> QED BY <3>2, <3>3 DEF Inv, Awaited
  <2>8. Alone'
    <3>1. \A m \in Keys : m \notin shared' => m \notin shared /\ pool'[m] \in {pool[m], None}
      BY <1>1, <2>2
    <3>2. k \notin shared' => pool'[k] = None
      BY <1>1, <2>2
    <3>3. ASSUME NEW d \in Callers, NEW e \in Callers, d # e,
                 call'[d].stage # "idle", call'[e].stage # "idle", call'[d].key = call'[e].key
          PROVE  call'[d].key \in shared'
      BY <1>1, <2>1, <3>3 DEF Inv, Alone
    <3>4. ASSUME NEW d \in Callers, call'[d].key \notin shared'
          PROVE  /\ call'[d].stage = "evicting" => pool'[call'[d].key] = None
                 /\ call'[d].stage = "starting" =>
                       pool'[call'[d].key] \in {None, call'[d].server}
      <4>1. CASE d = c
        BY <2>1, <3>2, <3>4, <4>1
      <4>2. CASE d # c
        <5>1. call'[d] = call[d] /\ call[d].key \in Keys
          BY <2>1, <4>2 DEF Inv, TypeOK
        <5> QED BY <3>1, <3>4, <5>1 DEF Inv, Alone
      <4> QED BY <4>1, <4>2
    <3> QED BY <3>3, <3>4 DEF Alone
  <2>9. NoStrayServer'
    <3>1. \A s \in Pooled(pool) :
             s \in Pooled(pool') \/ s \in stopping' \/ status[s] = "error"
      BY <1>1, <2>2 DEF Pooled
    <3> QED BY <1>1, <2>1, <2>3, <3>1 DEF Inv, TypeOK, NoStrayServer
  <2> QED BY <2>4, <2>5, <2>6, <2>7, <2>8, <2>9 DEF Inv
<1> QED BY <1>2, <1>4, <1>5

LEMMA ProceedStep ==
    ASSUME Inv, NEW c \in Callers, Proceed(c)
    PROVE  Inv'
<1> DEFINE k == call[c].key
<1>1. /\ call[c].stage = "evicting" /\ k \in Keys /\ Create(c, k, pool)
      /\ UNCHANGED <<closing, last, shared>>
  BY DEF Proceed, Inv, TypeOK
<1>2. pool[k] = None \/ k \in shared
  BY <1>1 DEF Inv, Alone
<1>3. \A d \in Callers \ {c} : call[d].stage # "idle" /\ call[d].key = k => k \in shared
  BY <1>1 DEF Inv, Alone
<1>4. Evicting' = Evicting \ {c} /\ c \in Evicting
  BY <1>1 DEF Inv, TypeOK, Create, Evicting
<1>5. made < MaxStarts /\ made' + Cardinality(Evicting') <= MaxStarts
  <2>1. Cardinality(Evicting) \in Nat /\ Cardinality(Evicting') = Cardinality(Evicting) - 1
    BY <1>4, EvictingCount
  <2>2. IsFiniteSet(Evicting') /\ Cardinality(Evicting') \in Nat
    BY <1>4, EvictingCount, FS_Subset, FS_CardinalityType
  <2> QED BY <1>1, <2>1, <2>2, ServersAssumption DEF Inv, TypeOK, Made, Create
<1>6. pool \in [Keys -> Servers \cup {None}] /\ shared \subseteq Keys
  BY DEF Inv, TypeOK
<1> HIDE DEF k
<1> QED BY <1>1, <1>2, <1>3, <1>5, <1>6, CreateStep
\* A start ends: the session runs, or failed, whatever became of it in between.
LEMMA StartEndsStep ==
    ASSUME Inv, NEW c \in Callers, Started(c) \/ StartFails(c)
    PROVE  Inv'
<1> USE DEF None
<1> DEFINE s == call[c].server
           k == call[c].key
<1>1. /\ call[c].stage = "starting" /\ s \in 1..made /\ s \in Servers /\ k \in Keys
      /\ of[s] = k /\ status[s] \in {"starting", "stopped"}
      /\ k \notin shared => pool[k] \in {None, s}
  BY ServersAssumption DEF Started, StartFails, Inv, TypeOK, Awaited, Alone, Servers
<1>2. /\ UNCHANGED <<made, of, stopping, closing, last, shared>>
      /\ alive' \subseteq alive /\ docs' \subseteq Servers
      /\ status' \in {[status EXCEPT ![s] = "running"], [status EXCEPT ![s] = "error"]}
      /\ pool' \in {pool, [pool EXCEPT ![k] = None]}
      /\ call' = [call EXCEPT ![c] = Idle]
  BY <1>1 DEF Started, StartFails, Opens, Inv, TypeOK
<1>3. pool' = pool \/ status'[s] = "error"
  BY <1>1 DEF Started, StartFails, Inv, TypeOK
<1>4. /\ call'[c].stage = "idle"
      /\ \A d \in Callers : d # c => call'[d] = call[d]
      /\ \A t \in Servers : t # s => status'[t] = status[t]
      /\ status'[s] \in {"running", "error"}
      /\ \A m \in Keys : pool'[m] = pool[m] \/ (m = k /\ pool'[m] = None)
      /\ \A m \in Keys : pool[m] = s => m = k
  <2>1. /\ pool \in [Keys -> Servers \cup {None}] /\ call' = [call EXCEPT ![c] = Idle]
        /\ status \in [Servers -> {"none", "starting", "running", "stopped", "error"}]
        /\ call \in [Callers -> [stage : Stages, key : Keys, server : Servers \cup {None}]]
    BY <1>2 DEF Inv, TypeOK
  <2>2. call'[c].stage = "idle" /\ \A d \in Callers : d # c => call'[d] = call[d]
    BY <2>1 DEF Idle
  <2>3. /\ \A t \in Servers : t # s => status'[t] = status[t]
        /\ status'[s] \in {"running", "error"}
    BY <1>1, <1>2, <2>1
  <2>4. \A m \in Keys : pool'[m] = pool[m] \/ (m = k /\ pool'[m] = None)
    BY <1>1, <1>2, <2>1
  <2>5. \A m \in Keys : pool[m] = s => m = k
    BY <1>1 DEF Inv, PooledSessions
  <2> QED BY <2>2, <2>3, <2>4, <2>5
<1> HIDE DEF s, k
<1>5. TypeOK'
  <2>1. Idle \in [stage : Stages, key : Keys, server : Servers \cup {None}]
    BY ServersAssumption DEF Idle, Stages, Some
  <2> QED BY <1>1, <1>2, <2>1 DEF Inv, TypeOK
<1>6. Made'
  <2>1. Evicting' = Evicting
    BY <1>1, <1>4 DEF Evicting
  <2> QED BY <1>2, <2>1 DEF Inv, Made
<1>7. PooledSessions'
  <2> SUFFICES ASSUME NEW m \in Keys, pool'[m] # None
               PROVE  /\ pool'[m] <= made'
                      /\ of'[pool'[m]] = m
                      /\ status'[pool'[m]] \in {"starting", "running", "error"}
                      /\ status'[pool'[m]] = "starting" =>
                            \E d \in Callers : /\ call'[d].stage = "starting"
                                               /\ call'[d].server = pool'[m]
    BY DEF PooledSessions
  <2>1. /\ pool'[m] = pool[m] /\ pool[m] \in Servers
        /\ pool[m] <= made /\ of[pool[m]] = m
        /\ status[pool[m]] \in {"starting", "running", "error"}
    BY <1>4 DEF Inv, TypeOK, PooledSessions
  <2>2. CASE pool[m] = s
    BY <1>2, <1>4, <2>1, <2>2
  <2>3. CASE pool[m] # s /\ status[pool[m]] = "starting"
    <3>1. PICK d \in Callers : call[d].stage = "starting" /\ call[d].server = pool[m]
      BY <2>1, <2>3 DEF Inv, PooledSessions
    <3>2. call'[d] = call[d]
      BY <1>4, <2>3, <3>1 DEF s
    <3> QED BY <1>2, <1>4, <2>1, <2>3, <3>1, <3>2
  <2>4. CASE pool[m] # s /\ status[pool[m]] # "starting"
    BY <1>2, <1>4, <2>1, <2>4
  <2> QED BY <2>2, <2>3, <2>4
<1>8. Awaited'
  <2>1. \A d \in Callers : call'[d].stage = "starting" => d # c /\ call'[d] = call[d]
    BY <1>4
  <2>2. \A d \in Callers : call'[d].stage = "starting" => call[d].server # s
    BY <1>1, <2>1 DEF Inv, Awaited, s
  <2>3. \A t \in 1..made : t \in Servers
    BY ServersAssumption DEF Inv, TypeOK, Servers
  <2> QED BY <1>2, <1>4, <2>1, <2>2, <2>3 DEF Inv, Awaited
<1>9. Alone'
  <2>1. \A d \in Callers : call'[d].stage # "idle" => call'[d] = call[d]
    BY <1>4
  <2>2. \A d \in Callers : call'[d].key \notin shared => pool'[call[d].key] \in {pool[call[d].key], None}
    BY <1>4 DEF Inv, TypeOK
  <2> QED BY <1>2, <1>4, <2>1, <2>2 DEF Inv, Alone
<1>10. NoStrayServer'
  <2> SUFFICES ASSUME NEW t \in alive'
               PROVE  \/ t \in Pooled(pool') \cup stopping'
                      \/ status'[t] = "error" \/ of'[t] \in shared'
    BY DEF NoStrayServer
  <2>1. t \in alive /\ t \in Servers
    BY <1>2 DEF Inv, TypeOK
  <2>2. CASE t = s
    BY <1>1, <1>2, <1>3, <1>4, <2>1, <2>2 DEF Inv, NoStrayServer
  <2>3. CASE t # s
    <3>1. CASE t \in Pooled(pool)
      <4>1. PICK m \in Keys : pool[m] = t /\ t # None
        BY <3>1 DEF Pooled
      <4>2. CASE pool'[m] = t
        BY <4>1, <4>2 DEF Pooled
      <4>3. CASE pool'[m] # t
        <5>1. m = k /\ k \in shared /\ of[t] = k
          BY <1>1, <1>4, <2>3, <4>1, <4>3 DEF Inv, PooledSessions
        <5> QED BY <1>2, <5>1
      <4> QED BY <4>2, <4>3
    <3> QED BY <1>2, <1>4, <2>1, <2>3, <3>1 DEF Inv, NoStrayServer
  <2> QED BY <2>2, <2>3
<1> QED BY <1>5, <1>6, <1>7, <1>8, <1>9, <1>10 DEF Inv

\* A process that ends, of itself or at the end of a stop.
LEMMA ExitStep ==
    ASSUME Inv, NEW s \in Servers, StopEnds(s) \/ Crash(s)
    PROVE  Inv'
<1>1. /\ UNCHANGED <<pool, made, of, docs, call, closing, last, shared>>
      /\ alive' = alive \ {s} /\ stopping \ {s} \subseteq stopping' /\ stopping' \subseteq stopping
      /\ status' \in [Servers -> {"none", "starting", "running", "stopped", "error"}]
      /\ \A t \in Servers : t # s => status'[t] = status[t]
  BY DEF StopEnds, Crash, Exits, sessions, Inv, TypeOK
<1>2. \/ status' = status
      \/ /\ status'[s] \in {"stopped", "error"} /\ (status'[s] = "stopped" <=> status[s] = "stopped")
         /\ \A c \in Callers : call[c].stage = "starting" => call[c].server # s
  BY DEF StopEnds, Crash, Exits, sessions, Inv, TypeOK
<1>3. TypeOK'
  BY <1>1 DEF Inv, TypeOK
<1>4. Made'
  BY <1>1 DEF Inv, Made, Evicting
<1>5. PooledSessions'
  BY <1>1, <1>2 DEF Inv, TypeOK, PooledSessions, None
<1>6. Awaited'
  BY <1>1, <1>2, ServersAssumption DEF Inv, TypeOK, Awaited, Servers
<1>7. Alone'
  BY <1>1 DEF Inv, Alone
<1>8. NoStrayServer'
  BY <1>1 DEF Inv, TypeOK, NoStrayServer
<1> QED BY <1>3, <1>4, <1>5, <1>6, <1>7, <1>8 DEF Inv
-----------------------------------------------------------------------------
(* The theorems *)

LEMMA InitInv == Init => Inv
<1> SUFFICES ASSUME Init PROVE Inv
  OBVIOUS
<1>1. Idle \in [stage : Stages, key : Keys, server : Servers \cup {None}]
  BY ServersAssumption DEF Idle, Stages, Some
<1>2. TypeOK
  BY <1>1, ServersAssumption DEF Init, TypeOK, Some
<1>3. Evicting = {}
  BY DEF Init, Evicting, Idle
<1>4. Made
  BY <1>3, FS_EmptySet, ServersAssumption DEF Init, Made
<1> QED BY <1>2, <1>4 DEF Init, Inv, PooledSessions, Awaited, Alone, NoStrayServer, Idle, None

LEMMA NextInv == Inv /\ [Next]_vars => Inv'
<1> SUFFICES ASSUME Inv, [Next]_vars PROVE Inv'
  OBVIOUS
<1>1. ASSUME NEW c \in Callers, NEW k \in Keys, Reuse(c, k) PROVE Inv'
  <2>1. /\ UNCHANGED <<pool, made, of, status, alive, stopping, call, closing, last, shared>>
        /\ docs' \subseteq Servers
    BY <1>1 DEF Reuse, sessions, Opens, Has, Inv, TypeOK
  <2> QED BY <2>1 DEF Inv, TypeOK, Made, PooledSessions, Awaited, Alone, NoStrayServer,
                      Evicting, Pooled
<1>2. ASSUME NEW k \in Keys, CloseDocument(k) PROVE Inv'
  <2>1. /\ UNCHANGED <<pool, made, of, status, alive, stopping, call, closing, last, shared>>
        /\ docs' \subseteq docs
    BY <1>2 DEF CloseDocument, sessions
  <2> QED BY <2>1 DEF Inv, TypeOK, Made, PooledSessions, Awaited, Alone, NoStrayServer,
                      Evicting, Pooled
<1>3. ASSUME NEW k \in Keys, Release(k) \/ Sweep(k) \/ StopAll(k) PROVE Inv'
  <2>1. /\ pool[k] # None /\ pool[k] \in Servers /\ Removes(k)
        /\ closing' \in {"no", "yes", "done"} /\ last' \in Servers \cup {None}
    BY <1>3 DEF Release, Sweep, StopAll, Has, Inv, TypeOK, None, Servers
  <2> QED BY <2>1, RemoveStep DEF Removes
<1>4. CASE StopAllEnds \/ UNCHANGED vars
  <2>1. /\ UNCHANGED <<pool, made, of, status, alive, stopping, docs, call, shared>>
        /\ closing' \in {"no", "yes", "done"} /\ last' \in Servers \cup {None}
    BY <1>4 DEF StopAllEnds, sessions, vars, Inv, TypeOK
  <2> QED BY <2>1 DEF Inv, TypeOK, Made, PooledSessions, Awaited, Alone, NoStrayServer,
                      Evicting, Pooled
<1> QED BY <1>1, <1>2, <1>3, <1>4, AcquireStep, ProceedStep, StartEndsStep, ExitStep
        DEF Next

LEMMA Invariance == Spec => []Inv
<1> QED BY InitInv, NextInv, PTL DEF Spec

\* The variables of the pool keep their types, and the bound on the sessions made
\* is kept by acquires that evict at the same time (pool.ts:33-50).
THEOREM LanguageServersTypeOK == Spec => []TypeOK
<1>1. Inv => TypeOK
  BY DEF Inv
<1> QED BY Invariance, <1>1, PTL

\* No server process is forgotten, for any number of languages and callers, but
\* by a failed start or in a language acquired twice at once (pool.ts:33-50).
THEOREM LanguageServersNoStray == Spec => []NoStrayServer
<1>1. Inv => NoStrayServer
  BY DEF Inv
<1> QED BY Invariance, <1>1, PTL

\* The pool holds a session under its own language, and never one whose stop has
\* begun, though a start that ends late sets the status of its session whatever
\* it is by then (session.ts:78, 104).
THEOREM LanguageServersPoolLive ==
    Spec => [](\A k \in Keys : pool[k] # None =>
                  of[pool[k]] = k /\ status[pool[k]] \notin {"none", "stopped"})
<1>1. Inv => \A k \in Keys : pool[k] # None =>
                of[pool[k]] = k /\ status[pool[k]] \notin {"none", "stopped"}
  BY DEF Inv, PooledSessions
<1> QED BY Invariance, <1>1, PTL

\* Which steps part with a running session that has open documents.
LEMMA DocumentsStep ==
    ASSUME Inv, [Next]_vars, NEW k \in Keys,
           pool[k] \in docs, Has(k, "running"), pool[k] \notin Pooled(pool')
    PROVE  k \in shared \/ Release(k) \/ StopAll(k)
<1> DEFINE s == pool[k]
<1>1. s \in Servers /\ s # None /\ status[s] = "running" /\ pool'[k] # s
  BY ServersAssumption DEF Has, Servers, None, Pooled
<1>2. \A m \in Keys : pool[m] = s => m = k
  BY <1>1, OnePlace DEF Inv
<1>3. pool \in [Keys -> Servers \cup {None}]
  BY DEF Inv, TypeOK
<1>4. pool' # pool
  BY <1>1
<1>5. ASSUME NEW c \in Callers, NEW m \in Keys, Acquire(c, m) PROVE FALSE
  <2> DEFINE p == IF Has(m, "error") THEN Without(pool, pool[m]) ELSE pool
  <2>1. p[k] = s /\ m # k
    BY <1>1, <1>5, AcquireFacts DEF Acquire
  <2>2. CASE Create(c, m, p)
    BY <1>1, <1>3, <2>1, <2>2 DEF Create, Without
  <2>3. CASE Evict(c, m, p)
    BY <1>1, <2>1, <2>3 DEF Evict, Evictable, Without
  <2> QED BY <1>5, <2>2, <2>3 DEF Acquire
<1>6. ASSUME NEW c \in Callers, Proceed(c) PROVE k \in shared
  <2>1. call[c].stage = "evicting" /\ call[c].key = k
    BY <1>1, <1>3, <1>6 DEF Proceed, Create
  <2> QED BY <1>1, <2>1 DEF Inv, Alone
<1>7. ASSUME NEW c \in Callers, StartFails(c) PROVE k \in shared
  <2>1. call[c].stage = "starting" /\ call[c].key = k
    BY <1>1, <1>3, <1>7 DEF StartFails
  <2>2. status[call[c].server] \in {"starting", "stopped"}
    BY <2>1 DEF Inv, Awaited
  <2> QED BY <1>1, <2>1, <2>2 DEF Inv, Alone
<1>8. ASSUME NEW m \in Keys, Release(m) \/ Sweep(m) \/ StopAll(m)
      PROVE  Release(k) \/ StopAll(k)
  <2>1. m = k
    BY <1>1, <1>3, <1>8 DEF Release, Sweep, StopAll, Removes
  <2> QED BY <1>8, <2>1 DEF Sweep
<1>9. \/ \E c \in Callers, m \in Keys : Acquire(c, m)
      \/ \E c \in Callers : Proceed(c) \/ StartFails(c)
      \/ \E m \in Keys : Release(m) \/ Sweep(m) \/ StopAll(m)
  BY <1>4 DEF Next, vars, sessions, Reuse, Started, StopEnds, Crash, CloseDocument, StopAllEnds
<1> QED BY <1>5, <1>6, <1>7, <1>8, <1>9

\* Whoever opened a document keeps its session until the pool is told to part
\* with it, in a language that one caller at a time acquires (pool.ts:120-121,
\* 132-142).
THEOREM LanguageServersDocumentsKept == Spec => DocumentsKept
<1>1. Inv /\ [Next]_vars =>
        [\A k \in Keys :
            LET s == pool[k] IN
            s \in docs /\ Has(k, "running") /\ s \notin Pooled(pool') =>
                k \in shared \/ Release(k) \/ StopAll(k)]_vars
  BY DocumentsStep
<1> QED BY Invariance, <1>1, PTL DEF Spec, DocumentsKept
=============================================================================
