---------------------------- MODULE MCScheduler ----------------------------
(***************************************************************************)
(* Four small graphs for the scheduler, on two worker slots:               *)
(*   Diamond   nd after nb and nc, both after na; na has a retry, nb and   *)
(*             nc share a lock, nb has a deadline                          *)
(*   Exclusive an exclusive node that starts first, beside nodes with and  *)
(*             without locks                                               *)
(*   Chain     a dependency chain with a retry and a deadline in it, and   *)
(*             an exclusive node that has to wait for a gap                *)
(*   Cycle     two nodes that wait for each other, beside two free ones    *)
(***************************************************************************)
EXTENDS Scheduler, TLC

CONSTANTS na, nb, nc, nd, git, db

MCNodes == {na, nb, nc, nd}
MCResources == {git, db}
MCAddedAt == na :> 1 @@ nb :> 2 @@ nc :> 3 @@ nd :> 4

NoLocks == [n \in MCNodes |-> {}]
NoRetries == [n \in MCNodes |-> 0]

Diamond ==
    [ dependencies |-> na :> {} @@ nb :> {na} @@ nc :> {na} @@ nd :> {nb, nc},
      critical |-> {nc},
      resourceLocks |-> na :> {} @@ nb :> {git} @@ nc :> {git, db} @@ nd :> {},
      exclusive |-> {},
      maxRetries |-> [NoRetries EXCEPT ![na] = 1],
      deadline |-> {nb} ]

Exclusive ==
    [ dependencies |-> [n \in MCNodes |-> {}],
      critical |-> {nd},
      resourceLocks |-> [NoLocks EXCEPT ![nb] = {git}, ![nd] = {db}],
      exclusive |-> {nd},
      maxRetries |-> NoRetries,
      deadline |-> {} ]

Chain ==
    [ dependencies |-> na :> {} @@ nb :> {na} @@ nc :> {nb} @@ nd :> {},
      critical |-> {},
      resourceLocks |-> NoLocks,
      exclusive |-> {nd},
      maxRetries |-> [NoRetries EXCEPT ![nb] = 1],
      deadline |-> {nc} ]

Cycle ==
    [ dependencies |-> na :> {nb} @@ nb :> {na} @@ nc :> {} @@ nd :> {nc},
      critical |-> {},
      resourceLocks |-> NoLocks,
      exclusive |-> {},
      maxRetries |-> NoRetries,
      deadline |-> {} ]

MCPlans == {Diamond, Exclusive, Chain, Cycle}
=============================================================================
