--------------------------- MODULE DurableDelivery ---------------------------
(***************************************************************************)
(* What the durable audit outbox promises its callers, without queues,     *)
(* leases, workers or retries: once a job has been accepted its effect is   *)
(* owed; the outbox forgets the job only after the effect has landed, and   *)
(* otherwise keeps it, possibly on the dead-letter shelf where              *)
(* `coodra doctor` reports it.  Nothing accepted disappears silently.       *)
(***************************************************************************)

CONSTANTS
  Jobs,        \* the jobs callers may submit
  EffectOf     \* the destination row each job owes

VARIABLES
  accepted,    \* jobs whose submission has been acknowledged
  shelved,     \* accepted jobs given up on: kept, and visible to the operator
  forgotten,   \* accepted jobs the outbox no longer stores
  landed       \* effects present at their destination

dvars == <<accepted, shelved, forgotten, landed>>

DInit ==
  /\ accepted = {}
  /\ shelved = {}
  /\ forgotten = {}
  /\ landed = {}

Accept(j) ==
  /\ j \notin accepted
  /\ accepted' = accepted \cup {j}
  /\ UNCHANGED <<shelved, forgotten, landed>>

\* An effect lands at any time after some job that owes it was accepted; the
\* destination absorbs repetitions.
Land(j) ==
  /\ j \in accepted
  /\ landed' = landed \cup {EffectOf[j]}
  /\ UNCHANGED <<accepted, shelved, forgotten>>

\* The outbox drops its record of a job, from the shelf too, only when the
\* job's effect is in place.
Forget(j) ==
  /\ j \in accepted \ forgotten
  /\ EffectOf[j] \in landed
  /\ forgotten' = forgotten \cup {j}
  /\ shelved' = shelved \ {j}
  /\ UNCHANGED <<accepted, landed>>

Shelve(j) ==
  /\ j \in accepted \ forgotten
  /\ shelved' = shelved \cup {j}
  /\ UNCHANGED <<accepted, forgotten, landed>>

\* A shelved job may be taken up again.
Unshelve(j) ==
  /\ j \in shelved
  /\ shelved' = shelved \ {j}
  /\ UNCHANGED <<accepted, forgotten, landed>>

DNext == \E j \in Jobs : Accept(j) \/ Land(j) \/ Forget(j) \/ Shelve(j) \/ Unshelve(j)

DSpec == DInit /\ [][DNext]_dvars
==============================================================================
