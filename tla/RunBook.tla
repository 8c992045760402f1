------------------------------ MODULE RunBook ------------------------------
(***************************************************************************)
(* What the run log of a project promises those who read it (the dashboard, *)
(* the next session's context, the team): a session is entered once, its    *)
(* entry is never struck out nor given another id; a run nobody reports on  *)
(* is retired, but only while it is in progress; and what is filed under a  *)
(* run stays filed, a pack that an agent saved word for word.  No calls, no *)
(* statements, no ages.                                                     *)
(***************************************************************************)
EXTENDS Integers, Sequences

CONSTANTS
  Sessions,
  Ids,         \* the ids a run may be given
  Packs,       \* the packs that may be filed, each with its `source`
  None

VARIABLES
  id,          \* id[s] of the run of session s, None while it has none
  status,
  filed,       \* filed[s]: the packs filed under the run, oldest first
  own          \* own[s]: which of them an agent filed itself

bvars == <<id, status, filed, own>>

BInit ==
  /\ id = [s \in Sessions |-> None]
  /\ status = [s \in Sessions |-> "none"]
  /\ filed = [s \in Sessions |-> <<>>]
  /\ own = [s \in Sessions |-> {}]

Open(s, i) ==
  /\ id[s] = None
  /\ id' = [id EXCEPT ![s] = i]
  /\ status' = [status EXCEPT ![s] = "in_progress"]
  /\ UNCHANGED <<filed, own>>

\* The session, or an operator, says how the run stands; it may be resumed.
Report(s, st) ==
  /\ id[s] # None
  /\ status' = [status EXCEPT ![s] = st]
  /\ UNCHANGED <<id, filed, own>>

\* Runs that have fallen silent are closed, several at once.
Retire(silent, st) ==
  /\ \A s \in silent : status[s] = "in_progress"
  /\ status' = [s \in Sessions |-> IF s \in silent THEN st ELSE status[s]]
  /\ UNCHANGED <<id, filed, own>>

File(s, p) ==
  /\ id[s] # None
  /\ filed' = [filed EXCEPT ![s] = Append(@, p)]
  /\ own' = IF p.source = "agent"
            THEN [own EXCEPT ![s] = @ \cup {Len(filed[s]) + 1}] ELSE own
  /\ UNCHANGED <<id, status>>

\* Only an entry that began as an automatic digest is ever rewritten, by an agent.
Rewrite(s, r, p) ==
  /\ r \in DOMAIN filed[s] \ own[s]
  /\ p.source = "agent"
  /\ filed' = [filed EXCEPT ![s][r] = p]
  /\ UNCHANGED <<id, status, own>>

BNext ==
  \/ \E s \in Sessions, i \in Ids : Open(s, i)
  \/ \E s \in Sessions, st \in {"in_progress", "completed", "failed", "cancelled"} : Report(s, st)
  \/ \E silent \in SUBSET Sessions, st \in {"cancelled", "abandoned"} : Retire(silent, st)
  \/ \E s \in Sessions, p \in Packs : File(s, p)
  \/ \E s \in Sessions : \E r \in DOMAIN filed[s], p \in Packs : Rewrite(s, r, p)

BSpec == BInit /\ [][BNext]_bvars
=============================================================================
