------------------------------- MODULE Outbox -------------------------------
(***************************************************************************)
(* The durable audit outbox: the `pending_jobs` table of ~/.coodra/data.db, *)
(* the recorders that enqueue into it and the OutboxWorkers that drain it.  *)
(*                                                                         *)
(* A recorder call enqueues an audit job (a run_events row to write         *)
(* locally) and, in team mode, a sync_to_cloud job that pushes the same row *)
(* to cloud Postgres.  The two INSERTs are separate awaits.  Workers of the *)
(* mcp-server processes claim audit jobs, the worker of the sync-daemon     *)
(* claims sync jobs.  A worker claims one row with a single UPDATE,         *)
(* dispatches it, and settles it by id: DELETE, back to 'pending' after a   *)
(* backoff, or 'dead'.  A claim holds for a lease; after that any worker    *)
(* may claim the row again, whether or not the first claimant is gone.      *)
(* An operator may put a dead row back in the queue from the dashboard.     *)
(*                                                                         *)
(* Time is abstract.  `due` lists the rows whose run_after has passed, in   *)
(* run_after order: a row becomes due either when it is inserted            *)
(* (run_after = now) or when its backoff elapses, so the order in which     *)
(* rows become due is the order of their run_after.  `expired[j]` says that *)
(* the row's picked_at is more than a lease old.                            *)
(***************************************************************************)
EXTENDS Integers, Sequences, FiniteSets

CONSTANTS
  Calls,            \* RunRecorder.record() calls
  Events,           \* run_events primary keys
  EventOf,          \* the row id a call computes; a repeated call computes the same id
  Malformed,        \* calls whose payload this version's dispatcher rejects
  TeamMode,         \* COODRA_MODE = team
  AuditWorkers,     \* OutboxWorkers of mcp-server processes
  SyncWorkers,      \* OutboxWorkers of sync-daemon processes
  MaxAttempts,      \* worker.ts maxAttempts
  MaxInterruptions, \* bound: crashes, stops, stalls and failed updates together
  MaxRetries,       \* bound: how often the operator retries one dead row
  NoJob

Audit == "run_event"
Sync  == "sync_to_cloud"
Jobs  == Calls \X {Audit, Sync}
Workers == AuditWorkers \cup SyncWorkers

ASSUME OutboxAssumption ==
  /\ EventOf \in [Calls -> Events]
  /\ Malformed \subseteq Calls
  /\ TeamMode \in BOOLEAN
  /\ AuditWorkers \cap SyncWorkers = {}
  /\ IsFiniteSet(AuditWorkers) /\ IsFiniteSet(SyncWorkers)
  /\ MaxAttempts \in Nat \ {0}
  /\ MaxInterruptions \in Nat
  /\ MaxRetries \in Nat
  /\ NoJob \notin Jobs

QueueOf(j) == j[2]
RowOf(j)   == EventOf[j[1]]
\* The queueFilter a worker was constructed with.
Filter(w)  == IF w \in AuditWorkers THEN {Audit} ELSE {Sync}

VARIABLES
  call,       \* progress of each scheduleAuditWriteWithSync call
  status,     \* pending_jobs.status; "absent" when there is no such row
  attempts,   \* pending_jobs.attempts
  expired,    \* pending_jobs.picked_at < now - lease
  due,        \* rows with run_after <= now, oldest run_after first
  pc,         \* where each worker is in #runOne
  held,       \* the job a worker claimed (ClaimedRow.id)
  tries,      \* the attempt count its claim returned (ClaimedRow.attempts)
  outcome,    \* the OutboxDispatchOutcome it got
  local,      \* run_events rows in local SQLite
  cloud,      \* run_events rows in cloud Postgres
  interruptions,
  retries     \* how often the operator has retried each row

rowVars    == <<status, attempts, expired, due>>
workerVars == <<pc, held, tries, outcome>>
destVars   == <<local, cloud>>
envVars    == <<interruptions, retries>>
vars == <<call, rowVars, workerVars, destVars, envVars>>

TypeOK ==
  /\ call \in [Calls -> {"new", "audited", "done", "failed", "cut"}]
  /\ status \in [Jobs -> {"absent", "pending", "picked", "dead"}]
  /\ attempts \in [Jobs -> Nat]
  /\ expired \in [Jobs -> BOOLEAN]
  /\ due \in Seq(Jobs)
  /\ pc \in [Workers -> {"idle", "dispatching", "settling", "down"}]
  /\ held \in [Workers -> Jobs \cup {NoJob}]
  /\ tries \in [Workers -> Nat]
  /\ outcome \in [Workers -> {"none", "success", "transient", "permanent"}]
  /\ local \subseteq Events
  /\ cloud \subseteq Events
  /\ interruptions \in 0..MaxInterruptions
  /\ retries \in [Jobs -> 0..MaxRetries]

Init ==
  /\ call = [c \in Calls |-> "new"]
  /\ status = [j \in Jobs |-> "absent"]
  /\ attempts = [j \in Jobs |-> 0]
  /\ expired = [j \in Jobs |-> FALSE]
  /\ due = <<>>
  /\ pc = [w \in Workers |-> "idle"]
  /\ held = [w \in Workers |-> NoJob]
  /\ tries = [w \in Workers |-> 0]
  /\ outcome = [w \in Workers |-> "none"]
  /\ local = {}
  /\ cloud = {}
  /\ interruptions = 0
  /\ retries = [j \in Jobs |-> 0]

-----------------------------------------------------------------------------
(* Helpers *)

IsDue(j) == \E i \in 1..Len(due) : due[i] = j

\* `due` once row j is deleted, dead or rescheduled.
DueWithout(j) ==
  IF IsDue(j)
  THEN LET i == CHOOSE i \in 1..Len(due) : due[i] = j
       IN  SubSeq(due, 1, i - 1) \o SubSeq(due, i + 1, Len(due))
  ELSE due

Interrupt ==
  /\ interruptions < MaxInterruptions
  /\ interruptions' = interruptions + 1
  /\ retries' = retries

-----------------------------------------------------------------------------
(* scheduleAuditWriteWithSync: two durable INSERTs, one after the other *)

\* scheduleDurableWrite: a fresh row, attempts 0, run_after = now.
Enqueue(j) ==
  /\ status' = [status EXCEPT ![j] = "pending"]
  /\ due' = Append(due, j)
  /\ UNCHANGED <<attempts, expired>>

EnqueueAudit(c) ==
  /\ call[c] = "new"
  /\ Enqueue(<<c, Audit>>)
  /\ call' = [call EXCEPT ![c] = IF TeamMode THEN "audited" ELSE "done"]
  /\ UNCHANGED <<workerVars, destVars, envVars>>

EnqueueSync(c) ==
  /\ call[c] = "audited"
  /\ Enqueue(<<c, Sync>>)
  /\ call' = [call EXCEPT ![c] = "done"]
  /\ UNCHANGED <<workerVars, destVars, envVars>>

\* An INSERT throws (record() logs "event lost" and returns), or the process
\* is killed before it: what was not yet inserted never will be.
CallCut(c) ==
  /\ call[c] \in {"new", "audited"}
  /\ call' = [call EXCEPT ![c] = IF @ = "new" THEN "failed" ELSE "cut"]
  /\ UNCHANGED <<rowVars, workerVars, destVars, envVars>>

-----------------------------------------------------------------------------
(* OutboxWorker.#runOne *)

\* Bugs in the WHERE clause: a picked row is claimed inside its lease, or is
\* never claimed again.
BugClaimableNoLease(w, j) ==
  QueueOf(j) \in Filter(w) /\ ((status[j] = "pending" /\ IsDue(j)) \/ status[j] = "picked")
BugClaimablePendingOnly(w, j) ==
  QueueOf(j) \in Filter(w) /\ status[j] = "pending" /\ IsDue(j)

\* WHERE clause of #claim: pending and due, or picked with its lease over.
Claimable(w, j) ==
  /\ QueueOf(j) \in Filter(w)
  /\ \/ status[j] = "pending" /\ IsDue(j)
     \/ status[j] = "picked" /\ expired[j]

\* run_after of row k is before that of row j.
Earlier(k, j) == \E a, b \in 1..Len(due) : a < b /\ due[a] = k /\ due[b] = j

\* #claim: one atomic UPDATE of the first such row in run_after order.
Claim(w) ==
  /\ pc[w] = "idle"
  /\ \E j \in Jobs :
       /\ Claimable(w, j)
       /\ \A k \in Jobs : Claimable(w, k) => ~Earlier(k, j)
       /\ status' = [status EXCEPT ![j] = "picked"]
       /\ expired' = [expired EXCEPT ![j] = FALSE]
       /\ attempts' = [attempts EXCEPT ![j] = @ + 1]
       /\ held' = [held EXCEPT ![w] = j]
       /\ tries' = [tries EXCEPT ![w] = attempts[j] + 1]
  /\ pc' = [pc EXCEPT ![w] = "dispatching"]
  /\ UNCHANGED <<call, due, outcome, destVars, envVars>>

Answer(w, result) ==
  /\ outcome' = [outcome EXCEPT ![w] = result]
  /\ pc' = [pc EXCEPT ![w] = "settling"]
  /\ UNCHANGED <<call, rowVars, held, tries, envVars>>

\* Bug: a throw of the INSERT is swallowed and reported as a success.
BugDispatchAuditSwallows(w) ==
  LET j == held[w] IN
  /\ pc[w] = "dispatching"
  /\ QueueOf(j) = Audit
  /\ \/ Answer(w, "success") /\ local' = local \cup {RowOf(j)}
     \/ Answer(w, "success") /\ local' = local
  /\ cloud' = cloud

\* dispatcher.ts, queue run_event: a payload of another version is refused for
\* good; the INSERT is ON CONFLICT (id) DO NOTHING; a throw is transient.
DispatchAudit(w) ==
  LET j == held[w] IN
  /\ pc[w] = "dispatching"
  /\ QueueOf(j) = Audit
  /\ IF j[1] \in Malformed
     THEN Answer(w, "permanent") /\ local' = local
     ELSE \/ Answer(w, "success") /\ local' = local \cup {RowOf(j)}
          \/ Answer(w, "transient") /\ local' = local
  /\ cloud' = cloud

\* Bug: a local row that is not there counts as pushed.
BugDispatchSyncSkipsMissing(w) ==
  /\ pc[w] = "dispatching"
  /\ QueueOf(held[w]) = Sync
  /\ Answer(w, "success")
  /\ cloud' = IF RowOf(held[w]) \in local THEN cloud \cup {RowOf(held[w])} ELSE cloud
  /\ local' = local

\* sync-daemon dispatch.ts: read the local row, push it.  A missing local row
\* is transient; so is a network error, which may come after the commit.
DispatchSync(w) ==
  LET j == held[w] IN
  /\ pc[w] = "dispatching"
  /\ QueueOf(j) = Sync
  /\ \/ Answer(w, "transient") /\ cloud' = cloud
     \/ /\ RowOf(j) \in local
        /\ Answer(w, "success") \/ Answer(w, "transient")
        /\ cloud' = cloud \cup {RowOf(j)}
  /\ local' = local

GoIdle(w) ==
  /\ pc' = [pc EXCEPT ![w] = "idle"]
  /\ held' = [held EXCEPT ![w] = NoJob]
  /\ tries' = [tries EXCEPT ![w] = 0]
  /\ outcome' = [outcome EXCEPT ![w] = "none"]

\* Bug: the row is deleted whenever the dispatcher did not refuse it for good.
BugSettleSuccessDeletesRetries(w) ==
  /\ pc[w] = "settling"
  /\ outcome[w] \in {"success", "transient"}
  /\ status' = [status EXCEPT ![held[w]] = "absent"]
  /\ due' = DueWithout(held[w])
  /\ GoIdle(w)
  /\ UNCHANGED <<call, attempts, expired, destVars, envVars>>

\* #deleteJob, by id.
SettleSuccess(w) ==
  LET j == held[w] IN
  /\ pc[w] = "settling"
  /\ outcome[w] = "success"
  /\ status' = [status EXCEPT ![j] = "absent"]
  /\ due' = DueWithout(j)
  /\ GoIdle(w)
  /\ UNCHANGED <<call, attempts, expired, destVars, envVars>>

\* Bug: one attempt more than maxAttempts.
BugGivesUpLater(w) == outcome[w] = "permanent" \/ (outcome[w] = "transient" /\ tries[w] > MaxAttempts)

GivesUp(w) == outcome[w] = "permanent" \/ (outcome[w] = "transient" /\ tries[w] >= MaxAttempts)

\* Bug: a status no reader of the table knows.
BugSettleDeadAsFailed(w) ==
  /\ pc[w] = "settling"
  /\ GivesUp(w)
  /\ status' = [status EXCEPT ![held[w]] = "failed"]
  /\ due' = DueWithout(held[w])
  /\ GoIdle(w)
  /\ UNCHANGED <<call, attempts, expired, destVars, envVars>>

\* #markDead, by id: nothing happens when the row is gone.
SettleDead(w) ==
  LET j == held[w] IN
  /\ pc[w] = "settling"
  /\ GivesUp(w)
  /\ status' = [status EXCEPT ![j] = IF @ = "absent" THEN "absent" ELSE "dead"]
  /\ due' = DueWithout(j)
  /\ GoIdle(w)
  /\ UNCHANGED <<call, attempts, expired, destVars, envVars>>

\* #scheduleRetry, by id: whatever the row's status is by now, it becomes
\* 'pending' with a run_after in the future.
SettleRetry(w) ==
  LET j == held[w] IN
  /\ pc[w] = "settling"
  /\ outcome[w] = "transient"
  /\ ~GivesUp(w)
  /\ status' = [status EXCEPT ![j] = IF @ = "absent" THEN "absent" ELSE "pending"]
  /\ due' = DueWithout(j)
  /\ GoIdle(w)
  /\ UNCHANGED <<call, attempts, expired, destVars, envVars>>

\* The update after the dispatch throws: logged, the row stays as it is.
SettleFails(w) ==
  /\ pc[w] = "settling"
  /\ Interrupt
  /\ GoIdle(w)
  /\ UNCHANGED <<call, rowVars, destVars>>

-----------------------------------------------------------------------------
(* Processes and time *)

\* stop() awaits the in-flight dispatch, so a worker is down only once idle.
Stop(w) ==
  /\ pc[w] = "idle"
  /\ Interrupt
  /\ pc' = [pc EXCEPT ![w] = "down"]
  /\ UNCHANGED <<call, rowVars, held, tries, outcome, destVars>>

\* The process dies in the middle of #runOne.
Crash(w) ==
  /\ pc[w] \in {"dispatching", "settling"}
  /\ Interrupt
  /\ pc' = [pc EXCEPT ![w] = "down"]
  /\ held' = [held EXCEPT ![w] = NoJob]
  /\ tries' = [tries EXCEPT ![w] = 0]
  /\ outcome' = [outcome EXCEPT ![w] = "none"]
  /\ UNCHANGED <<call, rowVars, destVars>>

Restart(w) ==
  /\ pc[w] = "down"
  /\ pc' = [pc EXCEPT ![w] = "idle"]
  /\ UNCHANGED <<call, rowVars, held, tries, outcome, destVars, envVars>>

BackoffElapses(j) ==
  /\ status[j] = "pending"
  /\ ~IsDue(j)
  /\ due' = Append(due, j)
  /\ UNCHANGED <<call, status, attempts, expired, workerVars, destVars, envVars>>

LeaseRunsOut(j) ==
  /\ status[j] = "picked"
  /\ ~expired[j]
  /\ expired' = [expired EXCEPT ![j] = TRUE]
  /\ UNCHANGED <<call, status, attempts, due, workerVars, destVars>>

\* The lease of a row no worker is busy with runs out by itself ...
OrphanLeaseExpires(j) ==
  /\ \A w \in Workers : held[w] # j
  /\ LeaseRunsOut(j)
  /\ UNCHANGED envVars

\* ... and so does the lease of a worker that stalls (a suspended laptop, a
\* hung connection) while its dispatch is still under way.
LeaseExpiresUnderWorker(j) ==
  /\ \E w \in Workers : held[w] = j
  /\ LeaseRunsOut(j)
  /\ Interrupt

-----------------------------------------------------------------------------
(* The dashboard *)

\* Bug: without `status = 'dead'` in the WHERE clause.
BugRetryAnyRow(j) ==
  /\ status[j] # "absent"
  /\ retries[j] < MaxRetries
  /\ retries' = [retries EXCEPT ![j] = @ + 1]
  /\ status' = [status EXCEPT ![j] = "pending"]
  /\ attempts' = [attempts EXCEPT ![j] = 0]
  /\ due' = IF IsDue(j) THEN due ELSE Append(due, j)
  /\ UNCHANGED <<call, expired, workerVars, destVars, interruptions>>

\* retryDeadJob: attempts 0, run_after = now.  retryAllDeadJobs does the same
\* to each dead row of a queue.  A worker that has outlived its lease may still
\* hold the row.
RetryDead(j) ==
  /\ status[j] = "dead"
  /\ retries[j] < MaxRetries
  /\ retries' = [retries EXCEPT ![j] = @ + 1]
  /\ status' = [status EXCEPT ![j] = "pending"]
  /\ attempts' = [attempts EXCEPT ![j] = 0]
  /\ due' = Append(due, j)
  /\ UNCHANGED <<call, expired, workerVars, destVars, interruptions>>

-----------------------------------------------------------------------------

WorkerStep(w) ==
  \/ Claim(w)
  \/ DispatchAudit(w) \/ DispatchSync(w)
  \/ SettleSuccess(w) \/ SettleDead(w) \/ SettleRetry(w) \/ SettleFails(w)
  \/ Stop(w) \/ Crash(w) \/ Restart(w)

Next ==
  \/ \E c \in Calls : EnqueueAudit(c) \/ EnqueueSync(c) \/ CallCut(c)
  \/ \E w \in Workers : WorkerStep(w)
  \/ \E j \in Jobs : BackoffElapses(j) \/ OrphanLeaseExpires(j) \/ LeaseExpiresUnderWorker(j)
  \/ \E j \in Jobs : RetryDead(j)

Spec == Init /\ [][Next]_vars

\* Workers tick every tickMs and dispatches return; processes are restarted
\* by `coodra start`, the service manager or the agent's next session; time
\* passes.  Nothing is assumed about recorder calls, the operator, or about a
\* dispatch that fails ever succeeding.
Fairness ==
  /\ \A w \in Workers :
       /\ WF_vars(Claim(w))
       /\ WF_vars(DispatchAudit(w) \/ DispatchSync(w))
       /\ WF_vars(SettleSuccess(w) \/ SettleDead(w) \/ SettleRetry(w))
       /\ WF_vars(Restart(w))
  /\ \A j \in Jobs : WF_vars(BackoffElapses(j)) /\ WF_vars(OrphanLeaseExpires(j))

FairSpec == Spec /\ Fairness

-----------------------------------------------------------------------------
(* Properties *)

\* pending_jobs received row j at some time.
Accepted(j) ==
  IF QueueOf(j) = Audit THEN call[j[1]] \in {"audited", "done", "cut"}
                        ELSE call[j[1]] = "done" /\ TeamMode

Destination(q) == IF q = Audit THEN local ELSE cloud
Landed(j) == RowOf(j) \in Destination(QueueOf(j))

\* The guarantee of worker.ts "Crash safety": a job that was durably enqueued
\* is still in pending_jobs or its destination row is in place, whatever
\* crashes, expired leases and late settlements come in between.
NothingLost == \A j \in Jobs : Accepted(j) => status[j] # "absent" \/ Landed(j)

\* A row is on the dead-letter list only if its payload was refused or it was
\* claimed maxAttempts times, also when a stale worker settles a row that was
\* claimed again meanwhile.  The exception: a row the operator retried may be
\* buried once more by a worker that was interrupted and knows only the old count.
DeadIsJustified ==
  \A j \in Jobs : status[j] = "dead" =>
    \/ attempts[j] >= MaxAttempts
    \/ QueueOf(j) = Audit /\ j[1] \in Malformed
    \/ retries[j] > 0 /\ interruptions > 0

\* The atomic claim is the only mutual exclusion between processes: as long as
\* nothing interrupts or stalls a worker, no two workers hold one row.
ExclusiveUntilInterrupted ==
  interruptions = 0 =>
    \A v, w \in Workers : v # w /\ held[v] = held[w] => held[v] = NoJob

\* A worker that is about to delete a row has seen its effect land, one that
\* is about to bury it as malformed is entitled to, and a row the operator did
\* not retry has been claimed at least as often as any of its holders, stale
\* ones included, knows.
Knows(w) ==
  /\ pc[w] \in {"dispatching", "settling"} <=> held[w] # NoJob
  /\ pc[w] # "settling" <=> outcome[w] = "none"
  /\ held[w] # NoJob => /\ QueueOf(held[w]) \in Filter(w)
                        /\ Accepted(held[w])
                        /\ tries[w] <= attempts[held[w]] \/ retries[held[w]] > 0
  /\ outcome[w] = "success" => Landed(held[w])
  /\ outcome[w] = "permanent" =>
       QueueOf(held[w]) = Audit /\ held[w][1] \in Malformed

HolderKnows == \A w \in Workers : Knows(w)

\* A row that was never accepted is not in the table.
NoStrayRow == \A j \in Jobs : status[j] # "absent" => Accepted(j)

\* A row is claimed maxAttempts times, and once more for each interruption there
\* was, but never more often, until the operator retries it: neither a row that
\* kills its worker nor stale workers that put it back behind another's claim
\* keep it going round for ever (worker.ts: the claim counts, not the failure).
ClaimsBounded ==
  \A j \in Jobs : retries[j] = 0 => attempts[j] <= MaxAttempts + interruptions

\* The claims row j may still see without another interruption: one of the row
\* itself where it can be claimed, and one by each holder whose count still lets
\* it put the row back.
Loose(j) ==
  IF status[j] = "pending" \/ (status[j] = "picked" /\ (expired[j] \/ \A w \in Workers : held[w] # j))
  THEN 1 ELSE 0
Returners(j) == {w \in Workers : held[w] = j /\ tries[w] < MaxAttempts}

\* The claims of row j from the maxAttempts-th on.
Excess(j) == IF attempts[j] < MaxAttempts THEN 0 ELSE attempts[j] - (MaxAttempts - 1)

\* The inductive invariant behind ClaimsBounded (OutboxClaimsProofs): what has been
\* claimed and what may be without another interruption has been paid for by those
\* there were.
Paid(j) ==
  retries[j] = 0 => Excess(j) + Cardinality(Returners(j)) + Loose(j) <= 1 + interruptions
ClaimsPaid == \A j \in Jobs : Paid(j)

\* Until something is interrupted, a held row is picked, inside its lease, and
\* its count is the holder's.
HeldInLease ==
  interruptions = 0 =>
    \A w \in Workers : held[w] # NoJob =>
      /\ status[held[w]] = "picked"
      /\ ~expired[held[w]]
      /\ tries[w] = attempts[held[w]]

\* The inductive invariant behind the properties above (OutboxProofs).
OutboxInv ==
  /\ NothingLost
  /\ DeadIsJustified
  /\ HolderKnows
  /\ NoStrayRow
  /\ ExclusiveUntilInterrupted
  /\ HeldInLease

\* Every enqueued row is finally out of the active queue: deleted or dead.
\* No row stays 'picked' behind a dead worker and none is retried for ever.
QueueDrains == \A j \in Jobs : <>[](status[j] \in {"absent", "dead"})

\* The abstract promise, with the rows of the two destinations as effects.
Delivery == INSTANCE DurableDelivery WITH
  Jobs      <- Jobs,
  EffectOf  <- [j \in Jobs |-> <<QueueOf(j), RowOf(j)>>],
  accepted  <- {j \in Jobs : Accepted(j)},
  shelved   <- {j \in Jobs : status[j] = "dead"},
  forgotten <- {j \in Jobs : Accepted(j) /\ status[j] = "absent"},
  landed    <- ({Audit} \X local) \cup ({Sync} \X cloud)

\* The outbox keeps the promise of DurableDelivery, step by step.
ImplementsDelivery == Delivery!DSpec
==============================================================================
