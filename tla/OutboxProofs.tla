----------------------------- MODULE OutboxProofs -----------------------------
(***************************************************************************)
(* Proofs about Outbox for any number of calls, workers, attempts,          *)
(* interruptions and retries: type correctness, the inductive invariant     *)
(* OutboxInv (and with it NothingLost, DeadIsJustified and                  *)
(* ExclusiveUntilInterrupted), and the refinement of DurableDelivery.       *)
(***************************************************************************)
EXTENDS Outbox, SequenceTheorems, TLAPS

USE OutboxAssumption

\* Taking a row out of `due` leaves a sequence of rows.
LEMMA DueWithoutType ==
  ASSUME NEW j \in Jobs, due \in Seq(Jobs)
  PROVE  DueWithout(j) \in Seq(Jobs)
<1>1. CASE ~IsDue(j)
  BY <1>1 DEF DueWithout
<1>2. CASE IsDue(j)
  <2> DEFINE i == CHOOSE i \in 1..Len(due) : due[i] = j
  <2>1. i \in 1..Len(due)
    BY <1>2 DEF IsDue
  <2> HIDE DEF i
  <2>2. SubSeq(due, 1, i - 1) \in Seq(Jobs) /\ SubSeq(due, i + 1, Len(due)) \in Seq(Jobs)
    BY <2>1
  <2>3. SubSeq(due, 1, i - 1) \o SubSeq(due, i + 1, Len(due)) \in Seq(Jobs)
    BY <2>2
  <2> QED
    BY <1>2, <2>3 DEF DueWithout, i
<1> QED
  BY <1>1, <1>2

\* Every pair of a call and a queue is a job, and a job is such a pair.
LEMMA JobParts ==
  /\ \A c \in Calls : <<c, Audit>> \in Jobs /\ <<c, Sync>> \in Jobs
  /\ \A j \in Jobs : /\ j[1] \in Calls
                     /\ QueueOf(j) \in {Audit, Sync}
                     /\ RowOf(j) \in Events
                     /\ j = <<j[1], QueueOf(j)>>
  /\ Audit # Sync
BY DEF Jobs, QueueOf, RowOf, Audit, Sync

\* A worker in the middle of #runOne holds a row (the part of HolderKnows that
\* type correctness needs).
BusyHolds == \A w \in Workers : pc[w] \in {"dispatching", "settling"} => held[w] \in Jobs

LEMMA TypedInit == Init => TypeOK /\ BusyHolds
BY DEF Init, TypeOK, BusyHolds

LEMMA EnqueueTyped ==
  ASSUME TypeOK, BusyHolds, NEW j \in Jobs, Enqueue(j),
         call' \in [Calls -> {"new", "audited", "done", "failed", "cut"}],
         UNCHANGED <<workerVars, destVars, envVars>>
  PROVE  TypeOK' /\ BusyHolds'
<1>1. due' \in Seq(Jobs) /\ status' \in [Jobs -> {"absent", "pending", "picked", "dead"}]
  BY DEF TypeOK, Enqueue
<1> QED
  BY <1>1 DEF TypeOK, BusyHolds, Enqueue, workerVars, destVars, envVars

\* One step keeps the types: one step of the proof per action.
LEMMA TypedNext == TypeOK /\ BusyHolds /\ [Next]_vars => TypeOK' /\ BusyHolds'
<1> SUFFICES ASSUME TypeOK, BusyHolds, [Next]_vars PROVE TypeOK' /\ BusyHolds'
  OBVIOUS
<1>1. ASSUME NEW c \in Calls, EnqueueAudit(c) PROVE TypeOK' /\ BusyHolds'
  <2>1. call' \in [Calls -> {"new", "audited", "done", "failed", "cut"}]
    BY <1>1 DEF EnqueueAudit, TypeOK
  <2> QED BY <1>1, <2>1, JobParts, EnqueueTyped DEF EnqueueAudit
<1>2. ASSUME NEW c \in Calls, EnqueueSync(c) PROVE TypeOK' /\ BusyHolds'
  <2>1. call' \in [Calls -> {"new", "audited", "done", "failed", "cut"}]
    BY <1>2 DEF EnqueueSync, TypeOK
  <2> QED BY <1>2, <2>1, JobParts, EnqueueTyped DEF EnqueueSync
<1>3. ASSUME NEW c \in Calls, CallCut(c) PROVE TypeOK' /\ BusyHolds'
  BY <1>3 DEF CallCut, TypeOK, BusyHolds, rowVars, workerVars, destVars, envVars
<1>4. ASSUME NEW w \in Workers, Claim(w) PROVE TypeOK' /\ BusyHolds'
  <2>1. PICK j \in Jobs :
          /\ status' = [status EXCEPT ![j] = "picked"]
          /\ expired' = [expired EXCEPT ![j] = FALSE]
          /\ attempts' = [attempts EXCEPT ![j] = @ + 1]
          /\ held' = [held EXCEPT ![w] = j]
          /\ tries' = [tries EXCEPT ![w] = attempts[j] + 1]
    BY <1>4 DEF Claim
  <2>2. /\ pc' = [pc EXCEPT ![w] = "dispatching"]
        /\ UNCHANGED <<call, due, outcome, destVars, envVars>>
    BY <1>4 DEF Claim
  <2>3. /\ status' \in [Jobs -> {"absent", "pending", "picked", "dead"}]
        /\ expired' \in [Jobs -> BOOLEAN] /\ attempts' \in [Jobs -> Nat]
        /\ tries' \in [Workers -> Nat]
    BY <2>1 DEF TypeOK
  <2>4. held' \in [Workers -> Jobs \cup {NoJob}] /\ BusyHolds'
    BY <2>1, <2>2 DEF TypeOK, BusyHolds
  <2> QED BY <2>2, <2>3, <2>4 DEF TypeOK, destVars, envVars
<1>5. ASSUME NEW w \in Workers, DispatchAudit(w) PROVE TypeOK' /\ BusyHolds'
  <2>1. held[w] \in Jobs /\ RowOf(held[w]) \in Events
    BY <1>5, JobParts DEF DispatchAudit, BusyHolds
  <2>2. PICK r \in {"success", "transient", "permanent"} : Answer(w, r)
    BY <1>5 DEF DispatchAudit
  <2>3. local' \subseteq Events /\ cloud' \subseteq Events
    BY <1>5, <2>1 DEF DispatchAudit, TypeOK
  <2> QED BY <1>5, <2>1, <2>2, <2>3 DEF Answer, TypeOK, BusyHolds, rowVars, envVars
<1>6. ASSUME NEW w \in Workers, DispatchSync(w) PROVE TypeOK' /\ BusyHolds'
  <2>1. held[w] \in Jobs /\ RowOf(held[w]) \in Events
    BY <1>6, JobParts DEF DispatchSync, BusyHolds
  <2>2. PICK r \in {"success", "transient", "permanent"} : Answer(w, r)
    BY <1>6 DEF DispatchSync
  <2>3. local' \subseteq Events /\ cloud' \subseteq Events
    BY <1>6, <2>1 DEF DispatchSync, TypeOK
  <2> QED BY <1>6, <2>1, <2>2, <2>3 DEF Answer, TypeOK, BusyHolds, rowVars, envVars
<1>7. ASSUME NEW w \in Workers, SettleSuccess(w) \/ SettleDead(w) \/ SettleRetry(w)
      PROVE TypeOK' /\ BusyHolds'
  <2>1. held[w] \in Jobs
    BY <1>7 DEF SettleSuccess, SettleDead, SettleRetry, BusyHolds
  <2>2. DueWithout(held[w]) \in Seq(Jobs)
    BY <2>1, DueWithoutType DEF TypeOK
  <2>3. due' \in Seq(Jobs) /\ GoIdle(w)
        /\ UNCHANGED <<call, attempts, expired, destVars, envVars>>
    BY <1>7, <2>2 DEF SettleSuccess, SettleDead, SettleRetry
  <2>4. status' \in [Jobs -> {"absent", "pending", "picked", "dead"}]
    <3>1. PICK x \in {"absent", "pending", "dead"} : status' = [status EXCEPT ![held[w]] = x]
      BY <1>7 DEF SettleSuccess, SettleDead, SettleRetry
    <3> QED BY <2>1, <3>1 DEF TypeOK
  <2>5. /\ pc' \in [Workers -> {"idle", "dispatching", "settling", "down"}]
        /\ held' \in [Workers -> Jobs \cup {NoJob}]
        /\ tries' \in [Workers -> Nat]
        /\ outcome' \in [Workers -> {"none", "success", "transient", "permanent"}]
        /\ BusyHolds'
    BY <2>3 DEF GoIdle, TypeOK, BusyHolds
  <2> QED BY <2>3, <2>4, <2>5 DEF TypeOK, destVars, envVars
<1>8. ASSUME NEW w \in Workers, SettleFails(w) PROVE TypeOK' /\ BusyHolds'
  BY <1>8 DEF SettleFails, GoIdle, Interrupt, TypeOK, BusyHolds, rowVars, destVars, envVars
<1>9. ASSUME NEW w \in Workers, Stop(w) PROVE TypeOK' /\ BusyHolds'
  BY <1>9 DEF Stop, Interrupt, TypeOK, BusyHolds, rowVars, destVars, envVars
<1>10. ASSUME NEW w \in Workers, Crash(w) PROVE TypeOK' /\ BusyHolds'
  BY <1>10 DEF Crash, Interrupt, TypeOK, BusyHolds, rowVars, destVars, envVars
<1>11. ASSUME NEW w \in Workers, Restart(w) PROVE TypeOK' /\ BusyHolds'
  BY <1>11 DEF Restart, TypeOK, BusyHolds, rowVars, destVars, envVars
<1>12. ASSUME NEW j \in Jobs, BackoffElapses(j) PROVE TypeOK' /\ BusyHolds'
  BY <1>12 DEF BackoffElapses, TypeOK, BusyHolds, workerVars, destVars, envVars
<1>13. ASSUME NEW j \in Jobs, OrphanLeaseExpires(j) PROVE TypeOK' /\ BusyHolds'
  BY <1>13 DEF OrphanLeaseExpires, LeaseRunsOut, TypeOK, BusyHolds, workerVars, destVars, envVars
<1>14. ASSUME NEW j \in Jobs, LeaseExpiresUnderWorker(j) PROVE TypeOK' /\ BusyHolds'
  BY <1>14 DEF LeaseExpiresUnderWorker, LeaseRunsOut, Interrupt, TypeOK, BusyHolds, workerVars, destVars, envVars
<1>15. ASSUME NEW j \in Jobs, RetryDead(j) PROVE TypeOK' /\ BusyHolds'
  <2>1. due' \in Seq(Jobs)
    BY <1>15 DEF RetryDead, TypeOK
  <2>2. retries' \in [Jobs -> 0..MaxRetries]
    BY <1>15 DEF RetryDead, TypeOK
  <2> QED BY <1>15, <2>1, <2>2 DEF RetryDead, TypeOK, BusyHolds, workerVars, destVars, envVars
<1>16. CASE UNCHANGED vars
  BY <1>16 DEF vars, rowVars, workerVars, destVars, envVars, TypeOK, BusyHolds
<1> QED
  BY <1>1, <1>2, <1>3, <1>4, <1>5, <1>6, <1>7, <1>8, <1>9, <1>10, <1>11, <1>12, <1>13,
     <1>14, <1>15, <1>16 DEF Next, WorkerStep

\* Type correctness: every variable keeps the shape the code gives it, under
\* every interleaving of recorders, workers, crashes and the clock.
THEOREM TypeCorrect == Spec => []TypeOK
<1>1. Spec => [](TypeOK /\ BusyHolds)
  BY TypedInit, TypedNext, PTL DEF Spec
<1> QED
  BY <1>1, PTL
-------------------------------------------------------------------------------
\* Only team mode leaves a call between its two INSERTs.
TeamCalls == \A c \in Calls : call[c] = "audited" => TeamMode

\* OutboxInv in two parts: what every interleaving keeps, and what holds until
\* something is interrupted.
RowsKept    == NothingLost /\ DeadIsJustified /\ HolderKnows /\ NoStrayRow
Undisturbed == ExclusiveUntilInterrupted /\ HeldInLease

IInv == TypeOK /\ BusyHolds /\ TeamCalls /\ RowsKept /\ Undisturbed

LEMMA InvInit == Init => IInv
<1> SUFFICES ASSUME Init PROVE IInv
  OBVIOUS
<1>1. TypeOK /\ BusyHolds
  BY TypedInit
<1>2. \A j \in Jobs : ~Accepted(j)
  BY JobParts DEF Init, Accepted
<1>3. TeamCalls /\ NothingLost /\ DeadIsJustified /\ NoStrayRow
  BY <1>2 DEF Init, TeamCalls, NothingLost, DeadIsJustified, NoStrayRow
<1>4. HolderKnows
  BY DEF Init, HolderKnows, Knows
<1>5. Undisturbed
  BY DEF Init, Undisturbed, ExclusiveUntilInterrupted, HeldInLease
<1> QED
  BY <1>1, <1>3, <1>4, <1>5 DEF IInv, RowsKept

\* A worker's step that leaves the calls alone and only adds destination rows
\* keeps every promise already kept.
LEMMA Monotone ==
  ASSUME UNCHANGED call, local \subseteq local', cloud \subseteq cloud'
  PROVE  \A j \in Jobs : /\ Accepted(j)' <=> Accepted(j)
                         /\ Landed(j) => Landed(j)'
BY DEF Accepted, Landed, Destination

\* Inserting row k: the only new row, and the only newly accepted job.
LEMMA EnqueueKeeps ==
  ASSUME IInv, NEW k \in Jobs, Enqueue(k), UNCHANGED <<workerVars, destVars, envVars>>,
         \A j \in Jobs : Accepted(j)' <=> Accepted(j) \/ j = k
  PROVE  RowsKept'
<1> USE DEF IInv, RowsKept, workerVars, destVars, envVars
<1>1. /\ status'[k] = "pending"
      /\ \A j \in Jobs : j # k => status'[j] = status[j]
  BY DEF Enqueue, TypeOK
<1>2. \A j \in Jobs : Landed(j)' <=> Landed(j)
  BY DEF Landed, Destination
<1>3. NothingLost' /\ NoStrayRow'
  BY <1>1, <1>2 DEF NothingLost, NoStrayRow
<1>4. DeadIsJustified'
  BY <1>1 DEF Enqueue, DeadIsJustified
<1>5. HolderKnows'
  BY <1>2 DEF HolderKnows, Knows, BusyHolds, TypeOK, Enqueue
<1> QED
  BY <1>3, <1>4, <1>5

LEMMA EnqueueAuditKeeps ==
  ASSUME IInv, NEW c \in Calls, EnqueueAudit(c) PROVE TeamCalls' /\ RowsKept'
<1> DEFINE k == <<c, Audit>>
<1>1. k \in Jobs /\ k[1] = c /\ QueueOf(k) = Audit
  BY JobParts DEF QueueOf
<1>2. /\ call'[c] = IF TeamMode THEN "audited" ELSE "done"
      /\ \A d \in Calls : d # c => call'[d] = call[d]
      /\ call[c] = "new"
  BY DEF EnqueueAudit, IInv, TypeOK
<1>3. \A j \in Jobs : Accepted(j)' <=> Accepted(j) \/ j = k
  <2> SUFFICES ASSUME NEW j \in Jobs PROVE Accepted(j)' <=> Accepted(j) \/ j = k
    OBVIOUS
  <2>1. j = k <=> j[1] = c /\ QueueOf(j) = Audit
    BY <1>1, JobParts
  <2> HIDE DEF k
  <2> QED
    BY <1>2, <2>1, JobParts DEF Accepted
<1>4. TeamCalls'
  BY <1>2 DEF TeamCalls, IInv
<1> QED
  BY <1>1, <1>3, <1>4, EnqueueKeeps DEF EnqueueAudit

LEMMA EnqueueSyncKeeps ==
  ASSUME IInv, NEW c \in Calls, EnqueueSync(c) PROVE TeamCalls' /\ RowsKept'
<1> DEFINE k == <<c, Sync>>
<1>1. k \in Jobs /\ k[1] = c /\ QueueOf(k) = Sync
  BY JobParts DEF QueueOf
<1>2. /\ call'[c] = "done" /\ TeamMode
      /\ \A d \in Calls : d # c => call'[d] = call[d]
      /\ call[c] = "audited"
  BY DEF EnqueueSync, IInv, TypeOK, TeamCalls
<1>3. \A j \in Jobs : Accepted(j)' <=> Accepted(j) \/ j = k
  <2> SUFFICES ASSUME NEW j \in Jobs PROVE Accepted(j)' <=> Accepted(j) \/ j = k
    OBVIOUS
  <2>1. j = k <=> j[1] = c /\ QueueOf(j) = Sync
    BY <1>1, JobParts
  <2> HIDE DEF k
  <2> QED
    BY <1>2, <2>1, JobParts DEF Accepted
<1>4. TeamCalls'
  BY <1>2 DEF TeamCalls, IInv
<1> QED
  BY <1>1, <1>3, <1>4, EnqueueKeeps DEF EnqueueSync

LEMMA CallCutKeeps ==
  ASSUME IInv, NEW c \in Calls, CallCut(c) PROVE TeamCalls' /\ RowsKept'
<1> USE DEF IInv, RowsKept, rowVars, workerVars, destVars, envVars
<1>1. \A j \in Jobs : Accepted(j)' <=> Accepted(j)
  BY JobParts DEF CallCut, Accepted, TypeOK
<1>2. TeamCalls'
  BY DEF CallCut, TeamCalls, TypeOK
<1>3. \A j \in Jobs : Landed(j)' <=> Landed(j)
  BY DEF CallCut, Landed, Destination
<1>4. NothingLost' /\ NoStrayRow' /\ DeadIsJustified'
  BY <1>1, <1>3 DEF CallCut, NothingLost, NoStrayRow, DeadIsJustified
<1>5. HolderKnows'
  BY <1>1, <1>3 DEF CallCut, HolderKnows, Knows, TypeOK
<1> QED
  BY <1>2, <1>4, <1>5
\* Claiming: the row was there, so it was accepted; the claim's count is the
\* row's new count, which no earlier claimant exceeds.
LEMMA ClaimKeeps ==
  ASSUME IInv, NEW w \in Workers, Claim(w) PROVE RowsKept'
<1> USE DEF IInv, RowsKept
<1>1. PICK j \in Jobs :
        /\ Claimable(w, j)
        /\ status' = [status EXCEPT ![j] = "picked"]
        /\ attempts' = [attempts EXCEPT ![j] = @ + 1]
        /\ held' = [held EXCEPT ![w] = j]
        /\ tries' = [tries EXCEPT ![w] = attempts[j] + 1]
  BY DEF Claim
<1>2. QueueOf(j) \in Filter(w) /\ status[j] \in {"pending", "picked"} /\ Accepted(j)
  BY <1>1 DEF Claimable, NoStrayRow
<1>3. /\ status'[j] = "picked" /\ attempts'[j] = attempts[j] + 1
      /\ \A k \in Jobs : k # j => status'[k] = status[k] /\ attempts'[k] = attempts[k]
      /\ attempts[j] \in Nat
  BY <1>1 DEF TypeOK
<1>4. \A k \in Jobs : (Accepted(k)' <=> Accepted(k)) /\ (Landed(k)' <=> Landed(k))
  BY DEF Claim, Accepted, Landed, Destination, destVars
<1>5. NothingLost' /\ NoStrayRow' /\ DeadIsJustified'
  BY <1>2, <1>3, <1>4 DEF Claim, envVars, NothingLost, NoStrayRow, DeadIsJustified
<1>6. /\ held'[w] = j /\ tries'[w] = attempts[j] + 1 /\ pc'[w] = "dispatching"
      /\ outcome' = outcome /\ pc[w] = "idle"
      /\ \A v \in Workers : v # w => held'[v] = held[v] /\ tries'[v] = tries[v] /\ pc'[v] = pc[v]
  BY <1>1 DEF Claim, TypeOK
<1>7. HolderKnows'
  <2> SUFFICES ASSUME NEW v \in Workers PROVE Knows(v)'
    BY DEF HolderKnows
  <2>1. CASE v = w
    BY <2>1, <1>2, <1>3, <1>4, <1>6 DEF HolderKnows, Knows
  <2>2. CASE v # w
    <3>1. held[v] # NoJob => /\ held[v] \in Jobs
                             /\ tries[v] <= attempts'[held[v]] \/ retries'[held[v]] > 0
      <4> SUFFICES ASSUME held[v] # NoJob
                   PROVE  /\ held[v] \in Jobs
                          /\ tries[v] <= attempts'[held[v]] \/ retries'[held[v]] > 0
        OBVIOUS
      <4>1. /\ held[v] \in Jobs /\ tries[v] \in Nat
            /\ tries[v] <= attempts[held[v]] \/ retries[held[v]] > 0
        BY DEF HolderKnows, Knows, TypeOK
      <4>2. attempts[held[v]] \in Nat /\ retries' = retries
        BY <4>1 DEF TypeOK, Claim, envVars
      <4> QED BY <1>3, <4>1, <4>2
    <3>2. outcome[v] \in {"success", "permanent"} => held[v] \in Jobs
      BY <3>1 DEF HolderKnows, Knows
    <3> QED
      BY <2>2, <3>1, <3>2, <1>4, <1>6 DEF HolderKnows, Knows
  <2> QED BY <2>1, <2>2
<1> QED
  BY <1>5, <1>7

\* An answered dispatch: what the worker now knows is true of the destination.
LEMMA AnswerKeeps ==
  ASSUME IInv, NEW w \in Workers, NEW r \in {"success", "transient", "permanent"},
         pc[w] = "dispatching", Answer(w, r),
         local \subseteq local', cloud \subseteq cloud',
         r = "success" => Landed(held[w])',
         r = "permanent" => QueueOf(held[w]) = Audit /\ held[w][1] \in Malformed
  PROVE  RowsKept'
<1> USE DEF IInv, RowsKept, Answer, rowVars, envVars
<1>1. \A k \in Jobs : (Accepted(k)' <=> Accepted(k)) /\ (Landed(k) => Landed(k)')
  BY Monotone
<1>2. NothingLost' /\ NoStrayRow' /\ DeadIsJustified'
  BY <1>1 DEF NothingLost, NoStrayRow, DeadIsJustified
<1>3. /\ outcome'[w] = r /\ pc'[w] = "settling"
      /\ \A v \in Workers : v # w => outcome'[v] = outcome[v] /\ pc'[v] = pc[v]
      /\ held' = held /\ tries' = tries /\ attempts' = attempts
  BY DEF TypeOK
<1>4. \A v \in Workers : held[v] # NoJob => held[v] \in Jobs
  BY DEF TypeOK
<1>5. HolderKnows'
  <2> SUFFICES ASSUME NEW v \in Workers PROVE Knows(v)'
    BY DEF HolderKnows
  <2>1. CASE v = w
    BY <2>1, <1>1, <1>3, <1>4 DEF HolderKnows, Knows
  <2>2. CASE v # w
    BY <2>2, <1>1, <1>3, <1>4 DEF HolderKnows, Knows
  <2> QED BY <2>1, <2>2
<1> QED
  BY <1>2, <1>5

LEMMA DispatchAuditKeeps ==
  ASSUME IInv, NEW w \in Workers, DispatchAudit(w) PROVE RowsKept'
<1>1. pc[w] = "dispatching" /\ QueueOf(held[w]) = Audit /\ cloud' = cloud
  BY DEF DispatchAudit
<1>2. \/ held[w][1] \in Malformed /\ Answer(w, "permanent") /\ local' = local
      \/ Answer(w, "success") /\ local' = local \cup {RowOf(held[w])}
      \/ Answer(w, "transient") /\ local' = local
  BY DEF DispatchAudit
<1>3. Answer(w, "success") /\ local' = local \cup {RowOf(held[w])} => Landed(held[w])'
  BY <1>1 DEF Landed, Destination, Answer
<1> QED
  BY <1>1, <1>2, <1>3, AnswerKeeps

LEMMA DispatchSyncKeeps ==
  ASSUME IInv, NEW w \in Workers, DispatchSync(w) PROVE RowsKept'
<1>1. pc[w] = "dispatching" /\ QueueOf(held[w]) = Sync /\ local' = local
  BY DEF DispatchSync
<1>2. \/ Answer(w, "transient") /\ cloud' = cloud
      \/ /\ RowOf(held[w]) \in local
         /\ Answer(w, "success") \/ Answer(w, "transient")
         /\ cloud' = cloud \cup {RowOf(held[w])}
  BY DEF DispatchSync
<1>3. cloud' = cloud \cup {RowOf(held[w])} => Landed(held[w])'
  BY <1>1, <1>2, JobParts DEF Landed, Destination, Answer
<1> QED
  BY <1>1, <1>2, <1>3, AnswerKeeps
\* A worker that lets go of its row: it knows nothing any more, and the others
\* know what they knew, since only the row's status has changed.
LEMMA GoIdleKeeps ==
  ASSUME IInv, NEW w \in Workers, pc'[w] \in {"idle", "down"}, held'[w] = NoJob,
         outcome'[w] = "none",
         \A v \in Workers : v # w =>
           pc'[v] = pc[v] /\ held'[v] = held[v] /\ tries'[v] = tries[v] /\ outcome'[v] = outcome[v],
         UNCHANGED <<call, attempts, retries, destVars>>
  PROVE  HolderKnows'
<1> USE DEF IInv, RowsKept, destVars
<1>1. \A k \in Jobs : (Accepted(k)' <=> Accepted(k)) /\ (Landed(k) => Landed(k)')
  BY Monotone
<1>2. \A v \in Workers : held[v] # NoJob => held[v] \in Jobs
  BY DEF TypeOK
<1>3. ASSUME NEW v \in Workers PROVE Knows(v)'
  <2>1. CASE v = w
    BY <2>1 DEF Knows
  <2>2. CASE v # w
    BY <2>2, <1>1, <1>2 DEF HolderKnows, Knows
  <2> QED BY <2>1, <2>2
<1> QED
  BY <1>3 DEF HolderKnows

LEMMA SettleKeeps ==
  ASSUME IInv, NEW w \in Workers, pc[w] = "settling", GoIdle(w),
         UNCHANGED <<call, attempts, destVars, envVars>>,
         NEW x \in {"absent", "pending", "dead"},
         status' = [status EXCEPT ![held[w]] = x],
         x = "absent" => Landed(held[w]) \/ status[held[w]] = "absent",
         x # "absent" => status[held[w]] # "absent",
         x = "dead" => \/ attempts[held[w]] >= MaxAttempts
                       \/ QueueOf(held[w]) = Audit /\ held[w][1] \in Malformed
                       \/ retries[held[w]] > 0 /\ interruptions > 0
  PROVE  RowsKept'
<1> USE DEF IInv, RowsKept
<1> DEFINE j == held[w]
<1>1. j \in Jobs /\ Accepted(j)
  BY DEF BusyHolds, HolderKnows, Knows
<1> HIDE DEF j
<1>2. /\ status'[j] = x
      /\ \A k \in Jobs : k # j => status'[k] = status[k]
  BY <1>1 DEF TypeOK, j
<1>3. \A k \in Jobs : (Accepted(k)' <=> Accepted(k)) /\ (Landed(k) => Landed(k)')
  BY Monotone DEF destVars, envVars
<1>4. NothingLost' /\ NoStrayRow'
  BY <1>1, <1>2, <1>3 DEF NothingLost, NoStrayRow, j
<1>5. DeadIsJustified'
  BY <1>1, <1>2 DEF DeadIsJustified, j, envVars
<1>6. HolderKnows'
  BY GoIdleKeeps DEF GoIdle, TypeOK, envVars
<1> QED
  BY <1>4, <1>5, <1>6

LEMMA SettleStepsKeep ==
  ASSUME IInv, NEW w \in Workers, SettleSuccess(w) \/ SettleDead(w) \/ SettleRetry(w)
  PROVE  RowsKept'
<1>1. /\ pc[w] = "settling" /\ GoIdle(w)
      /\ UNCHANGED <<call, attempts, destVars, envVars>>
      /\ Knows(w) /\ held[w] \in Jobs
  BY DEF SettleSuccess, SettleDead, SettleRetry, IInv, RowsKept, HolderKnows, BusyHolds
<1>2. CASE SettleSuccess(w)
  <2>1. status' = [status EXCEPT ![held[w]] = "absent"] /\ Landed(held[w])
    BY <1>1, <1>2 DEF SettleSuccess, Knows
  <2> QED BY <1>1, <2>1, SettleKeeps
<1>3. CASE SettleDead(w)
  <2>1. \/ attempts[held[w]] >= MaxAttempts
        \/ QueueOf(held[w]) = Audit /\ held[w][1] \in Malformed
        \/ retries[held[w]] > 0 /\ interruptions > 0
    <3>1. tries[w] \in Nat /\ attempts[held[w]] \in Nat /\ interruptions \in Nat
      BY <1>1 DEF IInv, TypeOK
    <3>2. CASE outcome[w] = "permanent"
      BY <1>1, <3>2 DEF Knows
    <3>3. CASE tries[w] >= MaxAttempts /\ tries[w] <= attempts[held[w]]
      BY <3>1, <3>3
    <3>4. CASE tries[w] >= MaxAttempts /\ ~(tries[w] <= attempts[held[w]])
      <4>1. held[w] # NoJob /\ retries[held[w]] > 0
        BY <1>1, <3>4 DEF Knows
      <4>2. interruptions # 0
        BY <3>1, <3>4, <4>1 DEF IInv, Undisturbed, HeldInLease
      <4> QED BY <3>1, <4>1, <4>2
    <3> QED BY <1>3, <3>2, <3>3, <3>4 DEF SettleDead, GivesUp
  <2>2. CASE status[held[w]] = "absent"
    <3>1. status' = [status EXCEPT ![held[w]] = "absent"]
      BY <1>3, <2>2 DEF SettleDead
    <3> QED BY <1>1, <2>2, <3>1, SettleKeeps
  <2>3. CASE status[held[w]] # "absent"
    <3>1. status' = [status EXCEPT ![held[w]] = "dead"]
      BY <1>3, <2>3 DEF SettleDead
    <3> QED BY <1>1, <2>1, <2>3, <3>1, SettleKeeps
  <2> QED BY <2>2, <2>3
<1>4. CASE SettleRetry(w)
  <2>1. CASE status[held[w]] = "absent"
    <3>1. status' = [status EXCEPT ![held[w]] = "absent"]
      BY <1>4, <2>1 DEF SettleRetry
    <3> QED BY <1>1, <2>1, <3>1, SettleKeeps
  <2>2. CASE status[held[w]] # "absent"
    <3>1. status' = [status EXCEPT ![held[w]] = "pending"]
      BY <1>4, <2>2 DEF SettleRetry
    <3> QED BY <1>1, <2>2, <3>1, SettleKeeps
  <2> QED BY <2>1, <2>2
<1> QED
  BY <1>2, <1>3, <1>4

\* Steps that leave the rows, the calls and the destinations alone.
LEMMA ProcessStepsKeep ==
  ASSUME IInv, NEW w \in Workers, SettleFails(w) \/ Stop(w) \/ Crash(w) \/ Restart(w)
  PROVE  RowsKept'
<1> USE DEF IInv, RowsKept
<1>1. /\ UNCHANGED <<call, status, attempts, retries, destVars>>
      /\ interruptions > 0 => interruptions' > 0
  BY DEF SettleFails, Stop, Crash, Restart, Interrupt, rowVars, envVars, TypeOK
<1>2. \A k \in Jobs : (Accepted(k)' <=> Accepted(k)) /\ (Landed(k) => Landed(k)')
  BY <1>1, Monotone DEF destVars
<1>3. NothingLost' /\ NoStrayRow' /\ DeadIsJustified'
  BY <1>1, <1>2 DEF NothingLost, NoStrayRow, DeadIsJustified
<1>4. pc'[w] \in {"idle", "down"}
  BY DEF SettleFails, GoIdle, Stop, Crash, Restart, TypeOK
<1>5. held'[w] = NoJob /\ outcome'[w] = "none"
  BY DEF SettleFails, GoIdle, Stop, Crash, Restart, TypeOK, HolderKnows, Knows
<1>6. \A v \in Workers : v # w =>
        pc'[v] = pc[v] /\ held'[v] = held[v] /\ tries'[v] = tries[v] /\ outcome'[v] = outcome[v]
  BY DEF SettleFails, GoIdle, Stop, Crash, Restart, TypeOK
<1> QED
  BY <1>1, <1>3, <1>4, <1>5, <1>6, GoIdleKeeps

\* Steps of the clock touch neither what the rows say nor what workers know.
LEMMA ClockStepsKeep ==
  ASSUME IInv,
         UNCHANGED <<call, status, attempts, retries, workerVars, destVars>>,
         interruptions > 0 => interruptions' > 0
  PROVE  TeamCalls' /\ RowsKept'
<1> USE DEF IInv, RowsKept, workerVars, destVars
<1>1. \A k \in Jobs : (Accepted(k)' <=> Accepted(k)) /\ (Landed(k)' <=> Landed(k))
  BY DEF Accepted, Landed, Destination
<1>2. \A v \in Workers : held[v] # NoJob => held[v] \in Jobs
  BY DEF TypeOK
<1>3. NothingLost' /\ NoStrayRow' /\ DeadIsJustified' /\ TeamCalls'
  BY <1>1 DEF NothingLost, NoStrayRow, DeadIsJustified, TeamCalls
<1>4. ASSUME NEW v \in Workers PROVE Knows(v)'
  BY <1>1, <1>2 DEF HolderKnows, Knows
<1> QED
  BY <1>3, <1>4 DEF HolderKnows

\* The operator's retry: the row was dead, so it was accepted and stays stored;
\* whoever still holds it knows no more than that it was retried.
LEMMA RetryDeadKeeps ==
  ASSUME IInv, NEW j \in Jobs, RetryDead(j) PROVE TeamCalls' /\ RowsKept'
<1> USE DEF IInv, RowsKept, workerVars, destVars
<1>1. \A k \in Jobs : (Accepted(k)' <=> Accepted(k)) /\ (Landed(k)' <=> Landed(k))
  BY DEF RetryDead, Accepted, Landed, Destination
<1>2. /\ status[j] = "dead" /\ status'[j] = "pending" /\ retries'[j] > 0
      /\ \A k \in Jobs : k # j => /\ status'[k] = status[k]
                                 /\ attempts'[k] = attempts[k]
                                 /\ retries'[k] = retries[k]
  BY DEF RetryDead, TypeOK
<1>3. NothingLost' /\ NoStrayRow' /\ DeadIsJustified'
  BY <1>1, <1>2 DEF RetryDead, NothingLost, NoStrayRow, DeadIsJustified
<1>4. TeamCalls'
  BY DEF RetryDead, TeamCalls
<1>5. \A v \in Workers : held[v] # NoJob => held[v] \in Jobs
  BY DEF TypeOK
<1>6. ASSUME NEW v \in Workers PROVE Knows(v)'
  <2>1. Knows(v) /\ UNCHANGED workerVars
    BY DEF HolderKnows, RetryDead
  <2>2. CASE held[v] = j
    BY <1>1, <1>2, <1>5, <2>1, <2>2 DEF Knows
  <2>3. CASE held[v] # j
    BY <1>1, <1>2, <1>5, <2>1, <2>3 DEF Knows
  <2> QED BY <2>2, <2>3
<1> QED
  BY <1>3, <1>4, <1>6 DEF HolderKnows

\* Interruptions are only counted up.
LEMMA InterruptionsGrow ==
  ASSUME [Next]_vars PROVE interruptions' \in {interruptions, interruptions + 1}
<1> USE DEF envVars
<1>1. ASSUME NEW c \in Calls, EnqueueAudit(c) \/ EnqueueSync(c) \/ CallCut(c)
      PROVE  interruptions' = interruptions
  BY <1>1 DEF EnqueueAudit, EnqueueSync, CallCut
<1>2. ASSUME NEW w \in Workers, WorkerStep(w)
      PROVE  interruptions' \in {interruptions, interruptions + 1}
  BY <1>2 DEF WorkerStep, Claim, DispatchAudit, DispatchSync, Answer, SettleSuccess,
              SettleDead, SettleRetry, SettleFails, Stop, Crash, Restart, Interrupt
<1>3. ASSUME NEW j \in Jobs, \/ BackoffElapses(j) \/ OrphanLeaseExpires(j)
                             \/ LeaseExpiresUnderWorker(j) \/ RetryDead(j)
      PROVE  interruptions' \in {interruptions, interruptions + 1}
  BY <1>3 DEF BackoffElapses, OrphanLeaseExpires, LeaseExpiresUnderWorker, RetryDead, Interrupt
<1>4. CASE UNCHANGED vars
  BY <1>4 DEF vars
<1> QED
  BY <1>1, <1>2, <1>3, <1>4 DEF Next

\* Until something is interrupted, a held row stays picked inside its lease:
\* a claim takes rows that are pending or whose lease is over, the clock ends
\* only leases nobody holds, and a dead row has no holder.
LEMMA UndisturbedNext == IInv /\ [Next]_vars => Undisturbed'
<1> SUFFICES ASSUME IInv, [Next]_vars, interruptions' = 0 PROVE Undisturbed'
  BY DEF Undisturbed, ExclusiveUntilInterrupted, HeldInLease
<1> USE DEF IInv, RowsKept
<1>1. \A w \in Workers : held[w] # NoJob => held[w] \in Jobs /\ Accepted(held[w])
  BY DEF TypeOK, HolderKnows, Knows
<1> DEFINE Calm ==
      /\ \A v, w \in Workers : v # w /\ held[v] = held[w] => held[v] = NoJob
      /\ \A w \in Workers : held[w] # NoJob =>
           /\ status[held[w]] = "picked" /\ ~expired[held[w]]
           /\ tries[w] = attempts[held[w]]
<1>2. SUFFICES ASSUME Calm PROVE Calm'
  <2>1. CASE interruptions = 0
    BY <1>2, <2>1 DEF Undisturbed, ExclusiveUntilInterrupted, HeldInLease
  <2>2. interruptions' \in {interruptions, interruptions + 1} /\ interruptions \in Nat
    BY InterruptionsGrow DEF TypeOK
  <2> QED BY <2>1, <2>2
<1>3. ASSUME NEW k \in Jobs, ~Accepted(k), Enqueue(k), UNCHANGED workerVars PROVE Calm'
  <2>1. \A w \in Workers : held[w] # k
    BY <1>1, <1>3, JobParts DEF TypeOK
  <2>2. \A j \in Jobs : j # k => status'[j] = status[j]
    BY <1>3 DEF Enqueue, TypeOK
  <2> QED BY <1>1, <1>2, <1>3, <2>1, <2>2 DEF Enqueue, workerVars
<1>4. ASSUME NEW c \in Calls, EnqueueAudit(c) PROVE Calm'
  <2>1. <<c, Audit>> \in Jobs /\ ~Accepted(<<c, Audit>>)
    BY <1>4, JobParts DEF EnqueueAudit, Accepted, QueueOf
  <2> QED BY <1>3, <1>4, <2>1 DEF EnqueueAudit
<1>5. ASSUME NEW c \in Calls, EnqueueSync(c) PROVE Calm'
  <2>1. <<c, Sync>> \in Jobs /\ ~Accepted(<<c, Sync>>)
    BY <1>5, JobParts DEF EnqueueSync, Accepted, QueueOf
  <2> QED BY <1>3, <1>5, <2>1 DEF EnqueueSync
<1>6. ASSUME NEW w \in Workers, Claim(w) PROVE Calm'
  <2>1. PICK j \in Jobs :
          /\ Claimable(w, j)
          /\ status' = [status EXCEPT ![j] = "picked"]
          /\ expired' = [expired EXCEPT ![j] = FALSE]
          /\ attempts' = [attempts EXCEPT ![j] = @ + 1]
          /\ held' = [held EXCEPT ![w] = j]
          /\ tries' = [tries EXCEPT ![w] = attempts[j] + 1]
    BY <1>6 DEF Claim
  <2>2. \A v \in Workers : held[v] # j
    <3>1. j # NoJob /\ (status[j] = "pending" \/ expired[j])
      BY <2>1, JobParts DEF Claimable
    <3> QED BY <1>2, <3>1
  <2>3. /\ status'[j] = "picked" /\ ~expired'[j] /\ attempts'[j] = attempts[j] + 1
        /\ held'[w] = j /\ tries'[w] = attempts[j] + 1
        /\ \A k \in Jobs : k # j => /\ status'[k] = status[k] /\ expired'[k] = expired[k]
                                   /\ attempts'[k] = attempts[k]
        /\ \A v \in Workers : v # w => held'[v] = held[v] /\ tries'[v] = tries[v]
    BY <2>1 DEF TypeOK
  <2> QED BY <1>1, <1>2, <2>2, <2>3
<1>7. ASSUME NEW w \in Workers, DispatchAudit(w) \/ DispatchSync(w) \/ Restart(w)
      PROVE  Calm'
  BY <1>2, <1>7 DEF DispatchAudit, DispatchSync, Answer, Restart, rowVars
<1>8. ASSUME NEW w \in Workers, SettleSuccess(w) \/ SettleDead(w) \/ SettleRetry(w) PROVE Calm'
  <2>1. /\ UNCHANGED <<attempts, expired>> /\ held[w] \in Jobs /\ held[w] # NoJob
        /\ \A k \in Jobs : k # held[w] => status'[k] = status[k]
    BY <1>8 DEF SettleSuccess, SettleDead, SettleRetry, BusyHolds, TypeOK
  <2>2. /\ held'[w] = NoJob
        /\ \A v \in Workers : v # w => held'[v] = held[v] /\ tries'[v] = tries[v]
    BY <1>8 DEF SettleSuccess, SettleDead, SettleRetry, GoIdle, TypeOK
  <2> QED BY <1>1, <1>2, <2>1, <2>2
<1>9. ASSUME NEW j \in Jobs, RetryDead(j) PROVE Calm'
  <2>1. \A w \in Workers : held[w] # j
    BY <1>2, <1>9, JobParts DEF RetryDead, TypeOK
  <2>2. /\ UNCHANGED <<held, tries, expired>>
        /\ \A k \in Jobs : k # j => status'[k] = status[k] /\ attempts'[k] = attempts[k]
    BY <1>9 DEF RetryDead, TypeOK, workerVars
  <2> QED BY <1>1, <1>2, <2>1, <2>2
<1>10. ASSUME NEW j \in Jobs, BackoffElapses(j) PROVE Calm'
  BY <1>2, <1>10 DEF BackoffElapses, workerVars
<1>11. ASSUME NEW j \in Jobs, OrphanLeaseExpires(j) PROVE Calm'
  <2>1. /\ \A w \in Workers : held[w] # j
        /\ UNCHANGED <<held, tries, status, attempts>>
        /\ \A k \in Jobs : k # j => expired'[k] = expired[k]
    BY <1>11 DEF OrphanLeaseExpires, LeaseRunsOut, TypeOK, workerVars
  <2> QED BY <1>1, <1>2, <2>1
<1>12. ASSUME NEW c \in Calls, CallCut(c) PROVE Calm'
  BY <1>2, <1>12 DEF CallCut, rowVars, workerVars
<1>13. ~Interrupt
  BY DEF Interrupt, TypeOK
<1>14. CASE UNCHANGED vars
  BY <1>2, <1>14 DEF vars, rowVars, workerVars
<1> HIDE DEF Calm
<1> QED
  BY <1>4, <1>5, <1>6, <1>7, <1>8, <1>9, <1>10, <1>11, <1>12, <1>13, <1>14
     DEF Next, WorkerStep, SettleFails, Stop, Crash, LeaseExpiresUnderWorker

LEMMA InvNext == IInv /\ [Next]_vars => IInv'
<1> SUFFICES ASSUME IInv, [Next]_vars PROVE IInv'
  OBVIOUS
<1>1. TypeOK' /\ BusyHolds'
  BY TypedNext DEF IInv
<1>2. TeamCalls' /\ RowsKept'
  <2>1. ASSUME NEW c \in Calls, EnqueueAudit(c) \/ EnqueueSync(c) \/ CallCut(c)
        PROVE  TeamCalls' /\ RowsKept'
    BY <2>1, EnqueueAuditKeeps, EnqueueSyncKeeps, CallCutKeeps
  <2>2. ASSUME NEW w \in Workers, WorkerStep(w) PROVE TeamCalls' /\ RowsKept'
    <3>1. call' = call
      BY <2>2 DEF WorkerStep, Claim, DispatchAudit, DispatchSync, Answer, SettleSuccess,
                  SettleDead, SettleRetry, SettleFails, Stop, Crash, Restart
    <3>2. TeamCalls'
      BY <3>1 DEF TeamCalls, IInv
    <3>3. RowsKept'
      BY <2>2, ClaimKeeps, DispatchAuditKeeps, DispatchSyncKeeps, SettleStepsKeep,
         ProcessStepsKeep DEF WorkerStep
    <3> QED BY <3>2, <3>3
  <2>3. ASSUME NEW j \in Jobs,
               BackoffElapses(j) \/ OrphanLeaseExpires(j) \/ LeaseExpiresUnderWorker(j)
        PROVE  TeamCalls' /\ RowsKept'
    <3>1. /\ UNCHANGED <<call, status, attempts, retries, workerVars, destVars>>
          /\ interruptions > 0 => interruptions' > 0
      BY <2>3 DEF BackoffElapses, OrphanLeaseExpires, LeaseExpiresUnderWorker, LeaseRunsOut,
                  Interrupt, envVars, IInv, TypeOK
    <3> QED BY <3>1, ClockStepsKeep
  <2>4. CASE UNCHANGED vars
    BY <2>4, ClockStepsKeep DEF vars, rowVars, envVars
  <2>5. ASSUME NEW j \in Jobs, RetryDead(j) PROVE TeamCalls' /\ RowsKept'
    BY <2>5, RetryDeadKeeps
  <2> QED
    BY <2>1, <2>2, <2>3, <2>4, <2>5 DEF Next
<1>3. Undisturbed'
  BY UndisturbedNext
<1> QED
  BY <1>1, <1>2, <1>3 DEF IInv

\* The inductive invariant holds for every number of calls, workers, attempts
\* and interruptions.
THEOREM InvariantHolds == Spec => []OutboxInv
<1>1. Spec => []IInv
  BY InvInit, InvNext, PTL DEF Spec
<1>2. IInv => OutboxInv
  BY DEF IInv, RowsKept, Undisturbed, OutboxInv
<1> QED
  BY <1>1, <1>2, PTL

\* worker.ts "Crash safety": an enqueued job is in pending_jobs, or its row is
\* at its destination.
THEOREM NoJobIsLost == Spec => []NothingLost
<1>1. OutboxInv => NothingLost
  BY DEF OutboxInv
<1> QED
  BY <1>1, InvariantHolds, PTL

\* A dead row was refused or was claimed maxAttempts times, whoever settled it,
\* unless the operator had retried it while a stale worker still held it.
THEOREM DeathIsJustified == Spec => []DeadIsJustified
<1>1. OutboxInv => DeadIsJustified
  BY DEF OutboxInv
<1> QED
  BY <1>1, InvariantHolds, PTL
\* The atomic claim of worker.ts excludes every other worker from a row until
\* one is stopped, stalls or fails to store its outcome.
THEOREM ClaimsExclude == Spec => []ExclusiveUntilInterrupted
<1>1. OutboxInv => ExclusiveUntilInterrupted
  BY DEF OutboxInv
<1> QED
  BY <1>1, InvariantHolds, PTL
-------------------------------------------------------------------------------
(* The refinement of DurableDelivery *)

AbsAccepted  == {j \in Jobs : Accepted(j)}
AbsShelved   == {j \in Jobs : status[j] = "dead"}
AbsForgotten == {j \in Jobs : Accepted(j) /\ status[j] = "absent"}
AbsLanded    == ({Audit} \X local) \cup ({Sync} \X cloud)
AbsEffect    == [j \in Jobs |-> <<QueueOf(j), RowOf(j)>>]
AbsVars      == <<AbsAccepted, AbsShelved, AbsForgotten, AbsLanded>>

\* A job's effect has landed in the abstract state when its row is at the
\* destination of its queue.
LEMMA EffectLanded == \A j \in Jobs : AbsEffect[j] \in AbsLanded <=> Landed(j)
BY JobParts DEF AbsEffect, AbsLanded, Landed, Destination

\* The abstract state depends on these four only.
LEMMA AbsStutter ==
  ASSUME UNCHANGED <<call, status, local, cloud>> PROVE UNCHANGED AbsVars
BY DEF AbsVars, AbsAccepted, AbsShelved, AbsForgotten, AbsLanded, Accepted

\* Every abstract operation on a job is a step of DurableDelivery.
LEMMA AbsStep ==
  ASSUME NEW j \in Jobs,
         \/ Delivery!Accept(j) \/ Delivery!Land(j) \/ Delivery!Forget(j)
         \/ Delivery!Shelve(j) \/ Delivery!Unshelve(j)
  PROVE  Delivery!DNext
BY DEF Delivery!DNext

LEMMA EnqueueAccepts ==
  ASSUME IInv, NEW k \in Jobs, ~Accepted(k), Enqueue(k), UNCHANGED <<local, cloud>>,
         \A j \in Jobs : Accepted(j)' <=> Accepted(j) \/ j = k
  PROVE  Delivery!Accept(k)
<1>1. status[k] = "absent"
  BY DEF IInv, RowsKept, NoStrayRow
<1>2. /\ status'[k] = "pending"
      /\ \A j \in Jobs : j # k => status'[j] = status[j]
  BY DEF Enqueue, IInv, TypeOK
<1>3. AbsAccepted' = AbsAccepted \cup {k} /\ k \notin AbsAccepted
  BY DEF AbsAccepted
<1>4. AbsShelved' = AbsShelved /\ AbsForgotten' = AbsForgotten
  BY <1>1, <1>2 DEF AbsShelved, AbsForgotten
<1>5. AbsLanded' = AbsLanded
  BY DEF AbsLanded
<1> QED
  BY <1>3, <1>4, <1>5 DEF Delivery!Accept, AbsAccepted, AbsShelved, AbsForgotten, AbsLanded

LEMMA CallsRefine ==
  ASSUME IInv, NEW c \in Calls, EnqueueAudit(c) \/ EnqueueSync(c) \/ CallCut(c)
  PROVE  Delivery!DNext \/ UNCHANGED AbsVars
<1>1. CASE EnqueueAudit(c)
  <2> DEFINE k == <<c, Audit>>
  <2>1. k \in Jobs /\ k[1] = c /\ QueueOf(k) = Audit
    BY JobParts DEF QueueOf
  <2>2. /\ call'[c] = IF TeamMode THEN "audited" ELSE "done"
        /\ \A d \in Calls : d # c => call'[d] = call[d]
        /\ call[c] = "new"
    BY <1>1 DEF EnqueueAudit, IInv, TypeOK
  <2>3. ASSUME NEW j \in Jobs PROVE Accepted(j)' <=> Accepted(j) \/ j = k
    <3>1. j = k <=> j[1] = c /\ QueueOf(j) = Audit
      BY <2>1, JobParts
    <3> HIDE DEF k
    <3> QED BY <2>2, <3>1, JobParts DEF Accepted
  <2>4. ~Accepted(k)
    BY <2>1, <2>2 DEF Accepted
  <2>5. Enqueue(k) /\ UNCHANGED <<local, cloud>>
    BY <1>1 DEF EnqueueAudit, destVars
  <2>6. Delivery!Accept(k)
    BY <2>1, <2>3, <2>4, <2>5, EnqueueAccepts
  <2> QED BY <2>1, <2>6, AbsStep
<1>2. CASE EnqueueSync(c)
  <2> DEFINE k == <<c, Sync>>
  <2>1. k \in Jobs /\ k[1] = c /\ QueueOf(k) = Sync
    BY JobParts DEF QueueOf
  <2>2. /\ call'[c] = "done" /\ TeamMode
        /\ \A d \in Calls : d # c => call'[d] = call[d]
        /\ call[c] = "audited"
    BY <1>2 DEF EnqueueSync, IInv, TypeOK, TeamCalls
  <2>3. ASSUME NEW j \in Jobs PROVE Accepted(j)' <=> Accepted(j) \/ j = k
    <3>1. j = k <=> j[1] = c /\ QueueOf(j) = Sync
      BY <2>1, JobParts
    <3> HIDE DEF k
    <3> QED BY <2>2, <3>1, JobParts DEF Accepted
  <2>4. ~Accepted(k)
    BY <2>1, <2>2, JobParts DEF Accepted
  <2>5. Enqueue(k) /\ UNCHANGED <<local, cloud>>
    BY <1>2 DEF EnqueueSync, destVars
  <2>6. Delivery!Accept(k)
    BY <2>1, <2>3, <2>4, <2>5, EnqueueAccepts
  <2> QED BY <2>1, <2>6, AbsStep
<1>3. CASE CallCut(c)
  <2>1. \A j \in Jobs : Accepted(j)' <=> Accepted(j)
    BY <1>3, JobParts DEF CallCut, Accepted, IInv, TypeOK
  <2>2. UNCHANGED <<status, local, cloud>>
    BY <1>3 DEF CallCut, rowVars, destVars
  <2> QED
    BY <2>1, <2>2 DEF AbsVars, AbsAccepted, AbsShelved, AbsForgotten, AbsLanded
<1> QED
  BY <1>1, <1>2, <1>3

LEMMA DispatchRefines ==
  ASSUME IInv, NEW w \in Workers, DispatchAudit(w) \/ DispatchSync(w)
  PROVE  Delivery!DNext \/ UNCHANGED AbsVars
<1> DEFINE j == held[w]
<1>1. j \in Jobs /\ Accepted(j)
  BY DEF IInv, RowsKept, BusyHolds, HolderKnows, Knows, DispatchAudit, DispatchSync
<1>2. AbsEffect[j] = <<QueueOf(j), RowOf(j)>>
  BY <1>1 DEF AbsEffect
<1>3. UNCHANGED <<call, status>>
  BY DEF DispatchAudit, DispatchSync, Answer, rowVars
<1>4. \/ UNCHANGED <<local, cloud>>
      \/ QueueOf(j) = Audit /\ local' = local \cup {RowOf(j)} /\ cloud' = cloud
      \/ QueueOf(j) = Sync /\ cloud' = cloud \cup {RowOf(j)} /\ local' = local
  BY DEF DispatchAudit, DispatchSync
<1> HIDE DEF j
<1>5. CASE UNCHANGED <<local, cloud>>
  BY <1>3, <1>5, AbsStutter
<1>6. CASE ~UNCHANGED <<local, cloud>>
  <2>1. AbsLanded' = AbsLanded \cup {AbsEffect[j]}
    BY <1>2, <1>4, <1>6 DEF AbsLanded
  <2>2. AbsAccepted' = AbsAccepted /\ AbsShelved' = AbsShelved /\ AbsForgotten' = AbsForgotten
    BY <1>3 DEF AbsAccepted, AbsShelved, AbsForgotten, Accepted
  <2>3. Delivery!Land(j)
    BY <1>1, <2>1, <2>2 DEF Delivery!Land, AbsAccepted, AbsShelved, AbsForgotten, AbsLanded, AbsEffect
  <2> QED BY <1>1, <2>3, AbsStep
<1> QED
  BY <1>5, <1>6

LEMMA SettleRefines ==
  ASSUME IInv, NEW w \in Workers, SettleSuccess(w) \/ SettleDead(w) \/ SettleRetry(w)
  PROVE  Delivery!DNext \/ UNCHANGED AbsVars
<1>0. PICK j \in Jobs : j = held[w]
  BY DEF IInv, RowsKept, BusyHolds, SettleSuccess, SettleDead, SettleRetry
<1>1. j \in Jobs /\ Accepted(j) /\ (outcome[w] = "success" => Landed(j))
  BY <1>0 DEF IInv, RowsKept, BusyHolds, HolderKnows, Knows, SettleSuccess, SettleDead, SettleRetry
<1>2. /\ AbsAccepted' = AbsAccepted /\ AbsLanded' = AbsLanded
      /\ \A k \in Jobs : Accepted(k)' <=> Accepted(k)
  BY DEF SettleSuccess, SettleDead, SettleRetry, destVars, AbsAccepted, AbsLanded, Accepted
<1>3. \A k \in Jobs : k # j => status'[k] = status[k]
  BY <1>0 DEF SettleSuccess, SettleDead, SettleRetry, IInv, TypeOK
<1>4. status'[j] = IF outcome[w] = "success" \/ status[j] = "absent" THEN "absent"
                   ELSE IF GivesUp(w) THEN "dead" ELSE "pending"
  BY <1>0, <1>1 DEF SettleSuccess, SettleDead, SettleRetry, GivesUp, IInv, TypeOK
<1>5. CASE status'[j] = status[j]
  <2>1. \A k \in Jobs : status'[k] = status[k]
    BY <1>3, <1>5
  <2> QED
    BY <1>2, <2>1 DEF AbsVars, AbsShelved, AbsForgotten
<1>6. CASE status'[j] # status[j] /\ status'[j] = "absent"
  <2>1. j \in AbsAccepted \ AbsForgotten /\ AbsEffect[j] \in AbsLanded
    BY <1>1, <1>4, <1>6, EffectLanded DEF AbsAccepted, AbsForgotten
  <2>2. AbsForgotten' = AbsForgotten \cup {j} /\ AbsShelved' = AbsShelved \ {j}
    BY <1>1, <1>2, <1>3, <1>6 DEF AbsForgotten, AbsShelved
  <2>3. Delivery!Forget(j)
    BY <1>2, <2>1, <2>2 DEF Delivery!Forget, AbsAccepted, AbsShelved, AbsForgotten, AbsLanded, AbsEffect
  <2> QED BY <1>0, <2>3, AbsStep
<1>7. CASE status'[j] # status[j] /\ status'[j] = "dead"
  <2>1. j \in AbsAccepted \ AbsForgotten
    BY <1>1, <1>4, <1>7 DEF AbsAccepted, AbsForgotten
  <2>2. AbsForgotten' = AbsForgotten /\ AbsShelved' = AbsShelved \cup {j}
    BY <1>1, <1>2, <1>3, <1>4, <1>7 DEF AbsForgotten, AbsShelved
  <2>3. Delivery!Shelve(j)
    BY <1>2, <2>1, <2>2 DEF Delivery!Shelve, AbsAccepted, AbsShelved, AbsForgotten, AbsLanded
  <2> QED BY <1>0, <2>3, AbsStep
<1>8. CASE status'[j] # status[j] /\ status'[j] = "pending"
  <2>1. AbsForgotten' = AbsForgotten /\ AbsShelved' = AbsShelved \ {j}
    BY <1>1, <1>2, <1>3, <1>4, <1>8 DEF AbsForgotten, AbsShelved
  <2>2. CASE j \in AbsShelved
    <3>1. Delivery!Unshelve(j)
      BY <1>2, <2>1, <2>2 DEF Delivery!Unshelve, AbsAccepted, AbsShelved, AbsForgotten, AbsLanded
    <3> QED BY <1>0, <3>1, AbsStep
  <2>3. CASE j \notin AbsShelved
    BY <1>2, <2>1, <2>3 DEF AbsVars
  <2> QED BY <2>2, <2>3
<1> QED
  BY <1>4, <1>5, <1>6, <1>7, <1>8

LEMMA ClaimRefines ==
  ASSUME IInv, NEW w \in Workers, Claim(w) PROVE UNCHANGED AbsVars
<1>1. PICK j \in Jobs :
        /\ Claimable(w, j)
        /\ status' = [status EXCEPT ![j] = "picked"]
  BY DEF Claim
<1>2. status[j] \in {"pending", "picked"} /\ status'[j] = "picked"
      /\ \A k \in Jobs : k # j => status'[k] = status[k]
  BY <1>1 DEF Claimable, IInv, TypeOK
<1> QED
  BY <1>2 DEF Claim, destVars, AbsVars, AbsAccepted, AbsShelved, AbsForgotten, AbsLanded, Accepted

\* The operator's retry takes a job off the shelf.
LEMMA RetryRefines ==
  ASSUME IInv, NEW j \in Jobs, RetryDead(j) PROVE Delivery!DNext
<1>1. /\ status[j] = "dead" /\ status'[j] = "pending"
      /\ \A k \in Jobs : k # j => status'[k] = status[k]
      /\ UNCHANGED <<call, local, cloud>>
  BY DEF RetryDead, IInv, TypeOK, destVars
<1>2. j \in AbsShelved /\ AbsShelved' = AbsShelved \ {j} /\ UNCHANGED AbsForgotten
  BY <1>1 DEF AbsShelved, AbsForgotten, Accepted
<1>3. UNCHANGED <<AbsAccepted, AbsLanded>>
  BY <1>1 DEF AbsAccepted, AbsLanded, Accepted
<1>4. Delivery!Unshelve(j)
  BY <1>2, <1>3 DEF Delivery!Unshelve, AbsAccepted, AbsShelved, AbsForgotten, AbsLanded
<1> QED
  BY <1>4, AbsStep

\* The outbox implements DurableDelivery: no accepted job is ever dropped
\* before its effect has landed, for any number of workers and crashes.
THEOREM OutboxImplementsDelivery == Spec => ImplementsDelivery
<1>1. Init => Delivery!DInit
  BY JobParts DEF Init, Delivery!DInit, Accepted
<1>2. IInv /\ [Next]_vars => [Delivery!DNext]_(Delivery!dvars)
  <2> SUFFICES ASSUME IInv, [Next]_vars PROVE Delivery!DNext \/ UNCHANGED AbsVars
    BY DEF Delivery!dvars, AbsVars, AbsAccepted, AbsShelved, AbsForgotten, AbsLanded
  <2>1. CASE \E c \in Calls : EnqueueAudit(c) \/ EnqueueSync(c) \/ CallCut(c)
    BY <2>1, CallsRefine
  <2>2. ASSUME NEW w \in Workers, WorkerStep(w) PROVE Delivery!DNext \/ UNCHANGED AbsVars
    <3>1. CASE Claim(w) BY <3>1, ClaimRefines
    <3>2. CASE DispatchAudit(w) \/ DispatchSync(w) BY <3>2, DispatchRefines
    <3>3. CASE SettleSuccess(w) \/ SettleDead(w) \/ SettleRetry(w) BY <3>3, SettleRefines
    <3>4. CASE SettleFails(w) \/ Stop(w) \/ Crash(w) \/ Restart(w)
      BY <3>4, AbsStutter DEF SettleFails, Stop, Crash, Restart, rowVars, destVars
    <3> QED BY <2>2, <3>1, <3>2, <3>3, <3>4 DEF WorkerStep
  <2>3. ASSUME NEW j \in Jobs,
               BackoffElapses(j) \/ OrphanLeaseExpires(j) \/ LeaseExpiresUnderWorker(j)
        PROVE  UNCHANGED AbsVars
    BY <2>3, AbsStutter
       DEF BackoffElapses, OrphanLeaseExpires, LeaseExpiresUnderWorker, LeaseRunsOut, destVars
  <2>4. CASE UNCHANGED vars
    BY <2>4, AbsStutter DEF vars, rowVars, destVars
  <2>5. ASSUME NEW j \in Jobs, RetryDead(j) PROVE Delivery!DNext
    BY <2>5, RetryRefines
  <2> QED
    BY <2>1, <2>2, <2>3, <2>4, <2>5 DEF Next
<1>3. Spec => []IInv
  BY InvInit, InvNext, PTL DEF Spec
<1> QED
  BY <1>1, <1>2, <1>3, PTL DEF Spec, ImplementsDelivery, Delivery!DSpec
===============================================================================
