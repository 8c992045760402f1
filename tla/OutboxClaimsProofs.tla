-------------------------- MODULE OutboxClaimsProofs --------------------------
(***************************************************************************)
(* How often the workers of Outbox claim a row: ClaimsBounded, for any      *)
(* number of calls, workers, attempts, interruptions and retries.           *)
(*                                                                         *)
(* The bound alone is not inductive, since a stale worker that puts a row   *)
(* back makes room for one more claim.  ClaimsPaid counts that room as well *)
(* as the claims: a claim uses a place up, a settlement passes one on or    *)
(* gives it up, and only an interruption makes a new one.                   *)
(***************************************************************************)
EXTENDS OutboxProofs, FiniteSetTheorems

USE OutboxAssumption

\* A row nobody has accepted has not been claimed.
Unclaimed == \A j \in Jobs : ~Accepted(j) => attempts[j] = 0

ClaimsInv == IInv /\ Unclaimed /\ ClaimsPaid

-------------------------------------------------------------------------------
(* Counting workers *)

LEMMA WorkersAreFinite ==
  \A S \in SUBSET Workers : IsFiniteSet(S) /\ Cardinality(S) \in Nat
<1>1. IsFiniteSet(Workers)
  <2>1. IsFiniteSet(AuditWorkers) /\ IsFiniteSet(SyncWorkers)
    OBVIOUS
  <2> QED
    BY <2>1, FS_Union DEF Workers
<1>2. ASSUME NEW S \in SUBSET Workers PROVE IsFiniteSet(S)
  BY <1>1, FS_Subset
<1> QED
  BY <1>2, FS_CardinalityType

\* Two sets of workers that agree on all but one differ by at most that one.
LEMMA AllButOne ==
  ASSUME NEW S \in SUBSET Workers, NEW T \in SUBSET Workers, NEW w,
         S \ {w} = T \ {w}
  PROVE  Cardinality(T) + (IF w \in S THEN 1 ELSE 0)
           = Cardinality(S) + (IF w \in T THEN 1 ELSE 0)
<1>1. IsFiniteSet(S) /\ Cardinality(S) \in Nat /\ IsFiniteSet(T) /\ Cardinality(T) \in Nat
  BY WorkersAreFinite
<1>2. /\ Cardinality(S \ {w}) = IF w \in S THEN Cardinality(S) - 1 ELSE Cardinality(S)
      /\ Cardinality(T \ {w}) = IF w \in T THEN Cardinality(T) - 1 ELSE Cardinality(T)
  BY <1>1, FS_RemoveElement
<1>3. CASE w \in S
  BY <1>1, <1>2, <1>3
<1>4. CASE w \notin S
  BY <1>1, <1>2, <1>4
<1> QED
  BY <1>3, <1>4

LEMMA Amounts ==
  ASSUME TypeOK, NEW j \in Jobs
  PROVE  /\ attempts[j] \in Nat /\ retries[j] \in Nat /\ interruptions \in Nat
         /\ Excess(j) \in Nat /\ Loose(j) \in {0, 1}
         /\ Returners(j) \in SUBSET Workers /\ Cardinality(Returners(j)) \in Nat
<1>1. attempts[j] \in Nat /\ retries[j] \in Nat /\ interruptions \in Nat
  BY DEF TypeOK
<1>2. Excess(j) \in Nat
  BY <1>1 DEF Excess
<1>3. Loose(j) \in {0, 1}
  BY DEF Loose
<1>4. Returners(j) \in SUBSET Workers
  BY DEF Returners
<1> QED
  BY <1>1, <1>2, <1>3, <1>4, WorkersAreFinite

\* The returners of a row after a step that changes what one worker holds.
LEMMA ReturnersMove ==
  ASSUME TypeOK, TypeOK', NEW j \in Jobs, NEW w \in Workers,
         \A v \in Workers : v # w => held'[v] = held[v] /\ tries'[v] = tries[v]
  PROVE  Cardinality(Returners(j)') + (IF held[w] = j /\ tries[w] < MaxAttempts THEN 1 ELSE 0)
           = Cardinality(Returners(j)) + (IF held'[w] = j /\ tries'[w] < MaxAttempts THEN 1 ELSE 0)
<1>1. Returners(j) \in SUBSET Workers /\ Returners(j)' \in SUBSET Workers
  BY DEF Returners
<1>2. Returners(j) \ {w} = Returners(j)' \ {w}
  BY DEF Returners
<1>3. /\ w \in Returners(j) <=> held[w] = j /\ tries[w] < MaxAttempts
      /\ w \in Returners(j)' <=> held'[w] = j /\ tries'[w] < MaxAttempts
  BY DEF Returners
<1> QED
  BY <1>1, <1>2, <1>3, AllButOne

-------------------------------------------------------------------------------
(* One step and one row *)

\* A step leaves row j and its holders alone, though it may be an interruption.
Apart(j) ==
  /\ retries'[j] = retries[j] /\ interruptions' \in {interruptions, interruptions + 1}
  /\ status'[j] = status[j] /\ attempts'[j] = attempts[j] /\ expired'[j] = expired[j]
  /\ \A w \in Workers : /\ held'[w] = j <=> held[w] = j
                        /\ held[w] = j => tries'[w] = tries[w]

LEMMA ApartPaid ==
  ASSUME TypeOK, TypeOK', NEW j \in Jobs, Paid(j), Apart(j) PROVE Paid(j)'
<1>1. Returners(j)' = Returners(j)
  BY DEF Returners, Apart
<1>2. Excess(j)' = Excess(j)
  BY DEF Excess, Apart
<1>3. Loose(j)' = Loose(j)
  BY DEF Loose, Apart
<1>4. /\ Excess(j) \in Nat /\ Loose(j) \in Nat /\ Cardinality(Returners(j)) \in Nat
      /\ interruptions \in Nat
  BY Amounts
<1>5. interruptions' \in {interruptions, interruptions + 1} /\ retries'[j] = retries[j]
  BY DEF Apart
<1> HIDE DEF Apart
<1> QED
  BY <1>1, <1>2, <1>3, <1>4, <1>5 DEF Paid

-------------------------------------------------------------------------------
(* Step by step *)

\* A row is inserted before anybody has claimed it.
LEMMA EnqueuePaid ==
  ASSUME IInv, Unclaimed, ClaimsPaid, TypeOK', NEW j \in Jobs, ~Accepted(j), Enqueue(j),
         UNCHANGED <<workerVars, envVars>>
  PROVE  ClaimsPaid'
<1>1. TypeOK /\ MaxAttempts \in Nat \ {0}
  BY DEF IInv
<1>2. attempts'[j] = 0 /\ Excess(j)' = 0
  BY <1>1 DEF Unclaimed, Enqueue, Excess
<1>3. Returners(j)' = {}
  BY DEF IInv, RowsKept, HolderKnows, Knows, Returners, workerVars, TypeOK
<1>4. Cardinality(Returners(j)') = 0
  BY <1>3, FS_EmptySet
<1>5. Paid(j)'
  BY <1>1, <1>2, <1>4, Amounts, interruptions' = interruptions, Loose(j)' \in {0, 1}
     DEF Paid, envVars, Loose
<1>6. ASSUME NEW k \in Jobs, k # j PROVE Paid(k)'
  BY <1>1, <1>6, ApartPaid DEF Apart, Enqueue, ClaimsPaid, workerVars, envVars, TypeOK
<1> QED
  BY <1>5, <1>6 DEF ClaimsPaid

\* A claim takes the place of the row itself: for one more count from the
\* maxAttempts-th on, for one more worker that may put it back before.
LEMMA ClaimPaid ==
  ASSUME IInv, ClaimsPaid, TypeOK', NEW w \in Workers, Claim(w) PROVE ClaimsPaid'
<1>1. PICK j \in Jobs :
        /\ Claimable(w, j)
        /\ status' = [status EXCEPT ![j] = "picked"]
        /\ expired' = [expired EXCEPT ![j] = FALSE]
        /\ attempts' = [attempts EXCEPT ![j] = @ + 1]
        /\ held' = [held EXCEPT ![w] = j]
        /\ tries' = [tries EXCEPT ![w] = attempts[j] + 1]
  BY DEF Claim
<1>2. TypeOK /\ held[w] = NoJob /\ UNCHANGED envVars /\ MaxAttempts \in Nat \ {0} /\ NoJob \notin Jobs
  BY DEF Claim, IInv, RowsKept, HolderKnows, Knows, TypeOK
<1>3. /\ held'[w] = j /\ tries'[w] = attempts[j] + 1 /\ attempts'[j] = attempts[j] + 1
      /\ status'[j] = "picked" /\ expired'[j] = FALSE
      /\ \A v \in Workers : v # w => held'[v] = held[v] /\ tries'[v] = tries[v]
      /\ \A k \in Jobs : k # j => /\ status'[k] = status[k] /\ attempts'[k] = attempts[k]
                                  /\ expired'[k] = expired[k]
  BY <1>1, <1>2 DEF TypeOK
<1>4. Loose(j) = 1 /\ Loose(j)' = 0
  BY <1>1, <1>3 DEF Loose, Claimable
<1>5. Cardinality(Returners(j)')
        = Cardinality(Returners(j)) + (IF attempts[j] + 1 < MaxAttempts THEN 1 ELSE 0)
  <2>1. Cardinality(Returners(j)) \in Nat /\ Returners(j)' \in SUBSET Workers
    BY <1>2, Amounts DEF Returners
  <2>2. Cardinality(Returners(j)') \in Nat
    BY <2>1, WorkersAreFinite
  <2> QED
    BY <1>2, <1>3, <2>1, <2>2, ReturnersMove
<1>6. Excess(j)' = Excess(j) + (IF attempts[j] + 1 < MaxAttempts THEN 0 ELSE 1)
  BY <1>2, <1>3, attempts[j] \in Nat DEF Excess, TypeOK
<1>7. Paid(j)'
  BY <1>2, <1>4, <1>5, <1>6, Amounts DEF Paid, ClaimsPaid, envVars
<1>8. ASSUME NEW k \in Jobs, k # j PROVE Paid(k)'
  <2>1. Apart(k)
    BY <1>2, <1>3, <1>8 DEF Apart, envVars
  <2> QED BY <1>2, <2>1, ApartPaid DEF ClaimsPaid
<1> QED
  BY <1>7, <1>8 DEF ClaimsPaid

\* A worker lets go of its row: the row becomes free only in exchange for a count
\* that let the worker put it back, or for an interruption.
LEMMA LetGoPaid ==
  ASSUME IInv, ClaimsPaid, TypeOK', NEW w \in Workers, NEW j \in Jobs, held[w] = j,
         held' = [held EXCEPT ![w] = NoJob], tries' = [tries EXCEPT ![w] = 0],
         UNCHANGED <<attempts, expired, retries>>,
         \A k \in Jobs : k # j => status'[k] = status[k],
         \/ interruptions' = interruptions + 1
         \/ interruptions' = interruptions /\ status'[j] \in {"absent", "dead"}
         \/ interruptions' = interruptions /\ tries[w] < MaxAttempts
  PROVE  ClaimsPaid'
<1>1. TypeOK /\ NoJob \notin Jobs /\ interruptions' \in {interruptions, interruptions + 1}
  BY DEF IInv
<1>2. /\ held'[w] = NoJob
      /\ \A v \in Workers : v # w => held'[v] = held[v] /\ tries'[v] = tries[v]
  BY <1>1 DEF TypeOK
<1>3. Cardinality(Returners(j)') + (IF tries[w] < MaxAttempts THEN 1 ELSE 0)
        = Cardinality(Returners(j)) + 0
  BY <1>1, <1>2, ReturnersMove
<1>4. /\ Loose(j)' \in {0, 1}
      /\ status'[j] \in {"absent", "dead"} => Loose(j)' = 0
      /\ Excess(j)' = Excess(j)
      /\ Cardinality(Returners(j)') \in Nat
  BY Amounts, WorkersAreFinite, Returners(j)' \in SUBSET Workers DEF Loose, Excess, Returners
<1>5. Paid(j)'
  <2>1. /\ interruptions \in Nat /\ Excess(j) \in Nat /\ Loose(j) \in {0, 1}
        /\ Cardinality(Returners(j)) \in Nat
    BY <1>1, Amounts
  <2>2. CASE tries[w] < MaxAttempts
    BY <1>1, <1>3, <1>4, <2>1, <2>2 DEF Paid, ClaimsPaid
  <2>3. CASE ~(tries[w] < MaxAttempts)
    BY <1>1, <1>3, <1>4, <2>1, <2>3 DEF Paid, ClaimsPaid
  <2> QED BY <2>2, <2>3
<1>6. ASSUME NEW k \in Jobs, k # j PROVE Paid(k)'
  <2>1. Apart(k)
    BY <1>1, <1>2, <1>6 DEF Apart
  <2> QED BY <1>1, <2>1, ApartPaid DEF ClaimsPaid
<1> QED
  BY <1>5, <1>6 DEF ClaimsPaid

LEMMA WorkerPaid ==
  ASSUME IInv, ClaimsPaid, TypeOK', NEW w \in Workers, WorkerStep(w) PROVE ClaimsPaid'
<1>1. TypeOK
  BY DEF IInv
<1>2. CASE Claim(w)
  BY <1>2, ClaimPaid
<1>3. ASSUME DispatchAudit(w) \/ DispatchSync(w) \/ Stop(w) \/ Restart(w) PROVE ClaimsPaid'
  <2>1. ASSUME NEW k \in Jobs PROVE Apart(k)
    BY <1>3 DEF Apart, DispatchAudit, DispatchSync, Answer, Stop, Restart, Interrupt, rowVars, envVars
  <2> QED BY <1>1, <2>1, ApartPaid DEF ClaimsPaid
<1>4. ASSUME pc[w] \in {"dispatching", "settling"} PROVE held[w] \in Jobs
  BY <1>4 DEF IInv, BusyHolds
<1>5. CASE SettleSuccess(w)
  <2>1. status'[held[w]] = "absent"
    BY <1>1, <1>4, <1>5 DEF SettleSuccess, TypeOK
  <2> QED
    BY <1>1, <1>4, <1>5, <2>1, LetGoPaid DEF SettleSuccess, GoIdle, envVars, TypeOK
<1>6. CASE SettleDead(w)
  <2>1. status'[held[w]] \in {"absent", "dead"}
    BY <1>1, <1>4, <1>6 DEF SettleDead, TypeOK
  <2> QED
    BY <1>1, <1>4, <1>6, <2>1, LetGoPaid DEF SettleDead, GoIdle, envVars, TypeOK
<1>7. CASE SettleRetry(w)
  <2>1. tries[w] < MaxAttempts
    BY <1>1, <1>7 DEF SettleRetry, GivesUp, TypeOK
  <2> QED
    BY <1>1, <1>4, <1>7, <2>1, LetGoPaid DEF SettleRetry, GoIdle, envVars, TypeOK
<1>8. CASE SettleFails(w)
  BY <1>4, <1>8, LetGoPaid DEF SettleFails, GoIdle, Interrupt, rowVars
<1>9. CASE Crash(w)
  BY <1>4, <1>9, LetGoPaid DEF Crash, Interrupt, rowVars
<1> QED
  BY <1>2, <1>3, <1>5, <1>6, <1>7, <1>8, <1>9 DEF WorkerStep

\* A backoff ends beside the counts; the lease of a row without a holder frees
\* nothing that was not free, any other is an interruption.
LEMMA ClockPaid ==
  ASSUME IInv, ClaimsPaid, TypeOK', NEW j \in Jobs,
         BackoffElapses(j) \/ OrphanLeaseExpires(j) \/ LeaseExpiresUnderWorker(j)
  PROVE  ClaimsPaid'
<1>1. TypeOK
  BY DEF IInv
<1>2. ASSUME NEW k \in Jobs, k # j PROVE Paid(k)'
  <2>1. Apart(k)
    BY <1>1, <1>2 DEF Apart, BackoffElapses, OrphanLeaseExpires, LeaseExpiresUnderWorker,
                      LeaseRunsOut, Interrupt, workerVars, envVars, TypeOK
  <2> QED BY <1>1, <2>1, ApartPaid DEF ClaimsPaid
<1>3. Paid(j)'
  <2>1. CASE BackoffElapses(j)
    <3>1. Apart(j)
      BY <2>1 DEF Apart, BackoffElapses, workerVars, envVars
    <3> QED BY <1>1, <3>1, ApartPaid DEF ClaimsPaid
  <2>2. ASSUME LeaseRunsOut(j)
        PROVE  /\ Excess(j)' = Excess(j) /\ Returners(j)' = Returners(j)
               /\ Loose(j)' \in {0, 1} /\ Loose(j) \in {0, 1}
               /\ Excess(j) \in Nat /\ Cardinality(Returners(j)) \in Nat /\ interruptions \in Nat
    BY <1>1, <2>2, Amounts DEF LeaseRunsOut, Excess, Returners, Loose, workerVars
  <2>3. CASE OrphanLeaseExpires(j)
    <3>1. LeaseRunsOut(j) /\ UNCHANGED envVars /\ Loose(j) = 1
      BY <2>3 DEF OrphanLeaseExpires, LeaseRunsOut, Loose
    <3> QED
      BY <2>2, <3>1 DEF Paid, ClaimsPaid, envVars
  <2>4. CASE LeaseExpiresUnderWorker(j)
    <3>1. LeaseRunsOut(j) /\ interruptions' = interruptions + 1 /\ retries' = retries
      BY <2>4 DEF LeaseExpiresUnderWorker, Interrupt
    <3> QED
      BY <2>2, <3>1 DEF Paid, ClaimsPaid
  <2> QED BY <2>1, <2>3, <2>4
<1> QED
  BY <1>2, <1>3 DEF ClaimsPaid

\* A row the operator has retried is no longer spoken of.
LEMMA RetryPaid ==
  ASSUME IInv, ClaimsPaid, TypeOK', NEW j \in Jobs, RetryDead(j) PROVE ClaimsPaid'
<1>1. TypeOK
  BY DEF IInv
<1>2. retries'[j] = retries[j] + 1 /\ retries[j] \in Nat
  BY <1>1 DEF RetryDead, TypeOK
<1>3. Paid(j)'
  BY <1>2 DEF Paid
<1>4. ASSUME NEW k \in Jobs, k # j PROVE Paid(k)'
  <2>1. Apart(k)
    BY <1>1, <1>4 DEF Apart, RetryDead, workerVars, TypeOK
  <2> QED BY <1>1, <2>1, ApartPaid DEF ClaimsPaid
<1> QED
  BY <1>3, <1>4 DEF ClaimsPaid

-------------------------------------------------------------------------------
(* All steps *)

LEMMA UnclaimedNext == IInv /\ Unclaimed /\ [Next]_vars => Unclaimed'
<1> SUFFICES ASSUME IInv, Unclaimed, [Next]_vars, NEW k \in Jobs, ~Accepted(k)'
             PROVE  attempts'[k] = 0
  BY DEF Unclaimed
<1>1. TypeOK /\ NoStrayRow
  BY DEF IInv, RowsKept
<1>2. ASSUME NEW c \in Calls, EnqueueAudit(c) \/ EnqueueSync(c) \/ CallCut(c)
      PROVE  attempts'[k] = 0
  <2>1. attempts' = attempts
    BY <1>2 DEF EnqueueAudit, EnqueueSync, CallCut, Enqueue, rowVars
  <2>2. ~Accepted(k)
    BY <1>1, <1>2, JobParts DEF EnqueueAudit, EnqueueSync, CallCut, Accepted, TypeOK
  <2> QED BY <2>1, <2>2 DEF Unclaimed
<1>3. ASSUME call' = call PROVE attempts[k] = 0
  BY <1>3 DEF Unclaimed, Accepted
<1>4. ASSUME NEW w \in Workers, WorkerStep(w) PROVE attempts'[k] = 0
  <2>1. CASE Claim(w)
    <3>1. PICK j \in Jobs : /\ Claimable(w, j)
                            /\ attempts' = [attempts EXCEPT ![j] = @ + 1]
      BY <2>1 DEF Claim
    <3>2. status[j] # "absent"
      BY <1>1, <3>1 DEF Claimable, TypeOK
    <3>3. j # k
      BY <1>1, <2>1, <3>2 DEF Claim, NoStrayRow, Accepted
    <3> QED
      BY <1>1, <1>3, <2>1, <3>1, <3>2, <3>3 DEF Claim, TypeOK
  <2>2. CASE ~Claim(w)
    <3>1. attempts' = attempts /\ call' = call
      BY <1>4, <2>2 DEF WorkerStep, DispatchAudit, DispatchSync, Answer, SettleSuccess,
                        SettleDead, SettleRetry, SettleFails, Stop, Crash, Restart, rowVars
    <3> QED BY <1>3, <3>1
  <2> QED BY <2>1, <2>2
<1>5. ASSUME NEW j \in Jobs, BackoffElapses(j) \/ OrphanLeaseExpires(j) \/ LeaseExpiresUnderWorker(j)
      PROVE  attempts'[k] = 0
  BY <1>3, <1>5 DEF BackoffElapses, OrphanLeaseExpires, LeaseExpiresUnderWorker, LeaseRunsOut
<1>6. ASSUME NEW j \in Jobs, RetryDead(j) PROVE attempts'[k] = 0
  BY <1>1, <1>3, <1>6 DEF RetryDead, TypeOK
<1>7. CASE UNCHANGED vars
  BY <1>3, <1>7 DEF vars, rowVars
<1> QED
  BY <1>2, <1>4, <1>5, <1>6, <1>7 DEF Next

LEMMA PaidNext == ClaimsInv /\ [Next]_vars => ClaimsPaid'
<1> SUFFICES ASSUME ClaimsInv, [Next]_vars PROVE ClaimsPaid'
  OBVIOUS
<1>1. IInv /\ Unclaimed /\ ClaimsPaid /\ TypeOK /\ TypeOK'
  BY InvNext DEF ClaimsInv, IInv
<1>2. ASSUME NEW c \in Calls, EnqueueAudit(c) \/ EnqueueSync(c) PROVE ClaimsPaid'
  <2>1. CASE EnqueueAudit(c)
    BY <1>1, <2>1, EnqueuePaid, JobParts, <<c, Audit>>[1] = c, QueueOf(<<c, Audit>>) = Audit
       DEF EnqueueAudit, Accepted, QueueOf
  <2>2. CASE EnqueueSync(c)
    BY <1>1, <2>2, EnqueuePaid, JobParts, <<c, Sync>>[1] = c, QueueOf(<<c, Sync>>) = Sync
       DEF EnqueueSync, Accepted, QueueOf
  <2> QED BY <1>2, <2>1, <2>2
<1>3. ASSUME \/ UNCHANGED vars
             \/ \E c \in Calls : CallCut(c)
      PROVE  ClaimsPaid'
  <2>1. ASSUME NEW k \in Jobs PROVE Apart(k)
    BY <1>3 DEF Apart, CallCut, vars, rowVars, workerVars, envVars
  <2> QED BY <1>1, <2>1, ApartPaid DEF ClaimsPaid
<1> QED
  BY <1>1, <1>2, <1>3, WorkerPaid, ClockPaid, RetryPaid DEF Next

LEMMA ClaimsInvInit == Init => ClaimsInv
<1> SUFFICES ASSUME Init PROVE ClaimsInv
  OBVIOUS
<1>1. IInv
  BY InvInit
<1>2. Unclaimed
  BY DEF Init, Unclaimed
<1>3. ASSUME NEW j \in Jobs PROVE Paid(j)
  <2>1. Returners(j) = {} /\ Loose(j) = 0
    BY DEF Init, Returners, Loose
  <2>2. Excess(j) = 0 /\ interruptions = 0
    BY DEF Init, Excess
  <2> QED BY <2>1, <2>2, FS_EmptySet DEF Paid
<1> QED
  BY <1>1, <1>2, <1>3 DEF ClaimsInv, ClaimsPaid

\* Until the operator retries it, no row is claimed more often than maxAttempts
\* times and once for every interruption there has been.
THEOREM ClaimsAreBounded == Spec => []ClaimsBounded
<1>1. ClaimsInv /\ [Next]_vars => ClaimsInv'
  BY InvNext, UnclaimedNext, PaidNext DEF ClaimsInv
<1>2. ClaimsInv => ClaimsBounded
  <2> SUFFICES ASSUME ClaimsInv, NEW j \in Jobs, retries[j] = 0
               PROVE  attempts[j] <= MaxAttempts + interruptions
    BY DEF ClaimsBounded
  <2>1. Paid(j) /\ TypeOK
    BY DEF ClaimsInv, ClaimsPaid, IInv
  <2>2. Excess(j) <= 1 + interruptions
    BY <2>1, Amounts DEF Paid
  <2> QED
    BY <2>1, <2>2, Amounts, MaxAttempts \in Nat DEF Excess
<1> QED
  BY <1>1, <1>2, ClaimsInvInit, PTL DEF Spec
===============================================================================
