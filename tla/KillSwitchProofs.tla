--------------------------- MODULE KillSwitchProofs ---------------------------
(***************************************************************************)
(* Proofs about KillSwitch, for any machines, switches, lifetimes, clock    *)
(* resolution and bounds.                                                   *)
(***************************************************************************)
EXTENDS KillSwitch, TLAPS

USE KillSwitchAssumption

\* What jobs and dispatchers in flight say about the rows: a job's row exists
\* on its machine, and a dispatcher holds a row it read because a job asked.
JobsHaveRows ==
  /\ \A m \in Machines, s \in Switches : jobs[m][s] > 0 => Present(m, s)
  /\ \A m \in Machines : sending[m] # Nothing =>
       /\ sending[m].switch \in Switches
       /\ sending[m].state # "absent"
       /\ jobs[m][sending[m].switch] > 0

LEMMA SecBound == \A t \in 0..MaxNow : Sec(t) \in 0..MaxNow
<1> SUFFICES ASSUME NEW t \in 0..MaxNow PROVE Sec(t) \in 0..MaxNow
  OBVIOUS
<1>1. t % TicksPerSecond \in 0..t
  OBVIOUS
<1> QED
  BY <1>1 DEF Sec

LEMMA Trivia ==
  /\ Machines \subseteq Nodes /\ Cloud \in Nodes
  /\ \A m \in Machines : m # Cloud
BY DEF Nodes

LEMMA InvInit == Init => TypeOK /\ JobsHaveRows
BY DEF Init, TypeOK, JobsHaveRows, Nothing, Idle, NoBatch, States, NotYet, Nodes

\* One step keeps the types and what jobs say, one lemma per group of actions.
IInv == TypeOK /\ JobsHaveRows

LEMMA EnqueueKeeps ==
  ASSUME IInv, NEW m \in Machines, NEW s \in Switches, EnqueuePush(m, s)
  PROVE  /\ jobs' \in [Machines -> [Switches -> 0..MaxJobs]]
         /\ faults' \in 0..MaxFaults
         /\ unqueued' \subseteq Switches
         /\ \A k \in Machines, t \in Switches :
              jobs'[k][t] = jobs[k][t] \/ (k = m /\ t = s /\ jobs'[k][t] = jobs[k][t] + 1)
<1>1. CASE jobs' = [jobs EXCEPT ![m][s] = @ + 1] /\ jobs[m][s] < MaxJobs /\ UNCHANGED <<faults, unqueued>>
  BY <1>1 DEF IInv, TypeOK
<1>2. CASE Fault /\ unqueued' = unqueued \cup {s} /\ jobs' = jobs
  BY <1>2 DEF IInv, TypeOK, Fault
<1> QED
  BY <1>1, <1>2 DEF EnqueuePush

\* A row written on node n, state not "absent", keeps every row that is there.
LEMMA WriteKeeps ==
  ASSUME IInv, NEW n \in Nodes, NEW s \in Switches, NEW state \in States \ {"absent"},
         Write(n, s, state)
  PROVE  /\ row' \in [Nodes -> [Switches -> States]]
         /\ \A k \in Nodes, t \in Switches : Present(k, t) => Present(k, t)'
         /\ Present(n, s)'
BY DEF IInv, TypeOK, Write, Present

LEMMA PauseKeeps ==
  ASSUME IInv, NEW m \in Machines, NEW s \in Switches, Pause(m, s)
  PROVE  IInv'
<1>1. /\ row' \in [Nodes -> [Switches -> States]]
      /\ \A k \in Nodes, t \in Switches : Present(k, t) => Present(k, t)'
      /\ Present(m, s)'
  BY WriteKeeps, Trivia DEF Pause, States
<1>2. /\ jobs' \in [Machines -> [Switches -> 0..MaxJobs]]
      /\ faults' \in 0..MaxFaults
      /\ unqueued' \subseteq Switches
      /\ \A k \in Machines, t \in Switches :
           jobs'[k][t] = jobs[k][t] \/ (k = m /\ t = s /\ jobs'[k][t] = jobs[k][t] + 1)
  <2>1. CASE s \in LocalOnly
    BY <2>1 DEF Pause, IInv, TypeOK
  <2>2. CASE s \notin LocalOnly
    BY <2>2, EnqueueKeeps DEF Pause
  <2> QED BY <2>1, <2>2
<1>3. stamp' \in [Switches -> {NotYet} \cup 0..MaxNow]
  BY SecBound DEF Pause, IInv, TypeOK
<1>4. TypeOK'
  BY <1>1, <1>2, <1>3 DEF Pause, IInv, TypeOK
<1>5. JobsHaveRows'
  <2>1. ASSUME NEW k \in Machines, NEW t \in Switches, jobs'[k][t] > 0 PROVE Present(k, t)'
    <3>1. CASE jobs[k][t] > 0
      BY <1>1, <3>1, Trivia DEF IInv, JobsHaveRows
    <3>2. CASE ~(jobs[k][t] > 0)
      <4>1. jobs[k][t] \in Nat
        BY DEF IInv, TypeOK
      <4>2. jobs'[k][t] # jobs[k][t]
        BY <2>1, <3>2
      <4>3. k = m /\ t = s
        BY <1>2, <4>2
      <4> QED BY <1>1, <4>3
    <3> QED BY <3>1, <3>2
  <2>2. ASSUME NEW k \in Machines, NEW t \in Switches, jobs[k][t] > 0 PROVE jobs'[k][t] > 0
    <3>1. jobs[k][t] \in Nat
      BY DEF IInv, TypeOK
    <3> QED BY <1>2, <2>2, <3>1
  <2> QED BY <2>1, <2>2 DEF Pause, IInv, JobsHaveRows
<1> QED BY <1>4, <1>5 DEF IInv

LEMMA WebResumeKeeps ==
  ASSUME IInv, NEW m \in Machines, NEW s \in Switches, WebResume(m, s)
  PROVE  IInv'
<1>1. /\ row' \in [Nodes -> [Switches -> States]]
      /\ \A k \in Nodes, t \in Switches : Present(k, t) => Present(k, t)'
      /\ Present(m, s)'
  BY WriteKeeps, Trivia DEF WebResume, States
<1>2. /\ jobs' \in [Machines -> [Switches -> 0..MaxJobs]]
      /\ faults' \in 0..MaxFaults
      /\ unqueued' \subseteq Switches
      /\ \A k \in Machines, t \in Switches :
           jobs'[k][t] = jobs[k][t] \/ (k = m /\ t = s /\ jobs'[k][t] = jobs[k][t] + 1)
  BY EnqueueKeeps DEF WebResume
<1>3. TypeOK'
  BY <1>1, <1>2 DEF WebResume, IInv, TypeOK
<1>4. JobsHaveRows'
  <2>1. ASSUME NEW k \in Machines, NEW t \in Switches, jobs'[k][t] > 0 PROVE Present(k, t)'
    <3>1. CASE jobs[k][t] > 0
      BY <1>1, <3>1, Trivia DEF IInv, JobsHaveRows
    <3>2. CASE ~(jobs[k][t] > 0)
      <4>1. jobs[k][t] \in Nat
        BY DEF IInv, TypeOK
      <4>2. jobs'[k][t] # jobs[k][t]
        BY <2>1, <3>2
      <4>3. k = m /\ t = s
        BY <1>2, <4>2
      <4> QED BY <1>1, <4>3
    <3> QED BY <3>1, <3>2
  <2>2. ASSUME NEW k \in Machines, NEW t \in Switches, jobs[k][t] > 0 PROVE jobs'[k][t] > 0
    <3>1. jobs[k][t] \in Nat
      BY DEF IInv, TypeOK
    <3> QED BY <1>2, <2>2, <3>1
  <2> QED BY <2>1, <2>2 DEF WebResume, IInv, JobsHaveRows
<1> QED BY <1>3, <1>4 DEF IInv

\* Commands that write rows and enqueue nothing.
LEMMA RowsOnlyKeep ==
  ASSUME IInv,
         row' \in [Nodes -> [Switches -> States]],
         \A k \in Nodes, t \in Switches : Present(k, t) => Present(k, t)',
         stamp' \in [Switches -> {NotYet} \cup 0..MaxNow],
         asked' \subseteq Switches,
         UNCHANGED <<now, syncVars, cache, faults, unqueued>>
  PROVE  IInv'
<1>1. TypeOK'
  BY DEF syncVars, IInv, TypeOK
<1>2. JobsHaveRows'
  BY Trivia DEF syncVars, IInv, JobsHaveRows
<1> QED BY <1>1, <1>2 DEF IInv

LEMMA WrittenStates == {"active", "resumed"} \subseteq States \ {"absent"}
BY DEF States

LEMMA HostedKeeps ==
  ASSUME IInv, NEW s \in Switches, HostedPause(s) \/ HostedResume(s)
  PROVE  IInv'
<1>1. PICK state \in States \ {"absent"} : Write(Cloud, s, state)
  BY WrittenStates DEF HostedPause, HostedResume
<1>2. /\ row' \in [Nodes -> [Switches -> States]]
      /\ \A k \in Nodes, t \in Switches : Present(k, t) => Present(k, t)'
  BY <1>1, WriteKeeps, Trivia
<1>3. stamp' = stamp \/ stamp' = [stamp EXCEPT ![s] = now]
  BY DEF HostedPause, HostedResume
<1>4. stamp' \in [Switches -> {NotYet} \cup 0..MaxNow]
  BY <1>3 DEF IInv, TypeOK
<1>5. asked' \subseteq Switches
  BY DEF HostedPause, HostedResume, IInv, TypeOK
<1> QED
  BY <1>2, <1>4, <1>5, RowsOnlyKeep DEF HostedPause, HostedResume

LEMMA CliResumeKeeps ==
  ASSUME IInv, NEW m \in Machines,
         \/ \E filter \in SUBSET Switches : CliResumeAll(m, filter)
         \/ \E s \in Switches : CliResume(m, s)
  PROVE  IInv'
<1>1. /\ row' \in [Nodes -> [Switches -> States]]
      /\ \A k \in Nodes, t \in Switches : Present(k, t) => Present(k, t)'
  <2>1. ASSUME NEW s \in Switches, CliResume(m, s)
        PROVE  /\ row' \in [Nodes -> [Switches -> States]]
               /\ \A k \in Nodes, t \in Switches : Present(k, t) => Present(k, t)'
    BY <2>1, WriteKeeps, WrittenStates, Trivia DEF CliResume
  <2>2. ASSUME NEW filter \in SUBSET Switches, CliResumeAll(m, filter)
        PROVE  /\ row' \in [Nodes -> [Switches -> States]]
               /\ \A k \in Nodes, t \in Switches : Present(k, t) => Present(k, t)'
    BY <2>2, Trivia DEF CliResumeAll, States, IInv, TypeOK, Present
  <2> QED BY <2>1, <2>2
<1>2. stamp' \in [Switches -> {NotYet} \cup 0..MaxNow]
  BY DEF CliResume, CliResumeAll, IInv, TypeOK
<1>3. asked' \subseteq Switches
  BY DEF CliResume, CliResumeAll, IInv, TypeOK
<1> QED
  BY <1>1, <1>2, <1>3, RowsOnlyKeep DEF CliResume, CliResumeAll

LEMMA PushKeeps ==
  ASSUME IInv, NEW m \in Machines, Push(m)
  PROVE  IInv'
<1>1. ASSUME NEW s \in Switches, PushRead(m, s) PROVE IInv'
  <2>1. Present(m, s) /\ row[m][s] \in States
    BY <1>1, Trivia DEF PushRead, IInv, TypeOK, JobsHaveRows
  <2>2. TypeOK'
    BY <1>1, <2>1 DEF PushRead, IInv, TypeOK
  <2>3. JobsHaveRows'
    <3>1. sending'[m].switch = s /\ sending'[m].state = row[m][s] /\ jobs'[m][s] > 0
      BY <1>1 DEF PushRead, IInv, TypeOK
    <3>2. \A k \in Machines : k # m => sending'[k] = sending[k]
      BY <1>1 DEF PushRead, IInv, TypeOK
    <3> QED BY <1>1, <2>1, <3>1, <3>2 DEF PushRead, IInv, JobsHaveRows, Present
  <2> QED BY <2>2, <2>3 DEF IInv
<1>2. CASE Upsert(m)
         /\ \/ jobs' = [jobs EXCEPT ![m][sending[m].switch] = @ - 1] /\ faults' = faults
            \/ Fault /\ jobs' = jobs
  <2>0. PICK s \in Switches : s = sending[m].switch
    BY <1>2 DEF Upsert, IInv, JobsHaveRows
  <2>1. s \in Switches /\ sending[m].state \in States \ {"absent"} /\ jobs[m][s] \in 1..MaxJobs
    BY <1>2, <2>0 DEF Upsert, IInv, TypeOK, JobsHaveRows
  <2>2. /\ row' \in [Nodes -> [Switches -> States]]
        /\ \A k \in Nodes, t \in Switches : Present(k, t) => Present(k, t)'
    BY <1>2, <2>0, <2>1, WriteKeeps, Trivia DEF Upsert
  <2>3. /\ jobs' \in [Machines -> [Switches -> 0..MaxJobs]]
        /\ \A k \in Machines, t \in Switches : k # m => jobs'[k][t] = jobs[k][t]
        /\ \A k \in Machines, t \in Switches : jobs'[k][t] <= jobs[k][t]
    <3>1. jobs \in [Machines -> [Switches -> 0..MaxJobs]]
      BY DEF IInv, TypeOK
    <3>2. jobs' = [jobs EXCEPT ![m][s] = @ - 1] \/ jobs' = jobs
      BY <1>2, <2>0
    <3>3. CASE jobs' = [jobs EXCEPT ![m][s] = @ - 1]
      BY <2>1, <3>1, <3>3
    <3>4. CASE jobs' = jobs
      BY <3>1, <3>4
    <3> QED BY <3>2, <3>3, <3>4
  <2>4. sending' = [sending EXCEPT ![m] = Nothing] /\ Nothing \in [switch : Switches \cup {NoSwitch}, state : States]
    BY <1>2 DEF Upsert, Nothing, States
  <2>5. TypeOK'
    <3>1. faults' \in 0..MaxFaults
      BY <1>2 DEF Fault, IInv, TypeOK
    <3>2. sending' \in [Machines -> [switch : Switches \cup {NoSwitch}, state : States]]
      BY <2>4 DEF IInv, TypeOK
    <3> QED BY <1>2, <2>2, <2>3, <3>1, <3>2 DEF Upsert, IInv, TypeOK
  <2>6. JobsHaveRows'
    <3>1. ASSUME NEW k \in Machines, NEW t \in Switches, jobs'[k][t] > 0 PROVE Present(k, t)'
      <4>1. jobs[k][t] \in Nat /\ jobs'[k][t] \in Nat
        BY <2>3 DEF IInv, TypeOK
      <4> QED BY <2>2, <2>3, <3>1, <4>1, Trivia DEF IInv, JobsHaveRows
    <3>2. sending'[m] = Nothing /\ \A k \in Machines : k # m => sending'[k] = sending[k]
      BY <2>4 DEF IInv, TypeOK
    <3> QED BY <2>3, <3>1, <3>2 DEF IInv, JobsHaveRows
  <2> QED BY <2>5, <2>6 DEF IInv
<1>3. ASSUME NEW s \in Switches, PushDies(m, s) PROVE IInv'
  <2>0. jobs[m][s] \in 1..MaxJobs /\ jobs' = [jobs EXCEPT ![m][s] = @ - 1]
    BY <1>3 DEF PushDies, IInv, TypeOK
  <2>1. /\ jobs' \in [Machines -> [Switches -> 0..MaxJobs]]
        /\ \A k \in Machines, t \in Switches : k # m => jobs'[k][t] = jobs[k][t]
        /\ \A k \in Machines, t \in Switches : jobs'[k][t] <= jobs[k][t]
    BY <2>0 DEF IInv, TypeOK
  <2>2. TypeOK'
    BY <1>3, <2>1 DEF PushDies, Fault, IInv, TypeOK
  <2>3. JobsHaveRows'
    <3>1. ASSUME NEW k \in Machines, NEW t \in Switches, jobs'[k][t] > 0 PROVE jobs[k][t] > 0
      BY <2>1, <3>1 DEF IInv, TypeOK
    <3> QED BY <1>3, <2>1, <3>1 DEF PushDies, IInv, JobsHaveRows, Present
  <2> QED BY <2>2, <2>3 DEF IInv
<1> QED
  BY <1>1, <1>2, <1>3 DEF Push, PushWrite, PushWriteUnconfirmed

\* The puller's upserts never remove a row.
LEMMA ApplyKeeps ==
  ASSUME IInv, NEW m \in Machines, NEW failed, Apply(m, failed), faults' \in 0..MaxFaults
  PROVE  IInv'
<1>1. pulling[m].batch \in [Switches -> States] /\ Idle.pc \in {"idle"}
  BY DEF IInv, TypeOK, Idle
<1>2. /\ row' \in [Nodes -> [Switches -> States]]
      /\ \A k \in Nodes, t \in Switches : Present(k, t) => Present(k, t)'
  BY <1>1, Trivia DEF Apply, IInv, TypeOK, Present
<1>3. TypeOK'
  BY <1>2 DEF Apply, Idle, NoBatch, NotYet, States, IInv, TypeOK
<1>4. JobsHaveRows'
  BY <1>2, Trivia DEF Apply, IInv, JobsHaveRows
<1> QED BY <1>3, <1>4 DEF IInv

LEMMA PullKeeps ==
  ASSUME IInv, NEW m \in Machines, Pull(m)
  PROVE  IInv'
<1>1. CASE PullAsk(m)
  <2>1. NoBatch \in [Switches -> States]
    BY DEF NoBatch, States
  <2> QED BY <1>1, <2>1 DEF PullAsk, IInv, TypeOK, JobsHaveRows, Present
<1>2. CASE PullFetch(m)
  <2>1. row[Cloud] \in [Switches -> States]
    BY Trivia DEF IInv, TypeOK
  <2> QED BY <1>2, <2>1 DEF PullFetch, IInv, TypeOK, JobsHaveRows, Present
<1>3. CASE PullApply(m)
  BY <1>3, ApplyKeeps DEF PullApply, IInv, TypeOK
<1>4. CASE PullApplyPartly(m)
  <2>1. PICK s \in Switches : Apply(m, {s}) /\ Fault
    BY <1>4 DEF PullApplyPartly
  <2>2. faults' \in 0..MaxFaults
    BY <2>1 DEF Fault, IInv, TypeOK
  <2> QED BY <2>1, <2>2, ApplyKeeps
<1> QED
  BY <1>1, <1>2, <1>3, <1>4 DEF Pull

LEMMA DaemonRestartsKeeps ==
  ASSUME IInv, NEW m \in Machines, DaemonRestarts(m)
  PROVE  IInv'
<1>1. TypeOK'
  BY DEF DaemonRestarts, Fault, IInv, TypeOK, Nothing, Idle, NoBatch, NotYet, States
<1>2. JobsHaveRows'
  BY DEF DaemonRestarts, IInv, TypeOK, JobsHaveRows, Present
<1> QED BY <1>1, <1>2 DEF IInv

LEMMA LookupKeeps ==
  ASSUME IInv, NEW m \in Evaluators, Lookup(m)
  PROVE  IInv'
<1>1. ActiveOn(m) \subseteq Switches /\ now + CacheTTL \in Nat
  BY DEF ActiveOn, IInv, TypeOK
<1> QED BY <1>1 DEF Lookup, syncVars, IInv, TypeOK, JobsHaveRows, Present

LEMMA TickKeeps ==
  ASSUME IInv, Tick \/ UNCHANGED vars
  PROVE  IInv'
<1>1. CASE Tick
  BY <1>1 DEF Tick, syncVars, IInv, TypeOK, JobsHaveRows, Present
<1>2. CASE UNCHANGED vars
  BY <1>2 DEF vars, syncVars, IInv, TypeOK, JobsHaveRows, Present
<1> QED
  BY <1>1, <1>2

LEMMA InvNext == IInv /\ [Next]_vars => IInv'
<1> SUFFICES ASSUME IInv, [Next]_vars PROVE IInv'
  OBVIOUS
<1>1. CASE Commands
  BY <1>1, PauseKeeps, WebResumeKeeps, CliResumeKeeps, HostedKeeps DEF Commands
<1>2. ASSUME NEW m \in Machines, Push(m) \/ Pull(m) \/ DaemonRestarts(m) PROVE IInv'
  BY <1>2, PushKeeps, PullKeeps, DaemonRestartsKeeps
<1>3. ASSUME NEW m \in Evaluators, Lookup(m) PROVE IInv'
  BY <1>3, LookupKeeps
<1>4. CASE Tick \/ UNCHANGED vars
  BY <1>4, TickKeeps
<1> QED
  BY <1>1, <1>2, <1>3, <1>4 DEF Next

\* Type correctness of the switch tables, the push jobs, the puller and the
\* cache, under every interleaving of operators, daemons and the clock.
THEOREM TypeCorrect == Spec => []TypeOK
<1>1. Init => IInv
  BY InvInit DEF IInv
<1>2. IInv => TypeOK
  BY DEF IInv
<1> QED
  BY <1>1, <1>2, InvNext, PTL DEF Spec

-------------------------------------------------------------------------------
(* A pause is lifted only on request *)

\* Nowhere, in a table or in flight, does s look resumed.
Untouched(s) ==
  /\ \A n \in Nodes : row[n][s] # "resumed"
  /\ \A m \in Machines : sending[m] # [switch |-> s, state |-> "resumed"]
  /\ \A m \in Machines : pulling[m].batch[s] # "resumed"

LEMMA LiftedIsUntouched ==
  LiftedOnlyOnRequest <=> \A s \in Switches : s \notin asked => Untouched(s)
BY DEF LiftedOnlyOnRequest, Untouched

LEMMA CommandsLeaveUntouched ==
  ASSUME IInv, Commands, NEW s \in Switches, s \notin asked', Untouched(s)
  PROVE  Untouched(s)'
<1>1. ASSUME NEW t \in Switches, HostedPause(t) \/ HostedResume(t) PROVE Untouched(s)'
  <2>1. UNCHANGED <<sending, pulling>>
    BY <1>1 DEF HostedPause, HostedResume, syncVars
  <2>2. CASE Write(Cloud, t, "active")
    BY <2>1, <2>2, Trivia DEF Write, Untouched, IInv, TypeOK
  <2>3. CASE Write(Cloud, t, "resumed") /\ asked' = asked \cup {t}
    BY <2>1, <2>3, Trivia DEF Write, Untouched, IInv, TypeOK
  <2> QED BY <1>1, <2>2, <2>3 DEF HostedPause, HostedResume
<1>2. ASSUME NEW m \in Machines, NEW t \in Switches,
             Pause(m, t) \/ CliResume(m, t) \/ WebResume(m, t)
      PROVE  Untouched(s)'
  <2>1. UNCHANGED <<sending, pulling>>
    BY <1>2 DEF Pause, CliResume, WebResume, syncVars
  <2>2. CASE Write(m, t, "active")
    BY <2>1, <2>2, Trivia DEF Write, Untouched, IInv, TypeOK
  <2>3. CASE Write(m, t, "resumed") /\ asked' = asked \cup {t}
    BY <2>1, <2>3, Trivia DEF Write, Untouched, IInv, TypeOK
  <2> QED BY <1>2, <2>2, <2>3 DEF Pause, CliResume, WebResume
<1>3. ASSUME NEW m \in Machines, NEW filter \in SUBSET Switches, CliResumeAll(m, filter)
      PROVE  Untouched(s)'
  BY <1>3, Trivia DEF CliResumeAll, syncVars, Untouched, IInv, TypeOK
<1> QED
  BY <1>1, <1>2, <1>3 DEF Commands

LEMMA PushLeavesUntouched ==
  ASSUME IInv, NEW m \in Machines, Push(m), NEW s \in Switches, Untouched(s)
  PROVE  Untouched(s)'
<1>1. ASSUME NEW t \in Switches, PushRead(m, t) PROVE Untouched(s)'
  <2>1. sending'[m] # [switch |-> s, state |-> "resumed"]
    BY <1>1, Trivia DEF PushRead, Untouched, IInv, TypeOK
  <2>2. \A k \in Machines : k # m => sending'[k] = sending[k]
    BY <1>1 DEF PushRead, IInv, TypeOK
  <2> QED BY <1>1, <2>1, <2>2 DEF PushRead, Untouched
<1>2. CASE Upsert(m)
  <2>1. \A n \in Nodes : row'[n][s] # "resumed"
    <3>1. sending[m].switch = s => sending[m].state # "resumed"
      BY DEF Untouched, IInv, TypeOK
    <3>2. row' = [row EXCEPT ![Cloud][sending[m].switch] = sending[m].state]
      BY <1>2 DEF Upsert, Write
    <3> QED BY <3>1, <3>2, Trivia DEF Untouched, IInv, TypeOK
  <2>2. \A k \in Machines : sending'[k] # [switch |-> s, state |-> "resumed"]
    BY <1>2 DEF Upsert, Nothing, Untouched, IInv, TypeOK
  <2> QED BY <1>2, <2>1, <2>2 DEF Upsert, Untouched
<1>3. ASSUME NEW t \in Switches, PushDies(m, t) PROVE Untouched(s)'
  BY <1>3 DEF PushDies, Untouched
<1> QED
  BY <1>1, <1>2, <1>3 DEF Push, PushWrite, PushWriteUnconfirmed

LEMMA PullLeavesUntouched ==
  ASSUME IInv, NEW m \in Machines, Pull(m), NEW s \in Switches, Untouched(s)
  PROVE  Untouched(s)'
<1>1. CASE PullAsk(m)
  <2>1. \A k \in Machines : pulling'[k].batch[s] # "resumed"
    BY <1>1 DEF PullAsk, NoBatch, Untouched, IInv, TypeOK
  <2> QED BY <1>1, <2>1 DEF PullAsk, Untouched
<1>2. CASE PullFetch(m)
  <2>1. \A k \in Machines : pulling'[k].batch[s] # "resumed"
    BY <1>2, Trivia DEF PullFetch, Untouched, IInv, TypeOK
  <2> QED BY <1>2, <2>1 DEF PullFetch, Untouched
<1>3. ASSUME NEW failed, Apply(m, failed) PROVE Untouched(s)'
  <2>1. \A n \in Nodes : row'[n][s] # "resumed"
    BY <1>3, Trivia DEF Apply, Untouched, IInv, TypeOK
  <2>2. \A k \in Machines : pulling'[k].batch[s] # "resumed"
    BY <1>3 DEF Apply, Idle, NoBatch, Untouched, IInv, TypeOK
  <2> QED BY <1>3, <2>1, <2>2 DEF Apply, Untouched
<1> QED
  BY <1>1, <1>2, <1>3 DEF Pull, PullApply, PullApplyPartly

LEMMA LiftedNext == IInv /\ LiftedOnlyOnRequest /\ [Next]_vars => LiftedOnlyOnRequest'
<1> SUFFICES ASSUME IInv, LiftedOnlyOnRequest, [Next]_vars,
                    NEW s \in Switches, s \notin asked'
             PROVE  Untouched(s)'
  BY DEF LiftedOnlyOnRequest, Untouched
<1>1. CASE Commands
  <2>1. asked \subseteq asked'
    BY <1>1 DEF Commands, HostedPause, HostedResume, CliResume, CliResumeAll, WebResume, Pause
  <2> QED BY <1>1, <2>1, LiftedIsUntouched, CommandsLeaveUntouched
<1>2. ASSUME NEW m \in Machines, Push(m) PROVE Untouched(s)'
  <2>1. asked' = asked
    BY <1>2 DEF Push, PushRead, PushDies, PushWrite, PushWriteUnconfirmed, Upsert
  <2> QED BY <1>2, <2>1, LiftedIsUntouched, PushLeavesUntouched
<1>3. ASSUME NEW m \in Machines, Pull(m) PROVE Untouched(s)'
  <2>1. asked' = asked
    BY <1>3 DEF Pull, PullAsk, PullFetch, PullApply, PullApplyPartly, Apply
  <2> QED BY <1>3, <2>1, LiftedIsUntouched, PullLeavesUntouched
<1>4. ASSUME NEW m \in Machines, DaemonRestarts(m) PROVE Untouched(s)'
  <2>1. Untouched(s)
    BY <1>4, LiftedIsUntouched DEF DaemonRestarts
  <2> QED BY <1>4, <2>1 DEF DaemonRestarts, Idle, Nothing, NoBatch, Untouched, IInv, TypeOK
<1>5. CASE (\E m \in Evaluators : Lookup(m)) \/ Tick \/ UNCHANGED vars
  <2>1. UNCHANGED <<row, syncVars, asked>>
    BY <1>5 DEF Lookup, Tick, vars
  <2> QED BY <2>1, LiftedIsUntouched DEF syncVars, Untouched
<1> QED
  BY <1>1, <1>2, <1>3, <1>4, <1>5 DEF Next

\* No table shows a switch as resumed that no operator has resumed, whatever
\* pushes, pulls, retries and restarts happen.
THEOREM PausesAreLiftedOnRequest == Spec => []LiftedOnlyOnRequest
<1>1. Init => IInv /\ LiftedOnlyOnRequest
  BY InvInit DEF IInv, Init, LiftedOnlyOnRequest, Idle, NoBatch, Nothing
<1> QED
  BY <1>1, InvNext, LiftedNext, PTL DEF Spec

-------------------------------------------------------------------------------
(* A pause the team should see is owed to the cloud until it is there *)

Owed(s) ==
  \/ Present(Cloud, s)
  \/ s \in unqueued \cup buried
  \/ \E m \in Machines : Present(m, s) /\ jobs[m][s] > 0

\* Rows are never deleted: resuming sets a column, pushes and pulls upsert.
LEMMA RowsStay ==
  ASSUME IInv, [Next]_vars, NEW n \in Nodes, NEW s \in Switches, Present(n, s)
  PROVE  Present(n, s)'
<1>1. ASSUME NEW k \in Nodes, NEW t \in Switches, NEW state \in States \ {"absent"}, Write(k, t, state)
      PROVE  Present(n, s)'
  BY <1>1, WriteKeeps
<1>2. CASE Commands
  <2>1. CASE \E m \in Machines : \E filter \in SUBSET Switches : CliResumeAll(m, filter)
    BY <2>1, Trivia DEF CliResumeAll, Present, IInv, TypeOK
  <2>2. CASE \E k \in Nodes, t \in Switches : Write(k, t, "active") \/ Write(k, t, "resumed")
    BY <1>1, <2>2, WrittenStates
  <2> QED BY <1>2, <2>1, <2>2, Trivia
          DEF Commands, HostedPause, HostedResume, Pause, CliResume, WebResume
<1>3. ASSUME NEW m \in Machines, Upsert(m) PROVE Present(n, s)'
  <2>1. PICK t \in Switches, state \in States \ {"absent"} : Write(Cloud, t, state)
    BY <1>3 DEF Upsert, IInv, TypeOK, JobsHaveRows
  <2> QED BY <1>1, <2>1, Trivia
<1>4. ASSUME NEW m \in Machines, NEW failed, Apply(m, failed) PROVE Present(n, s)'
  BY <1>4, Trivia DEF Apply, Present, IInv, TypeOK
<1>5. CASE row' = row
  BY <1>5 DEF Present
<1> QED
  BY <1>2, <1>3, <1>4, <1>5 DEF Next, Push, PushRead, PushDies, PushWrite, PushWriteUnconfirmed, Pull,
     PullAsk, PullFetch, PullApply, PullApplyPartly, DaemonRestarts, Lookup, Tick, vars

\* What is owed stays owed as long as jobs only leave when their row is in the
\* cloud or on the dead-letter list.
LEMMA OwedStays ==
  ASSUME IInv, [Next]_vars, NEW s \in Switches, Owed(s),
         unqueued \subseteq unqueued', buried \subseteq buried',
         \A m \in Machines : jobs[m][s] > 0 =>
           jobs'[m][s] > 0 \/ Present(Cloud, s)' \/ s \in buried'
  PROVE  Owed(s)'
BY RowsStay, Trivia DEF Owed

LEMMA OwedNext == IInv /\ PauseIsOwed /\ [Next]_vars => PauseIsOwed'
<1> SUFFICES ASSUME IInv, PauseIsOwed, [Next]_vars,
                    NEW s \in Switches \ LocalOnly, stamp'[s] # NotYet
             PROVE  Owed(s)'
  BY DEF PauseIsOwed, Owed
<1>1. unqueued \subseteq unqueued' /\ buried \subseteq buried'
  BY DEF Next, Commands, Push, Pull, HostedPause, HostedResume, CliResume, CliResumeAll, WebResume,
         Pause, EnqueuePush, PushRead, PushDies, PushWrite, PushWriteUnconfirmed, Upsert, PullAsk,
         PullFetch, PullApply, PullApplyPartly, Apply, DaemonRestarts, Lookup, Tick, vars, syncVars
<1>2. stamp[s] # NotYet => Owed(s)
  BY DEF PauseIsOwed, Owed
<1>3. ASSUME stamp'[s] = stamp[s],
             \A m \in Machines : jobs[m][s] > 0 =>
               jobs'[m][s] > 0 \/ Present(Cloud, s)' \/ s \in buried'
      PROVE  Owed(s)'
  BY <1>1, <1>2, <1>3, OwedStays
<1>4. ASSUME NEW m \in Machines, NEW t \in Switches, Pause(m, t) PROVE Owed(s)'
  <2>1. CASE t = s
    <3>1. Present(m, s)' /\ EnqueuePush(m, s)
      BY <1>4, <2>1, Trivia DEF Pause, Write, Present, IInv, TypeOK
    <3>2. CASE jobs' = [jobs EXCEPT ![m][s] = @ + 1]
      <4>1. jobs \in [Machines -> [Switches -> 0..MaxJobs]]
        BY DEF IInv, TypeOK
      <4>2. jobs[m] \in [Switches -> 0..MaxJobs]
        BY <4>1
      <4>3. jobs[m][s] \in 0..MaxJobs
        BY <4>2
      <4>4. jobs'[m] = [jobs[m] EXCEPT ![s] = @ + 1]
        BY <3>2, <4>1
      <4>5. jobs'[m][s] = jobs[m][s] + 1
        BY <4>2, <4>4
      <4>6. jobs'[m][s] > 0
        BY <4>3, <4>5
      <4> QED BY <3>1, <4>6 DEF Owed
    <3>3. CASE unqueued' = unqueued \cup {s}
      BY <3>3 DEF Owed
    <3> QED BY <3>1, <3>2, <3>3 DEF EnqueuePush
  <2>2. CASE t # s
    <3>1. stamp'[s] = stamp[s]
      BY <1>4, <2>2 DEF Pause, IInv, TypeOK
    <3>2. jobs' = jobs \/ jobs' = [jobs EXCEPT ![m][t] = @ + 1]
      BY <1>4 DEF Pause, EnqueuePush
    <3>3. jobs \in [Machines -> [Switches -> 0..MaxJobs]]
      BY DEF IInv, TypeOK
    <3>4. \A k \in Machines : jobs'[k][s] = jobs[k][s]
      BY <2>2, <3>2, <3>3
    <3> QED BY <1>3, <3>1, <3>4
  <2> QED BY <2>1, <2>2
<1>5. ASSUME NEW t \in Switches, HostedPause(t) PROVE Owed(s)'
  <2>1. CASE t = s
    BY <1>5, <2>1, Trivia DEF HostedPause, Write, Present, Owed, IInv, TypeOK
  <2>2. CASE t # s
    BY <1>3, <1>5, <2>2 DEF HostedPause, syncVars, IInv, TypeOK
  <2> QED BY <2>1, <2>2
<1>6. ASSUME NEW m \in Machines, NEW t \in Switches, WebResume(m, t) PROVE Owed(s)'
  <2>1. jobs' = jobs \/ jobs' = [jobs EXCEPT ![m][t] = @ + 1]
    BY <1>6 DEF WebResume, EnqueuePush
  <2>2. jobs \in [Machines -> [Switches -> 0..MaxJobs]]
    BY DEF IInv, TypeOK
  <2>3. ASSUME NEW k \in Machines, jobs[k][s] > 0, jobs' = [jobs EXCEPT ![m][t] = @ + 1]
        PROVE  jobs'[k][s] > 0
    <3>1. jobs[k][s] \in 0..MaxJobs
      BY <2>2
    <3>2. CASE k = m /\ t = s
      BY <2>2, <2>3, <3>1, <3>2
    <3>3. CASE k # m \/ t # s
      BY <2>2, <2>3, <3>3
    <3> QED BY <3>2, <3>3
  <2>4. \A k \in Machines : jobs[k][s] > 0 => jobs'[k][s] > 0
    BY <2>1, <2>3
  <2> QED BY <1>3, <1>6, <2>4 DEF WebResume
<1>7. ASSUME NEW m \in Machines, PushWrite(m) PROVE Owed(s)'
  <2>1. PICK t \in Switches : t = sending[m].switch /\ sending[m].state # "absent"
    BY <1>7 DEF PushWrite, Upsert, IInv, JobsHaveRows
  <2>2. CASE t = s
    <3>1. Present(Cloud, s)'
      BY <1>7, <2>1, <2>2, Trivia DEF PushWrite, Upsert, Write, Present, IInv, TypeOK
    <3> QED BY <3>1 DEF Owed
  <2>3. CASE t # s
    <3>1. \A k \in Machines : jobs'[k][s] = jobs[k][s]
      BY <1>7, <2>1, <2>3 DEF PushWrite, IInv, TypeOK
    <3> QED BY <1>3, <1>7, <3>1 DEF PushWrite, Upsert
  <2> QED BY <2>2, <2>3
<1>8. ASSUME NEW m \in Machines, NEW t \in Switches, PushDies(m, t) PROVE Owed(s)'
  <2>1. CASE t = s
    BY <1>8, <2>1 DEF PushDies, Owed
  <2>2. CASE t # s
    <3>1. \A k \in Machines : jobs'[k][s] = jobs[k][s]
      BY <1>8, <2>2 DEF PushDies, IInv, TypeOK
    <3> QED BY <1>3, <1>8, <3>1 DEF PushDies
  <2> QED BY <2>1, <2>2
<1>9. CASE UNCHANGED <<stamp, jobs>>
  BY <1>3, <1>9
<1> QED
  BY <1>4, <1>5, <1>6, <1>7, <1>8, <1>9
     DEF Next, Commands, HostedResume, CliResume, CliResumeAll, Push, PushRead, PushWriteUnconfirmed,
         Upsert, Pull, PullAsk, PullFetch, PullApply, PullApplyPartly, Apply, DaemonRestarts, Lookup,
         Tick, vars, syncVars

\* A pause meant for the team is never silently forgotten: it is in the cloud,
\* or a push is queued, or it is among the failures that were reported.
THEOREM PausesAreOwed == Spec => []PauseIsOwed
<1>1. Init => IInv /\ PauseIsOwed
  BY InvInit DEF IInv, Init, PauseIsOwed
<1> QED
  BY <1>1, InvNext, OwedNext, PTL DEF Spec
===============================================================================
