----------------------------- MODULE KillSwitch -----------------------------
(***************************************************************************)
(* Kill switches in team mode: the `kill_switches` tables of the developer  *)
(* machines and of cloud Postgres, the commands that pause and resume, the  *)
(* sync-daemon's push job and puller, and the 5-second cache through which  *)
(* a machine's pre-tool-use check reads its own table.                      *)
(*                                                                         *)
(* A pause writes one row and, unless --no-sync, enqueues a push of it.     *)
(* The row's immutable fields (scope, target, mode, paused_at, expires_at)  *)
(* are the same wherever it is copied, except that SQLite keeps whole       *)
(* seconds; what differs between nodes is whether the row is there and      *)
(* whether its resumed_at is set.                                           *)
(*                                                                         *)
(* The clock counts in ticks, TicksPerSecond of them to a second, and is    *)
(* the same everywhere.  `asked`, `unqueued` are history variables.         *)
(***************************************************************************)
EXTENDS Integers

CONSTANTS
  Machines,        \* developer machines, each with a data.db and a sync-daemon
  Evaluators,      \* those where a long-lived mcp-server answers the checks
  Cloud,           \* the Postgres database; the hosted dashboard writes to it directly
  Switches,        \* rows that may come to exist
  Events,          \* tool calls the pre-tool-use check is asked about
  Covers,          \* Covers[s]: the events the row's (scope, target) matches
  Hard,            \* rows with mode = 'hard'; the others are 'soft'
  LocalOnly,       \* rows paused with --no-sync
  LifeOf,          \* ticks from paused_at to expires_at; 0 for none
  CacheTTL,        \* the evaluator's cacheMs
  TicksPerSecond,
  MaxNow, MaxJobs, MaxFaults,   \* bounds
  NoSwitch

Nodes == Machines \cup {Cloud}
NotYet == -1

ASSUME KillSwitchAssumption ==
  /\ Cloud \notin Machines
  /\ Evaluators \subseteq Machines
  /\ Covers \in [Switches -> SUBSET Events]
  /\ Hard \subseteq Switches
  /\ LocalOnly \subseteq Switches
  /\ LifeOf \in [Switches -> Nat]
  /\ CacheTTL \in Nat
  /\ TicksPerSecond \in Nat \ {0}
  /\ MaxNow \in Nat
  /\ MaxJobs \in Nat
  /\ MaxFaults \in Nat
  /\ NoSwitch \notin Switches

VARIABLES
  now,
  stamp,     \* paused_at as its origin stored it; NotYet before the pause
  row,       \* row[n][s]: "absent", "active" (resumed_at NULL) or "resumed"
  jobs,      \* jobs[m][s]: sync_to_cloud rows of s in m's pending_jobs
  buried,    \* rows whose push job went dead
  sending,   \* what the dispatcher of m has read and is about to upsert
  pulling,   \* the tickOnce of m's puller: its step and the cloud rows it got
  cache,     \* the evaluator's entry: the rows it holds and until when
  faults,
  asked,     \* history: rows some resume command has been accepted for
  unqueued   \* history: rows whose enqueue failed after the local write

syncVars == <<jobs, buried, sending, pulling>>
vars == <<now, stamp, row, syncVars, cache, faults, asked, unqueued>>

States  == {"absent", "active", "resumed"}
NoBatch == [s \in Switches |-> "absent"]
Idle    == [pc |-> "idle", batch |-> NoBatch]
Nothing == [switch |-> NoSwitch, state |-> "absent"]

TypeOK ==
  /\ now \in 0..MaxNow
  /\ stamp \in [Switches -> {NotYet} \cup 0..MaxNow]
  /\ row \in [Nodes -> [Switches -> States]]
  /\ jobs \in [Machines -> [Switches -> 0..MaxJobs]]
  /\ buried \subseteq Switches
  /\ sending \in [Machines -> [switch : Switches \cup {NoSwitch}, state : States]]
  /\ pulling \in [Machines -> [pc : {"idle", "asked", "got"}, batch : [Switches -> States]]]
  /\ cache \in [Evaluators -> [active : SUBSET Switches, until : Nat]]
  /\ faults \in 0..MaxFaults
  /\ asked \subseteq Switches
  /\ unqueued \subseteq Switches

Init ==
  /\ now = 0
  /\ stamp = [s \in Switches |-> NotYet]
  /\ row = [n \in Nodes |-> [s \in Switches |-> "absent"]]
  /\ jobs = [m \in Machines |-> [s \in Switches |-> 0]]
  /\ buried = {}
  /\ sending = [m \in Machines |-> Nothing]
  /\ pulling = [m \in Machines |-> Idle]
  /\ cache = [m \in Evaluators |-> [active |-> {}, until |-> 0]]
  /\ faults = 0
  /\ asked = {}
  /\ unqueued = {}

-----------------------------------------------------------------------------
(* Helpers *)

\* A time as SQLite keeps it: whole seconds.
Sec(t) == t - (t % TicksPerSecond)

Present(n, s) == row[n][s] # "absent"

Expired(s) == LifeOf[s] # 0 /\ Sec(stamp[s]) + LifeOf[s] <= Sec(now)

\* listActiveKillSwitches on machine m.
ActiveOn(m) == {s \in Switches : row[m][s] = "active" /\ ~Expired(s)}

Fault ==
  /\ faults < MaxFaults
  /\ faults' = faults + 1

\* scheduleDurableWrite of a push of s, after the local write has been done.
EnqueuePush(m, s) ==
  \/ /\ jobs[m][s] < MaxJobs
     /\ jobs' = [jobs EXCEPT ![m][s] = @ + 1]
     /\ UNCHANGED <<faults, unqueued>>
  \/ /\ Fault
     /\ unqueued' = unqueued \cup {s}
     /\ jobs' = jobs

Write(n, s, state) == row' = [row EXCEPT ![n][s] = state]

-----------------------------------------------------------------------------
(* The operator's commands *)

\* Bug: the row is written and its push is never enqueued.
BugPauseWithoutPush(m, s) ==
  /\ stamp[s] = NotYet
  /\ stamp' = [stamp EXCEPT ![s] = Sec(now)]
  /\ Write(m, s, "active")
  /\ UNCHANGED <<now, syncVars, cache, faults, asked, unqueued>>

\* `coodra pause` and the dashboard's pauseAction on a machine.  Its refusal of
\* a second active row for one scope is a check the dashboard lets the operator
\* override (force), so it is no guard here.
Pause(m, s) ==
  /\ stamp[s] = NotYet
  /\ stamp' = [stamp EXCEPT ![s] = Sec(now)]
  /\ Write(m, s, "active")
  /\ IF s \in LocalOnly THEN UNCHANGED <<jobs, faults, unqueued>> ELSE EnqueuePush(m, s)
  /\ UNCHANGED <<now, buried, sending, pulling, cache, asked>>

\* The hosted dashboard pauses in Postgres, whose now() is finer than a second.
HostedPause(s) ==
  /\ stamp[s] = NotYet
  /\ s \notin LocalOnly
  /\ stamp' = [stamp EXCEPT ![s] = now]
  /\ Write(Cloud, s, "active")
  /\ UNCHANGED <<now, syncVars, cache, faults, asked, unqueued>>

\* `coodra resume --id`: softResumeKillSwitch, and no push.
CliResume(m, s) ==
  /\ row[m][s] = "active"
  /\ Write(m, s, "resumed")
  /\ asked' = asked \cup {s}
  /\ UNCHANGED <<now, stamp, syncVars, cache, faults, unqueued>>

\* `coodra resume --all` or `--scope --target`: softResumeAllKillSwitches of
\* the rows the filter matches, and no push.
CliResumeAll(m, filter) ==
  LET open == {s \in filter : row[m][s] = "active"} IN
  /\ open # {}
  /\ row' = [row EXCEPT ![m] = [s \in Switches |-> IF s \in open THEN "resumed" ELSE @[s]]]
  /\ asked' = asked \cup open
  /\ UNCHANGED <<now, stamp, syncVars, cache, faults, unqueued>>

\* The dashboard's resumeAction on a machine: softResumeWithSync.
WebResume(m, s) ==
  /\ row[m][s] = "active"
  /\ Write(m, s, "resumed")
  /\ asked' = asked \cup {s}
  /\ EnqueuePush(m, s)
  /\ UNCHANGED <<now, stamp, buried, sending, pulling, cache>>

\* The hosted dashboard resumes in Postgres.
HostedResume(s) ==
  /\ row[Cloud][s] = "active"
  /\ Write(Cloud, s, "resumed")
  /\ asked' = asked \cup {s}
  /\ UNCHANGED <<now, stamp, syncVars, cache, faults, unqueued>>

-----------------------------------------------------------------------------
(* The push: syncKillSwitches, run by the outbox worker of the sync-daemon *)

\* Bug: a job is dispatched a second time after it was deleted.
BugPushReadStale(m, s) ==
  /\ sending[m] = Nothing
  /\ Present(m, s)
  /\ sending' = [sending EXCEPT ![m] = [switch |-> s, state |-> row[m][s]]]
  /\ UNCHANGED <<now, stamp, row, jobs, buried, pulling, cache, faults, asked, unqueued>>

\* The local row is read ...
PushRead(m, s) ==
  /\ sending[m] = Nothing
  /\ jobs[m][s] > 0
  /\ sending' = [sending EXCEPT ![m] = [switch |-> s, state |-> row[m][s]]]
  /\ UNCHANGED <<now, stamp, row, jobs, buried, pulling, cache, faults, asked, unqueued>>

\* ... and what was read is inserted, or overwrites resumed_at.
Upsert(m) ==
  /\ sending[m] # Nothing
  /\ Write(Cloud, sending[m].switch, sending[m].state)
  /\ sending' = [sending EXCEPT ![m] = Nothing]
  /\ UNCHANGED <<now, stamp, buried, pulling, cache, asked, unqueued>>

PushWrite(m) ==
  /\ Upsert(m)
  /\ jobs' = [jobs EXCEPT ![m][sending[m].switch] = @ - 1]
  /\ UNCHANGED faults

\* The upsert commits and its answer is lost: the job will be tried again.
PushWriteUnconfirmed(m) ==
  /\ Upsert(m)
  /\ Fault
  /\ UNCHANGED jobs

\* The job runs out of attempts and goes dead.
PushDies(m, s) ==
  /\ sending[m] = Nothing
  /\ jobs[m][s] > 0
  /\ Fault
  /\ jobs' = [jobs EXCEPT ![m][s] = @ - 1]
  /\ buried' = buried \cup {s}
  /\ UNCHANGED <<now, stamp, row, sending, pulling, cache, asked, unqueued>>

-----------------------------------------------------------------------------
(* The puller: tickOnce, with an await after each of its first two steps *)

\* With no local row `since` is the epoch.  Once there is one, the raw MAX is a
\* bare number of seconds: comparing it with Postgres's Date column throws, and
\* the tick ends without effect.
PullAsk(m) ==
  /\ pulling[m].pc = "idle"
  /\ \A s \in Switches : ~Present(m, s)
  /\ pulling' = [pulling EXCEPT ![m] = [pc |-> "asked", batch |-> NoBatch]]
  /\ UNCHANGED <<now, stamp, row, jobs, buried, sending, cache, faults, asked, unqueued>>

\* Bug: a pause the cloud does not list is taken for one that was resumed.
BugPullFetchMissingIsResumed(m) ==
  /\ pulling[m].pc = "asked"
  /\ LET all == [s \in Switches |->
                   IF Present(m, s) /\ ~Present(Cloud, s) THEN "resumed" ELSE row[Cloud][s]]
     IN  pulling' = [pulling EXCEPT ![m] = [pc |-> "got", batch |-> all]]
  /\ UNCHANGED <<now, stamp, row, jobs, buried, sending, cache, faults, asked, unqueued>>

\* SELECT ... WHERE paused_at > the epoch: every row the cloud has by now.
PullFetch(m) ==
  /\ pulling[m].pc = "asked"
  /\ pulling' = [pulling EXCEPT ![m] = [pc |-> "got", batch |-> row[Cloud]]]
  /\ UNCHANGED <<now, stamp, row, jobs, buried, sending, cache, faults, asked, unqueued>>

\* Bug: an UPDATE where the upsert should be.
BugApplyUpdatesOnly(m, failed) ==
  LET got == pulling[m].batch IN
  /\ pulling[m].pc = "got"
  /\ row' = [row EXCEPT ![m] = [s \in Switches |->
       IF got[s] # "absent" /\ s \notin failed /\ Present(m, s) THEN got[s] ELSE @[s]]]
  /\ pulling' = [pulling EXCEPT ![m] = Idle]
  /\ UNCHANGED <<now, stamp, jobs, buried, sending, cache, asked, unqueued>>

\* The rows got, less those whose upsert threw, are inserted or overwrite
\* resumed_at.
Apply(m, failed) ==
  LET got == pulling[m].batch IN
  /\ pulling[m].pc = "got"
  /\ row' = [row EXCEPT ![m] = [s \in Switches |->
       IF got[s] # "absent" /\ s \notin failed THEN got[s] ELSE @[s]]]
  /\ pulling' = [pulling EXCEPT ![m] = Idle]
  /\ UNCHANGED <<now, stamp, jobs, buried, sending, cache, asked, unqueued>>

PullApply(m) == Apply(m, {}) /\ UNCHANGED faults

PullApplyPartly(m) ==
  \E s \in Switches : pulling[m].batch[s] # "absent" /\ Apply(m, {s}) /\ Fault

\* The sync-daemon dies, or its SELECT throws: the job keeps its row in
\* pending_jobs, the pull starts over.
DaemonRestarts(m) ==
  /\ sending[m] # Nothing \/ pulling[m].pc # "idle"
  /\ Fault
  /\ sending' = [sending EXCEPT ![m] = Nothing]
  /\ pulling' = [pulling EXCEPT ![m] = Idle]
  /\ UNCHANGED <<now, stamp, row, jobs, buried, cache, asked, unqueued>>

-----------------------------------------------------------------------------
(* The evaluator and the clock *)

\* Bug: the entry is served while its age is at most cacheMs, not less.
BugLookupOneTickLonger(m) ==
  /\ cache[m].until <= now
  /\ cache' = [cache EXCEPT ![m] = [active |-> ActiveOn(m), until |-> now + CacheTTL + 1]]
  /\ UNCHANGED <<now, stamp, row, syncVars, faults, asked, unqueued>>

\* check() on a cache miss.  (A lookup that throws caches nothing and falls
\* through to the policy rules; check() on a hit changes nothing.)
Lookup(m) ==
  /\ cache[m].until <= now
  /\ cache' = [cache EXCEPT ![m] = [active |-> ActiveOn(m), until |-> now + CacheTTL]]
  /\ UNCHANGED <<now, stamp, row, syncVars, faults, asked, unqueued>>

\* Bug: ORDER BY paused_at DESC.
BugGoverningNewest(active, e) ==
  LET matching == {s \in active : e \in Covers[s]}
  IN  {s \in matching : \A t \in matching : Sec(stamp[s]) >= Sec(stamp[t])}

\* What check() answers from a set of active rows: the first match in paused_at
\* order governs, and rows of the same second come in any order.
Governing(active, e) ==
  LET matching == {s \in active : e \in Covers[s]}
  IN  {s \in matching : \A t \in matching : Sec(stamp[s]) <= Sec(stamp[t])}

Verdicts(active, e) ==
  IF Governing(active, e) = {} THEN {"none"}
  ELSE {IF s \in Hard THEN "deny" ELSE "allow" : s \in Governing(active, e)}

Tick ==
  /\ now < MaxNow
  /\ now' = now + 1
  /\ UNCHANGED <<stamp, row, syncVars, cache, faults, asked, unqueued>>

-----------------------------------------------------------------------------

Commands ==
  \/ \E s \in Switches : HostedPause(s) \/ HostedResume(s)
  \/ \E m \in Machines :
       \/ \E filter \in SUBSET Switches : CliResumeAll(m, filter)
       \/ \E s \in Switches : Pause(m, s) \/ CliResume(m, s) \/ WebResume(m, s)

Push(m) ==
  \/ \E s \in Switches : PushRead(m, s) \/ PushDies(m, s)
  \/ PushWrite(m) \/ PushWriteUnconfirmed(m)

Pull(m) == PullAsk(m) \/ PullFetch(m) \/ PullApply(m) \/ PullApplyPartly(m)

Next ==
  \/ Commands
  \/ \E m \in Machines : Push(m) \/ Pull(m) \/ DaemonRestarts(m)
  \/ \E m \in Evaluators : Lookup(m)
  \/ Tick

Spec == Init /\ [][Next]_vars

\* The sync-daemon's worker and puller run on timers; `coodra start` and the
\* service manager restart the daemon.  The operators owe nothing.
Fairness ==
  \A m \in Machines :
    /\ \A s \in Switches : WF_vars(PushRead(m, s))
    /\ WF_vars(PushWrite(m))
    /\ WF_vars(PullAsk(m)) /\ WF_vars(PullFetch(m)) /\ WF_vars(PullApply(m))

FairSpec == Spec /\ Fairness

-----------------------------------------------------------------------------
(* Properties *)

\* No machine and no copy of the row in flight shows a switch as resumed
\* unless some operator resumed that switch: pushes, pulls and their retries
\* never lift a pause by themselves.
LiftedOnlyOnRequest ==
  \A s \in Switches :
    \/ \E n \in Nodes : row[n][s] = "resumed"
    \/ \E m \in Machines : sending[m] = [switch |-> s, state |-> "resumed"]
    \/ \E m \in Machines : pulling[m].batch[s] = "resumed"
    => s \in asked

\* Once made, a pause the team should see is in the cloud, or a push of it is
\* queued, or its enqueue failed, or its job is on the dead-letter list.
PauseIsOwed ==
  \A s \in Switches \ LocalOnly :
    stamp[s] # NotYet =>
      \/ Present(Cloud, s)
      \/ s \in unqueued \cup buried
      \/ \E m \in Machines : Present(m, s) /\ jobs[m][s] > 0

\* A pause the team should see reaches every machine that knows of no pause yet,
\* whatever pushes and pulls fail on the way, unless its own enqueue failed or its
\* job is on the dead-letter list.
FirstPauseSpreads ==
  \A s \in Switches \ LocalOnly, m \in Machines :
    stamp[s] # NotYet ~> (s \in unqueued \cup buried \/ \E t \in Switches : Present(m, t))
==============================================================================
