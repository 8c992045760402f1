# Coodra: models and proofs

Coodra keeps the memory of coding agents: hook events and tool calls of an agent
session become rows in `~/.coodra/data.db` (SQLite), are shared with a team through
cloud Postgres, and govern what the next tool call may do. This directory holds TLA+
modules of the parts of it where processes, retries and restarts meet, TLC
configurations that check them on small instances, and proofs that the TLAPS proof
system checks for every value of the constants.

    tlc -workers 2 -config MCOutbox_local.cfg MCOutbox.tla     # one run
    tlapm OutboxProofs.tla                                     # one module's proofs

`PROJECT.json` lists the components, the runs with what they should find, a mutation
of the model per property that the run detects, the source lines of every
definition, and the hazards the properties are aimed at.

## The system

| Component | State | Operations | Hard part |
|---|---|---|---|
| Durable outbox (`packages/cli/src/lib/outbox`, `packages/db/src/schedule-*.ts`) | `pending_jobs` | enqueue, claim, dispatch, delete / retry / dead-letter | several workers in several processes, leases, crashes at any statement, settlement by id |
| Recorders (`apps/mcp-server/src/lib/*recorder.ts`) | none | one audit job per call, plus a sync job in team mode | two INSERTs that are not a transaction |
| Sync daemon (`apps/sync-daemon`) | its worker's claim | push rows to Postgres; pull kill switches and team rows every 10 s | pushes that wait for rows not yet written and read, await and write; a pull that stops working |
| Kill switches (`packages/db/src/kill-switches.ts`, `coodra pause/resume`, dashboard) | `kill_switches` on every machine and in the cloud | pause, resume, resume all, hosted pause and resume | replicas that converge through queue and puller |
| Kill-switch evaluator (`packages/lifecycle`) | a 5-second cache | check a tool call | stale answers, expiry, precedence |
| Run lifecycle (`get_run_id`, `lifecycle_event`, `run cancel`, sweeps) | `runs`, `run_events` | open, resume, complete, fail, cancel, abandon, sweep | every hook event is a call of its own, sent twice when the daemon is slow; no statement guards against the others |
| Context packs (`save_context_pack`, automatic digest) | `context_packs` | save (idempotent, upgrade, insert), digest at SessionEnd | check-then-write across awaits, order relative to the run's status |
| Policy engine and `check_policy` (`packages/policy`, `packages/db/src/policies.ts`, dashboard) | rules, versions, exceptions, grants; the evaluator's cache | edit, publish, except, grant, evaluate | a fingerprint in whole seconds, publications of several statements, answers when nothing can be read |
| Projects (`init`, `project promote/demote/reset`) | `projects.org_id` | register, promote, demote, reset | they change under pushes that have already looked; a reset is a series of DELETEs |
| Team rows (push and pull of projects, runs and what hangs on them) | the tables in Postgres, `sync_to_cloud` jobs | write and queue, claim, ensure parents, insert; pull | two writes that are not one, foreign keys, round trips that fail in the middle, windows |
| Memory telemetry (`memory_access_events`, the rollup of the HTTP daemon) | the access log, two read models, compaction generations | record, roll up, prune, push | every statement of a pass races with hooks, midnight and crashes |
| Decisions, Work Packs, Deep Wiki | their tables and mirrored files | upsert, link, supersede | activity pointers written from several tools |
| Gardening, graph refresh | proposals, a running rebuild | periodic passes in the HTTP daemon | passes that race with requests |
| Transports, registry, run binding | in-memory maps | dispatch a call | bounded maps |
| CLI daemons, install, init, team migration; doctor; web dashboard | processes, files | start, stop, migrate, report | mostly I/O |

How they interact. A hook runner sends each event of the agent to the HTTP daemon on
port 3100 and, when that fails or times out, starts a short-lived stdio child that
handles the same event again. The handler finds or opens the run, does what the event
asks, and queues a `run_events` row in the outbox, and rows of `memory_access_events` for what
it put before the agent. Workers in every mcp-server process
drain the audit queues of the outbox; in team mode the sync daemon's worker drains
`sync_to_cloud`, reading the row an audit job wrote and pushing it to Postgres, while its
puller copies the team's kill switches back, once. Before each tool use the handler asks the
evaluator, which reads its machine's table through a cache. The daemon sweeps runs
whose events have stopped coming, and rolls the access log up every few minutes. A project is
the team's or stays on its machine, and each push asks which before it inserts anything.

What makes each part correct:

- outbox: nothing that was durably enqueued disappears before it has landed; two workers
  do not hold a row inside one lease; only rows that earned it are dead; queues drain.
- kill switches: no pause is lifted that nobody resumed; a pause meant for the team is in
  the cloud, on its way, or reported as failed, and reaches machines that have none; a machine answers from its own table within the cache's age;
  a hard pause denies.
- run lifecycle: one run for a session; a finished run is changed only by its own
  session's calls or an operator; a completed run has its context pack; what an agent saved
  stays saved; runs end.
- team rows: solo rows stay home; a project is not split; no failure drops a row once it is
  queued; what is in the cloud arrives.
- policies: one version in force; edits, withdrawals and faults take effect as the texts say.
- memory telemetry: no access is pruned before it is counted, no day is counted before it is over; a compaction
  gets its manifest again; the cloud's aggregates are current or on their way.

## Modules

| Module | What it is |
|---|---|
| `DurableDelivery` | what an outbox promises: accepted jobs land, or stay stored; no queues, leases or workers |
| `Outbox` | the outbox and its users, in detail; implements `DurableDelivery` |
| `MCOutbox` | instances |
| `OutboxProofs` | proofs about `Outbox`, the refinement included |
| `OutboxClaimsProofs` | how often a row can be claimed: an accounting over all workers |
| `KillSwitch` | the tables, commands, pushes, pullers and the evaluator's cache |
| `KillSwitchAged` | `KillSwitch` with a history variable for when a machine's switches last changed |
| `MCKillSwitch`, `MCKillSwitchAged` | instances |
| `KillSwitchProofs`, `KillSwitchAgedProofs` | proofs about `KillSwitch` and its cache |
| `RunBook` | what a project's run log promises its readers: entries, reports, retired runs, filed packs; no calls or statements |
| `RunLifecycle` | runs and context packs of one project on one machine, with everything that writes them; implements `RunBook` |
| `MCRunLifecycle` | instances |
| `RunLifecycleProofs` | proofs about `RunLifecycle`, the refinement included |
| `TeamSync` | projects, runs and their rows on several machines and in the cloud: commands, pushes, pulls |
| `MCTeamSync`, `TeamSyncProofs` | instances, proofs |
| `PolicyEngine` | the policy tables, administrators, the cached evaluator |
| `MCPolicyEngine`, `PolicyEngineProofs` | instances, proofs |
| `MemoryAccess` | the access log, its hooks, generations, the rollup pass and its pushes |
| `MCMemoryAccess`, `MemoryAccessProofs` | instances, proofs |

`TeamSync` sees its queue as `Outbox` justifies it: a job stays until a dispatch of it has
succeeded, whatever ends in between. `KillSwitch` and `MemoryAccess` do the same for theirs; the modules
share no variable otherwise, since they keep different tables.

Operators called `Bug...` are mistakes someone could make in the code; nothing in the
modules uses them. They are the mutations of `PROJECT.json`, each of which makes a run fail.

### Outbox

A job is a call and a queue. `status`, `attempts`, `expired` and `due` are the columns of
`pending_jobs`; `pc`, `held`, `tries` and `outcome` the local variables of a worker in
`OutboxWorker.#runOne`; `local` and `cloud` the `run_events` tables. `Claim` is the single
UPDATE of `#claim`, `DispatchAudit` and `DispatchSync` the dispatchers of the two services,
the `Settle...` actions what follows a dispatch, including the UPDATE that itself fails.
`EnqueueAudit` and `EnqueueSync` are the two awaited INSERTs of
`scheduleAuditWriteWithSync`, `CallCut` the process that ends between them. A worker that is
killed (`Crash`), stopped (`Stop`) or stalls past its lease (`LeaseExpiresUnderWorker`)
draws on `MaxInterruptions`; rows whose worker is gone expire for free. `RetryDead` is the
dashboard's retry of a dead row, `MaxRetries` times a row; these are the only bounds.

Time is abstract: `due` is the order of `run_after` among rows whose time has come, and a boolean says whether a
lease is over. A pending row must be due to be claimed, a picked one only past its lease, and of the rows that can be
claimed the earliest is (`Earlier`). The backoff's length and jitter do not matter, only that it ends. Payload contents
are the row id they insert. One call is made once; a tool call the agent repeats is two
calls with one `EventOf`. Of the three audit queues one is modelled: they differ in the table they insert into.

### KillSwitch

`row[n][s]` is the state of switch `s` at node `n` (a machine or the cloud): absent, active
or resumed. Its other columns are the same everywhere, so `stamp[s]`, the time of the pause, is
kept once; `Sec` is what SQLite keeps of it. `Pause`, `CliResume`, `CliResumeAll` and `WebResume`
act on a machine, `HostedPause` and `HostedResume` directly on the cloud. A push is `PushRead`
then `PushWrite`, because the dispatcher awaits between reading the row and upserting it; a pull is `PullAsk`,
`PullFetch` and `PullApply`. `PullAsk` needs a machine without any row: once there is one, the newest `paused_at`
comes back from `sql`MAX(...)`` as a bare number, the comparison with a `Date` column throws, and the tick ends in its
catch (`kill-switch-puller.ts:69-79`), which changes nothing and is no step. A row may still be paused while a pull is
between its steps. `Lookup` is the evaluator's `check`, with
its cache in `cache[m]`. The queue of pushes is the outbox seen from outside, as `Outbox`
justifies: a job is taken at least once, and may go dead (`PushDies`).

All machines share one clock, which is what the code's comparison of `paused_at` values
between machines presumes. `MaxNow` bounds the clock, `MaxJobs` the queue, `MaxFaults` the failures.

### RunLifecycle

A call is one invocation of the handler, of `save_context_pack` or of `run cancel`; `at[c]`
is the statement it is about to run. Every statement that touches the database is an
action: `Select`, `Insert`, `Reselect` and `Resume` of `get_run_id`; `Classify` (is this a
session start?), `MarkCompleted`, `MarkFailed`, `Record` and `Abandon` of the lifecycle
handler; `CheckPack`, `InsertPack` and `AutoPackFails` of the finalization;
`ReadPacks`, `UpgradePack` of `contextPack.write`; `ReadStatus` and `Cancel` of `cancelRun`. `Die`
is the end of the call's process or a statement that throws. `Sweep` is the daemon's sweeper, `Land` the
outbox inserting an event that a call had queued, in any order and as late as it likes: what
`Outbox` promises and no more.

Ages replace times: the sweeps compare `started_at` and the newest event with a cutoff, so
an age past the window stops growing and no clock needs a bound. Each call is used once; their number
is the bound. Packs are in order of insertion; ties of `created_at` within one second
are not modelled. A compaction that asks for the context again is a free choice at a prompt.
`packless` is a history variable: the sessions whose SessionEnd failed or died between completing
and saving.

`RunBook` is the same project seen by those who read its runs: the dashboard, the context of the next session, the
team. `Book` maps the row's id, its status and the packs to it directly, and `SavedRows` says which packs an agent
inserted itself; what a call has read and not yet written is not part of it.

### TeamSync

`org[m][p]` is `projects.org_id` as far as anybody looks at it; `runs[m]` and `rows[m]` are the
local tables, `cloud` those in Postgres, and what a row says is fixed when its id is given out
(`session`, `fact`). A row of `fact` stands for an event or a decision ("event"), a context pack
or a policy decision: they differ in whether they are pulled, whether they need a run, and what
their ids are made of. `Register`, `Promote` and `Demote` then `Flip` are commands; `OpenRun`, `Link`,
`Record` and `RecordUnbound` what agents do. `AddRow` stores a row and leaves it in `unqueued[m]`; `QueueRow` is the second
write, which queues its job. It may never come: the process ends, or the error is logged and swallowed. `Register` and `Promote` may
lose their job the same way (`TryEnqueue`).

`hand[m]` is the worker of the sync daemon between two awaits: `ClaimRow` reads the local row, `ReadParents` its run
and the run's project, then `EnsureProject`, `EnsureRun` and `InsertRow` (or `UpsertProject`, `UpsertRun`) write to
Postgres one by one, and `Fail` may come at any of them. When the run has gone between the first two reads, the
callers of `ensureRunAndProjectInCloud`, who test for `local_only` alone, insert the row without its parents:
`ReadParents` goes straight to `InsertRow`. A foreign key that does not hold disables the insert, which leaves `Fail`.

A reset is `Reset` (the verdicts), `ResetEvents`, `ResetPacks` and `ResetRuns`, with everybody else in between, and `ResetStops` when the
command throws or is killed. A row that lands under a run about to be deleted stops the DELETE if its
foreign key restricts, and loses its run if it is an event or a decision: it goes to `adrift[m]`. A push that reads it
then inserts it without a run (`InsertAdrift`), `cloud.adrift` keeps those, and pulls spread them. A machine does one reset at
a time. `Named` is the `LIKE` with which
demote drops jobs: it matches run keys, event ids and decision keys, since each contains the project id.

The three parts of a pull are steps of their own, so the model allows more orders than a tick has; a
pull's SELECT and its INSERTs are one step, as nothing else inserts rows of other machines. Runs
that are finished, columns, features and wikis are left out; `Outbox` has the attempts of a
job. `shared`, `overtaken` and `skipped` are history variables.

### PolicyEngine

One policy of one project. `rules`, `policy`, `versions`, `exc` and `grants` are the tables;
`editor[p]` is an administrator inside `publishPolicyVersion`: `Snapshot`, `ReadLatest`, `Retire` and
`Insert` are four statements outside a transaction, and `NumberFree` is the unique index on the version's number.
`EditRule`, `SetActive`, `CreateException`, `SetException`, `CreateGrant` and `RevokeGrant` are the dashboard's actions.
`eval[e]` is a call of `evaluate`: `ReadRevision`, then, unless the cache can be used, `ReadRules` and
`ReadOverrides`, with everybody else in between; `Fail` is a read that throws, times out or finds the breaker open. `Verdicts` are the answers
the rows loaded allow, more than one where the code's order is not determined (rules of one priority, exceptions of one second).
`Revision` is the fingerprint, in whole seconds: `now` is a second, and any number of steps happen in one.

Matchers are a set of calls for each rule; expiry, scopes and the breaker's counting are left out, and so are grants that deny or
ask: every grant of the model allows. `RuleWrite` refuses a rule equal to another, which the table's unique index does only for rules with
a path, since NULLs are distinct. The two reads of exceptions and
grants are one step, and so is the fingerprint, which SQLite computes without yielding. `edition`,
`published`, `until` and `open` are history variables: what the rules were, when.

### MemoryAccess

A hook is `SessionStart`, `Prompt` or `Refuse` (a denial that teaches): it reads the run's generation and what of it has been
shown (`GenerationRead`, `SurfacedRead`: each answers 0 or nothing when it fails) and hands its items to `recordPush`, which it does not
wait for. From there two things race: `Record` queues a payload at a time, and may never; the hook goes on to `Answer`, or
its runner stops waiting (`TimeOut`) and nobody sees the manifest. A tool call that
returns memories is a `Pull`; `Land` is the outbox inserting a job's row, once for a row id and whenever it likes.
`PostCompact` raises the run's generation.

The statements of `runMemoryRollupOnce` are `DeleteDaily`, `InsertDaily`, `DeleteCohorts`,
`InsertCohorts`, `Prune` and `EnqueueRollupSync`, each a step; `PassCut` ends a pass before any of them, `Midnight`
passes between any two. An aggregate is represented by the log rows it counts, so that a lost or a
doubly counted access shows. Only grains with a project, or a run and an item, are queued (`Queueable`). A push is `ReadGrain`, which
reads the aggregate, then, after the parents, `UpsertGrain`, with passes in between; `PushFails` puts the job back, `PushGivenUp` is
its death, or the acknowledgement without a write of a project that is solo. A job may be dispatched again after it landed.

Attribution of a pull to a run may fail: `PullArgs` has pulls with and without a run and a project. `shown`,
`unanswered`, `givenUp` and `landed` are history variables. Row ids are the site's kind, run, generation and item, where the code
has the hook's own key in them; two refusals of one event are one id. An upsert that a killed daemon had sent and that Postgres
commits after the daemon's successor has pushed is not modelled.

## Runs

Outbox:

| Run | Instance | Checks |
|---|---|---|
| `MCOutbox_local` | solo mode, 2 calls (one malformed), 2 workers, 2 attempts, 2 interruptions, 1 retry of each dead row | `TypeOK`, `NothingLost`, `DeadIsJustified`, `ExclusiveUntilInterrupted`, `ClaimsBounded`, `ImplementsDelivery` |
| `MCOutbox_team` | team mode, 2 calls for one row (one malformed), 2 workers of different services, 1 interruption, no retry, fair workers | `NothingLost`, `QueueDrains` |

A stale settlement takes one interruption (a worker stalls and its row is claimed again); the second is what
else goes wrong, and a second worker of the same service is there to take the row over. In team mode the interest
is in the pair of jobs: one interruption is enough for a push that comes too early or twice. Two attempts are enough
for a retry and a death, one retry of a dead row for a second life. With three interruptions, with retries in team mode, and
with three workers and four interruptions for `ClaimsBounded`, TLC finds nothing either; these instances have up to 13 million
states and are not among the runs.

Kill switches:

| Run | Instance | Checks |
|---|---|---|
| `MCKillSwitch_sync` | 2 machines, the cloud, 1 switch, 2 jobs, 2 faults, time 0..2, fair timers | `TypeOK`, `LiftedOnlyOnRequest`, `PauseIsOwed`, `FirstPauseSpreads` |
| `MCKillSwitchAged` | 1 machine, a hard switch and an expiring soft one that is local, time 0..3, cache of 1 tick | `StaleNoLongerThanTTL`, `HardPauseDenies` |

One second is two ticks, so that a hosted pause can have a fraction of a second. Switches interact through
precedence, which two show, and through the puller, which a row of any switch stops; the first instance has one
switch that two machines and the cloud pass on. Three ticks let a soft pause that is younger than a hard one
still be in force when the cache has settled. A fault is a failed dispatch, enqueue or upsert, a restart or a dead job: two let a
retry fail as well.

Run lifecycle:

| Run | Instance | Checks |
|---|---|---|
| `MCRunLifecycle_status` | 2 sessions, 2 calls of every kind, fair time and sweeper | `TypeOK`, `RunsAgree`, `FinishedStayFinished`, `RunsEnd` |
| `MCRunLifecycle_packs` | 1 session, 4 calls, 2 texts; ends, saves | `CompletedHasPack`, `SavesAccountedFor`, `ImplementsRunBook` |

Two calls are an opener and a racer, or two that race in two sessions; the packs need four, since
an automatic pack must exist before two saves compete for it and a second SessionEnd interferes. Calls of other sessions reach a
session only through `Abandon`, so two sessions are enough. A window of one tick separates
young from old.

Team rows:

| Run | Instance | Checks |
|---|---|---|
| `MCTeamSync_rows` | 2 machines, 1 project, 2 sessions, 2 runs, 2 rows, a window of 1, 2 commands, fair pulls | `TypeOK`, `OnlyTheTeams`, `SplitOnlyIfOvertaken`, `NothingDropped`, `RowsArrive` |
| `MCTeamSync_packs` | the same with packs and 1 command | violated: `PacksArrive` |

Two commands let a project be registered, and then demoted, promoted or reset, table by table, in the middle of a push; one registers it. A
window of one with two rows is a window that moves past a row. A second project would meet the first only in the window.

Policies:

| Run | Instance | Checks |
|---|---|---|
| `MCPolicyEngine_publish` | 2 administrators, 1 evaluation at a time, 1 rule that denies or asks, 1 exception, 1 grant, one second, 2 changes | `TypeOK`, `AtMostOneActive`, `PublishedEditSeen` |
| `MCPolicyEngine_cache` | 1 administrator, 1 evaluation at a time, 1 rule, 1 exception, 1 grant, seconds 0..2, a lifetime of 1, 2 changes | `StaleBounded`, `HiddenOnlyWithinASecond`, `FailsClosed` |

Two changes are an edit and its counterpart, two edits published at once, or an edit beside a withdrawal; the second beyond the
lifetime shows what is stale. Within one second the fingerprint tells two publications apart only by how many versions there are, which is why the first
instance does without a clock. Two concurrent evaluations, which can overwrite each other's cache entry, are covered by the proofs, for any number.

Memory telemetry:

| Run | Instance | Checks |
|---|---|---|
| `MCMemoryAccess_rollup` | 1 run, 1 project, 1 item, days 0..1, retention 0, 1 compaction, 2 accesses, 1 fault | `TypeOK`, `NothingLost`, `NoPartialDay`, `ReseededUnlessTaught`, `CloudCurrentOrQueued` |
| `MCMemoryAccess_history` | the same with days 0..2 and retention 1 | violated: `CohortHistoryKept` |

With no retention a finished day is pruned at once, so two days make one that is over, counted and pruned, and one that is not over; the midnight
may fall anywhere in a pass. A fault is a pass cut, a hook timed out, a push dispatched twice or given up. One item is enough, since items of a
grain only add up. Two midnights inside one pass (a machine that slept in it), more projects, items and faults are the proofs' part.

Deadlock is not checked for `Outbox`, `KillSwitch`, `PolicyEngine` and `MemoryAccess`: they have come to rest when all
calls are made and the bounds are used up. In `RunLifecycle` time goes on and in `TeamSync` the pullers do, and it is checked.

### Fairness

- `Outbox`: workers poll on a timer and a dispatch returns (weak fairness of `Claim`, the dispatch and its
  settlement), crashed processes are started again, backoffs and orphaned leases run out.
  Nothing makes a dispatch succeed: a job whose dispatch keeps failing goes dead, which drains the
  queue as well.
- `KillSwitch`: the daemon's worker and puller keep ticking (`scheduleNext` re-arms itself after errors
  too), which `FirstPauseSpreads` needs. No command is fair.
- `TeamSync`: the puller of every machine keeps ticking, and now and then the cloud answers. No push is fair: `RowsArrive`
  is about rows that are in the cloud.
- `PolicyEngine`, `MemoryAccess`: none, no liveness is claimed. That an evaluation ends is its timeout; that a pass is
  followed by another one is one timer, and the state space with fairness was not worth it.
- `RunLifecycle`: time passes and the sweeper's interval fires. No call is fair: `RunsEnd`
  holds even if every call dies.

## Proofs

| Theorem | Module | States |
|---|---|---|
| `TypeCorrect` | all but `KillSwitchAgedProofs` and `OutboxClaimsProofs` | `TypeOK` always holds |
| `InvariantHolds` | `OutboxProofs` | `OutboxInv` |
| `NoJobIsLost` | `OutboxProofs` | `NothingLost` |
| `DeathIsJustified` | `OutboxProofs` | `DeadIsJustified` |
| `ClaimsExclude` | `OutboxProofs` | `ExclusiveUntilInterrupted` |
| `ClaimsAreBounded` | `OutboxClaimsProofs` | `ClaimsBounded` |
| `OutboxImplementsDelivery` | `OutboxProofs` | every behaviour of `Outbox` is one of `DurableDelivery` |
| `PausesAreLiftedOnRequest` | `KillSwitchProofs` | `LiftedOnlyOnRequest` |
| `PausesAreOwed` | `KillSwitchProofs` | `PauseIsOwed` |
| `StaleAnswersExpire` | `KillSwitchAgedProofs` | `StaleNoLongerThanTTL` |
| `HardPausesDeny` | `KillSwitchAgedProofs` | `HardPauseDenies` |
| `SessionHasOneRun` | `RunLifecycleProofs` | `RunsAgree` |
| `FinishedRunsStayFinished` | `RunLifecycleProofs` | `FinishedStayFinished` |
| `SavesAreAccountedFor` | `RunLifecycleProofs` | `SavesAccountedFor` |
| `CompletedRunsHavePacks` | `RunLifecycleProofs` | `CompletedHasPack` |
| `CallsKeepTheBook` | `RunLifecycleProofs` | every behaviour of `RunLifecycle` is one of `RunBook` |
| `OnlyTheTeamsAlways`, `SplitOnlyIfOvertakenAlways`, `NothingDroppedAlways` | `TeamSyncProofs` | the property of that name |
| `AtMostOneActiveAlways`, `PublishedEditSeenAlways`, `StaleBoundedAlways`, `HiddenOnlyWithinASecondAlways`, `FailsClosedAlways` | `PolicyEngineProofs` | the property of that name |
| `NothingLostAlways`, `NoPartialDayAlways`, `CloudCurrentOrQueuedAlways`, `ReseededAlways` | `MemoryAccessProofs` | the property of that name, `ReseededUnlessTaught` |

They rest on the named assumptions of the modules (`OutboxAssumption`,
`KillSwitchAssumption`, `RunLifecycleAssumption`, `TeamSyncAssumption`, `PolicyAssumption`, `NoneAssumption`, `MemoryAssumption`, `GrainAssumption`), which say what kind of thing each
constant is; no bound is assumed to be small. `OutboxAssumption` says that there are finitely many workers: each is a process
of one machine, and `ClaimsBounded` counts them.

- **Outbox.** `NothingLost` is not inductive: a stale worker may delete a row another
  worker holds. `OutboxInv` adds what is true of every worker, stale or not: a worker about to
  settle with "success" holds a row that has landed, and what a worker counted never
  exceeds the row's attempts unless the operator reset them. `HeldInLease` says that until
  something is interrupted a held row is picked, inside its lease, with the holder's count:
  `ExclusiveUntilInterrupted` needs it, and so does `DeadIsJustified` for a row that was retried.
  With the type invariant and the correspondence between busy workers and the rows they hold (`BusyHolds`) and between
  calls and team mode (`TeamCalls`) this is inductive. Refinement maps
  accepted calls, dead rows, rows deleted and rows landed to the four variables of
  `DurableDelivery`. An INSERT is an `Accept`, a dispatch that lands a `Land`, a settlement a
  `Forget`, `Shelve` or, when a stale worker reschedules a dead row, `Unshelve`, which the
  operator's retry is too; claims, processes and the clock stutter.
  `ClaimsBounded` is not inductive either: a stale worker that puts a row back makes room for one more claim. `ClaimsPaid`
  counts that room too. Per row, the claims beyond `maxAttempts - 1`, the claim the row is open to (`Loose`) and the holders whose
  count still lets them put it back (`Returners`) together stay within the interruptions and one. A claim uses up the row's place and may make a
  returner; a settlement removes its worker from the returners and may open the row; only an interruption
  makes a place. The lemmas of that module say how the cardinality of `Returners` changes with one worker.
  `OutboxInv` itself is an invariant TLC was run with, and is in no run since every property it serves is in one.
- **Kill switches.** `LiftedOnlyOnRequest` speaks of every copy of a row, in tables, in
  pushes and in pulls: stated of the tables alone it would not be inductive. `PauseIsOwed` uses that a row
  once present is never removed, and that only rows that are present are queued (`JobsHaveRows`).
  For the cache, `CacheDated` says that an entry whose rows are no longer the active ones was filled before they last changed;
  `HardPauseDenies` adds that of the pauses that cover an event one is the oldest to the second (`LeastNatural`).
- **Run lifecycle.** The type invariant needs `Shape`: what kind of call can be at
  which statement. `RInv` says that a session has no status exactly when it has no row, and that whatever a call
  holds is the session's row, because rows are never deleted and `Insert` alone creates one.
  `FinishedStayFinished` then follows step by step; `Insert` is the case that needs `RInv`.
  For the packs, `PInv` adds to `SavesAccountedFor` that a row a save created says who wrote it and that nobody is about to upgrade it:
  a row is chosen for an upgrade while it is automatic, and an upgrade that is late finds it upgraded, never created.
  `CompletedHasPack` needs from it that a save which completes a run has written before.
  Refinement: `Insert` is an `Open` (the first row of a session; the loser of the race stutters), the statements that write a status are a `Report`, `Sweep` and `Abandon` a `Retire`,
  `InsertPack` a `File`, and `UpgradePack` a `Rewrite`, which is where `PInv` is needed: a row about to be upgraded is in the table and no save
  created it. `Retire` asks that runs be in progress, so a sweep that overtook a finished run would not be a step of `RunBook`. Reads, deaths, time and landings stutter.
- **Team rows.** `Shape` says which job the worker holds at which step, that rows and runs have been given out, and that a machine
  knows the project of each of its rows, those adrift excepted (`Sited`). `Shared` adds to `OnlyTheTeams` that a worker about to insert
  holds only what some machine once shared, also when it goes on without the parents: then the foreign key says that the run is
  in the cloud. `Apart` extends `SplitOnlyIfOvertaken` to a project that demote is about to flip, and adds that only its own
  machine knows a project the cloud has not seen: nobody else can push it. `NothingDropped` is inductive given the types and `Shape`; its cases
  are the settlements of the worker, which are the only steps that remove a job other than demote, and the rows a pull or a machine adds.
- **Policies.** `OneInForce` couples what is active with the publishers that have read the latest number: one that has passed
  `Retire` with the newest number left nothing active, and one with an older number finds its number taken. `Fresh`, `Bounded`, `Dated` and `Closed`
  all speak of whatever has been loaded, in the cache, in an evaluation or in what an evaluation took from the cache (`Cached`), relative to
  the tables and to the history; the four action properties follow from them.
- **Memory telemetry.** `Counting`: daily rows are of days before the pass's date, a day leaves the log as a whole, and from the
  INSERT to the prune the finished days of the log are counted. `NothingLost` needs it at `Prune`, where the date read
  at the start of the pass may be two days old. `HeldWhole` says the same of the rows a push holds, which reach the cloud later.
  `Pushed` explains every pushed payload, wherever it is on its way: by a refusal, or by a hook of its
  generation that carried the manifest (`Ran`); a log row of a generation is the only thing that silences a prompt, so `ReseededUnlessTaught` follows (`PushedReseeds`).
  For the cloud, `HandFresh` says that between passes a grain whose push is in hand and has no other job is held as it is,
  so that an upsert leaves it current; a pass that changed it has queued another job by the time it ends.

Every safety property and both refinements of the passing runs are proved. Only model-checked: the liveness properties (`QueueDrains`,
`FirstPauseSpreads`, `RunsEnd`, `RowsArrive`), which are out of the prover's reach.

## Where the code and its texts disagree

Two of the disagreements have a run that TLC ends with a counterexample; `PROJECT.json` "findings"
quotes the texts:

- a teammate's context packs never arrive: the puller's INSERT names a conflict target whose unique index a migration dropped (`PacksArrive`);
- a cohort is recomputed from the rows that are left after its older ones have been pruned (`CohortHistoryKept`).

Others show in the same modules, by the same reading, and have no run of their own. In the outbox, kill switches and runs:

- Once a machine has one kill switch, resumed ones included, its puller never fetches again: the watermark is a bare number, and the comparison
  with a `Date` column throws at each tick (`PullAsk`; `kill-switch-puller.ts:69-75`), against its header (12-15) and
  `apps/web-v2/lib/actions/kill-switches.ts:18-19`. Neither a later pause nor a resume reaches that machine; `FirstPauseSpreads` is what does.
- For the same reason a row of the first batch that fails to upsert beside one that succeeds is not tried again (`PullApplyPartly`),
  against `kill-switch-puller.ts:28-29`.
- `coodra resume` changes the local row and pushes nothing (`CliResume`), against `dispatch.ts:410-412`.
- A second terminal whose first event is still in the outbox is abandoned by the next session start (`Abandon`), against
  `lifecycle-event/handler.ts:1403-1405`.
- Two handlers of one SessionEnd may each insert a digest, with no unique index to stop the second (`InsertPack`), against
  `auto-context-pack.ts:45-47`.
- `schedule-audit-write-with-sync.ts:20-21` promises both rows of a pair after a SIGTERM; the two INSERTs
  are separate (`CallCut` after `EnqueueAudit`).
- A worker that outlives its lease puts a row another worker has claimed back to pending
  (`SettleRetry`), so a row may be claimed inside a lease, against `worker.ts:71-72`.
- A dead row that is retried may be buried again by a worker that outlived its lease, before
  anybody picks it up (`RetryDead`, `SettleDead`), against `apps/web-v2/lib/queries/sync.ts:87-88`.
- `types.ts:47-48` counts failures; `Claim` counts claims, those that ended in a crash included.
- A `--no-sync` pause that is resumed in the dashboard is pushed (`WebResume`), against
  `kill-switch-puller.ts:31-34`.
- Nothing catches up a failed enqueue (`unqueued`), against `pause.ts:231-232`.
- `cancelRun` may overwrite a status that became final after it was read (`Cancel`), against
  `runs-admin.ts:340-342`.
- Any event handled late resumes a finished run (`Resume`), not only the next prompt,
  against `get-run-id/handler.ts:247-249`.
- Two saves that both read an automatic pack overwrite it one after the other (`UpgradePack`),
  against `context-pack.ts:51-52`; `SavesAccountedFor` says that this is the only way to lose one.

In the rows of the team:

- Two machines may hold one project apart: demote asks and writes in two steps with pushes in between (`Demote`, `Flip`), against
  `project.ts:345-360`; `SplitOnlyIfOvertaken` says that this is the only way. `init` with the cloud out of reach mints a second id.
- A row and its job are two writes, and so are a project and its job: when the second fails the error is logged, and no one makes it later
  (`QueueRow`, `TryEnqueue`), while `record-decision/handler.ts` speaks of a "next manual push" and `ensure-project.ts:287` of the "next ensureProject call",
  which enqueues nothing for a project that exists.
- On a run that is missing, of which `dispatch.ts:479-480` says "Caller treats as transient failure", the callers insert the row
  without its parents (`ReadParents`); only the cloud's foreign key stops it.
- A reset is not a transaction: an event or decision that lands before its run is deleted stays without one, `project reset` notwithstanding, is pushed
  without a look at its project even when that is solo, against `dispatch.ts:272-273`, and is pulled by every machine (`ResetRuns`, `InsertAdrift`); one
  that is a pack or a verdict makes the reset throw half-way.
- Rows recorded before a demotion never reach the team after a later promotion: demote drops their jobs (`Named`), and promotion
  queues only the project and its features.
- Policy decisions without a run are pushed without a look at their project (`ClaimRow`), against `dispatch.ts:272-276`; the
  foreign key refuses them.
- After `project reset` a session that goes on gets a new run, the cloud keeps the old one, DO NOTHING, and the new run's rows fail
  their foreign key for ever (`PutRun`, `InsertRow`), against `dispatch.ts:457-466`. In team mode the next pull also brings back
  what was reset.
- Only linking a run to a pull request or an issue pushes it (`Link`): its status never reaches the cloud, and a teammate's run
  stays in progress or is swept where it was pulled.
- `features` are called last-write-wins and no times are compared; a comment of the puller takes foreign keys to be off
  (`client.ts:91` turns them on); the pullers' `stop()` does not wait for a tick under way.

In policies:

- The loser of two concurrent publications retires the winner's version, then throws on the number (`Retire`, `Insert`): no version is in force
  until the next one; a publisher with an old snapshot may put it in force.
- An edit that is taken back before it is published has the same hash as before, and the evaluator may keep the state between for
  its lifetime (`Snapshot`): `StaleBounded` is what remains. A slower load may overwrite a younger cache entry (`Entry`).
- `policy.ts:45-57` says errors fail open; a warm cache denies (`FailedVerdicts`). `system-architecture.md:1961` and `check-policy/manifest.ts:48-50`
  say that a fault allows.
- An exception denies where no rule matches, with the reason `no_rule_matched`, for which `system-architecture.md:1959` has allow; exceptions of another
  policy, or an inactive one, apply there as well (`ExceptionMatches`).
- The fuse wraps the breaker, so timeouts do not count as its failures. A decision's `ask` outcome is never pushed.

In memory telemetry:

- A hook that has handed over its rows and then outlives its caller's patience has shown nothing, and its rows keep the next prompt from
  showing it (`Record`, `TimeOut`), against `lifecycle-event/handler.ts:945`: the other exception in `ReseededUnlessTaught`. A generation that
  cannot be read counts as 0, which never shows the manifest again (`GenerationRead`).
- A pull is recorded without its generation, so every pull counts for generation 0 (`PullPayload`), against
  `memory-rollup-worker.ts:37-41`.
- A denial that teaches counts as having shown the generation (`Surfaced`), so the next prompt does not show the manifest, against `lifecycle-event/handler.ts:932-934`:
  that is one exception in `ReseededUnlessTaught`.
- The push of a cohort leaves out its two columns of surfacing and pulling sites.

## Not modelled, and the plan

In this order:

1. `WorkPacks` with decisions: status transitions, supersession and activity pointers.
2. The resolution of `ask` outcomes by PostToolUse and SessionEnd, beside the recording of verdicts: PostToolUse updates a decision that
   may still wait in the outbox, and SessionEnd calls what is unresolved not executed.
3. Deletion of a project, which removes rows under every other module.
4. `TeamMigrate`: the one-shot copy into the cloud, its phases, which are not transactions, and what a second attempt does after a failed one.
5. The graph refresh's single flight.

Left out: transports, hook adapters, rendering of context, files mirrored on disk, run
diffs, doctor, install and init, the dashboard's queries: pure functions or I/O that keep no
state others depend on. The in-memory run binding is a cache of what `get_run_id` returns.
