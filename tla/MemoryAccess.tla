---------------------------- MODULE MemoryAccess ----------------------------
(***************************************************************************)
(* Memory telemetry: the access log `memory_access_events`, the hooks that   *)
(* write to it through the outbox, the compaction generations that decide    *)
(* when the manifest is shown again, and the worker of the HTTP daemon that  *)
(* rolls the log up into `memory_access_daily` and `memory_cohorts`, prunes  *)
(* it and queues both read models for the cloud.                             *)
(*                                                                         *)
(* An aggregate is represented by the log rows it counts: `daily` and        *)
(* `cohorts` are sets of log rows, and the aggregate of a grain is there     *)
(* when a row of that grain is.  Every statement of a pass is a step of its  *)
(* own, so other processes land rows, and midnight passes, between any two;  *)
(* a push to the cloud reads its aggregate in one step and writes it in      *)
(* another.                                                                  *)
(***************************************************************************)
EXTENDS Integers

CONSTANTS
  Runs,        \* runs that call the hooks; one session each
  Projects,
  ProjectOf,   \* the project of each run
  Items,       \* packs and decisions a manifest may list
  PullArgs,    \* what the pulls are attributed to: run, project and item found
  Retention,   \* retentionDays
  TeamMode,    \* COODRA_MODE = team
  LastDay,     \* bound: how many midnights pass
  MaxGen,      \* bound: compactions of one run
  MaxAccesses, \* bound: hooks that push and tool calls that pull
  MaxFaults,   \* bound: passes cut, hooks timed out, pushes repeated or given up
  None

ASSUME MemoryAssumption ==
  /\ ProjectOf \in [Runs -> Projects]
  /\ Retention \in Nat
  /\ TeamMode \in BOOLEAN
  /\ LastDay \in Nat
  /\ MaxGen \in Nat
  /\ MaxAccesses \in Nat
  /\ MaxFaults \in Nat
  /\ PullArgs \subseteq [run : Runs \cup {None}, project : Projects \cup {None}, item : Items \cup {None}]
  /\ \A a \in PullArgs : a.run # None => a.project = ProjectOf[a.run]
  /\ None \notin Runs
  /\ None \notin Projects
  /\ None \notin Items

Days == 0..LastDay
Gens == 0..MaxGen

\* A row id names the access: one per run, generation and item for the
\* manifest, one per run and item for a denial that teaches, one per pull.
Ids ==
  ({"manifest"} \X Runs \X Gens \X Items) \cup ({"teach"} \X Runs \X Items)
    \cup ({"pull"} \X (1..MaxAccesses))

Payload ==
  [id : Ids, run : Runs \cup {None}, project : Projects \cup {None}, item : Items \cup {None},
   gen : Gens, channel : {"push", "pull"}]
\* A row of memory_access_events: a payload and the UTC day of its created_at.
Row == [access : Payload, day : Days]

VARIABLES
  day,          \* today, UTC
  gen,          \* runs.baseline_generation
  waiting,      \* generations whose manifest a hook has still to answer with
  recording,    \* payloads a recordPush has still to enqueue
  shown,        \* generations whose manifest an answer carried (history)
  unanswered,   \* generations a manifest hook ended in without an answer (history)
  accesses,     \* hooks that push and pulls so far
  jobs,         \* queued memory_access jobs
  raw,          \* memory_access_events
  landed,       \* every row the log ever held (history)
  pass,         \* the next statement of the rollup pass; "cut" after one that did not end
  today,        \* the date the pass read when it started
  faults,       \* passes cut, hooks timed out, pushes repeated or given up
  daily,        \* memory_access_daily: the rows it counts
  cohorts,      \* memory_cohorts: the rows it counts
  syncJobs,     \* queued sync_to_cloud jobs, by grain
  push,         \* the push the sync worker has in hand, with the rows it read
  givenUp,      \* grains with a push dead or acknowledged unwritten (history)
  cloudDaily,   \* the daily rows in cloud Postgres
  cloudCohorts  \* the cohort rows in cloud Postgres

hookVars  == <<gen, waiting, recording, shown, unanswered, accesses>>
logVars   == <<jobs, raw, landed>>
passVars  == <<pass, today, daily, cohorts>>
cloudVars == <<syncJobs, push, givenUp, cloudDaily, cloudCohorts>>
vars == <<day, faults, hookVars, logVars, passVars, cloudVars>>

DailyGrain(r)  == <<"daily", r.access.project, r.day>>
CohortGrain(r) == <<"cohort", r.access.run, r.access.gen, r.access.item>>
\* The grains that are pushed: those that satisfy the cloud's foreign keys.
DailyGrains  == {"daily"} \X Projects \X Days
CohortGrains == {"cohort"} \X Runs \X Gens \X Items
Grains       == DailyGrains \cup CohortGrains

ASSUME GrainAssumption == None \notin Grains

\* Nothing in hand.
NoPush == [grain |-> None, rows |-> {}]

TypeOK ==
  /\ day \in Days
  /\ gen \in [Runs -> Gens]
  /\ waiting \in [Runs -> SUBSET Gens]
  /\ recording \subseteq Payload
  /\ shown \in [Runs -> SUBSET Gens]
  /\ unanswered \in [Runs -> SUBSET Gens]
  /\ accesses \in 0..MaxAccesses
  /\ jobs \subseteq Payload
  /\ raw \subseteq Row
  /\ landed \subseteq Row
  /\ pass \in {"idle", "cut", "insertDaily", "deleteCohorts", "insertCohorts", "prune", "sync"}
  /\ today \in Days
  /\ faults \in 0..MaxFaults
  /\ daily \subseteq Row
  /\ cohorts \subseteq Row
  /\ syncJobs \subseteq Grains
  /\ push \in [grain : Grains, rows : SUBSET Row] \cup {NoPush}
  /\ givenUp \subseteq Grains
  /\ cloudDaily \subseteq Row
  /\ cloudCohorts \subseteq Row

Init ==
  /\ day = 0
  /\ gen = [r \in Runs |-> 0]
  /\ waiting = [r \in Runs |-> {}]
  /\ recording = {}
  /\ shown = [r \in Runs |-> {}]
  /\ unanswered = [r \in Runs |-> {}]
  /\ accesses = 0
  /\ jobs = {}
  /\ raw = {}
  /\ landed = {}
  /\ pass = "idle"
  /\ today = 0
  /\ faults = 0
  /\ daily = {}
  /\ cohorts = {}
  /\ syncJobs = {}
  /\ push = NoPush
  /\ givenUp = {}
  /\ cloudDaily = {}
  /\ cloudCohorts = {}

-----------------------------------------------------------------------------
(* lifecycle_event: the hooks of a run *)

\* PostCompact: bumpRunBaselineGeneration.  When its UPDATE fails the hook goes
\* on without it, so a compaction that was not counted is no step at all.
PostCompact(r) ==
  /\ gen[r] < MaxGen
  /\ gen' = [gen EXCEPT ![r] = @ + 1]
  /\ UNCHANGED <<day, faults, waiting, recording, shown, unanswered, accesses, logVars, passVars, cloudVars>>

\* surfacedMemoryIdsForGeneration
BugSurfacedEver(r, g) ==
  {e.access.item : e \in {x \in raw : /\ x.access.run = r
                                      /\ x.access.channel = "push"}} \ {None}
Surfaced(r, g) ==
  {e.access.item : e \in {x \in raw : /\ x.access.run = r
                                      /\ x.access.gen = g
                                      /\ x.access.channel = "push"}} \ {None}

\* needsReemitAfterCompaction
NeedsReemit(g, surfaced) == g > 0 /\ surfaced = {}

\* Both reads of a hook answer even when they fail: generation 0, nothing surfaced.
GenerationRead(r)  == {gen[r], 0}
SurfacedRead(r, g) == {Surfaced(r, g), {}}

\* The row of one item.  The key of a manifest names the generation, the key of
\* a teaching does not.
PushPayload(site, r, g, i) ==
  [id |-> IF site = "manifest" THEN <<site, r, g, i>> ELSE <<site, r, i>>,
   run |-> r, project |-> ProjectOf[r], item |-> i, gen |-> g, channel |-> "push"]

\* A hook hands the items it found to recordPush, which it does not wait for.
RecordPush(site, r, g) ==
  /\ accesses < MaxAccesses
  /\ accesses' = accesses + 1
  /\ \E S \in SUBSET Items :
       recording' = recording \cup {PushPayload(site, r, g, i) : i \in S}
  /\ UNCHANGED <<day, faults, gen, shown, unanswered, logVars, passVars, cloudVars>>

\* SessionStart (or the first prompt of a session that had none), and the first
\* prompt after a compaction, will carry the manifest.
SessionStart(r) ==
  \E g \in GenerationRead(r) :
    /\ waiting' = [waiting EXCEPT ![r] = @ \cup {g}]
    /\ RecordPush("manifest", r, g)

Prompt(r) ==
  \E g \in GenerationRead(r) :
    /\ \E surfaced \in SurfacedRead(r, g) : NeedsReemit(g, surfaced)
    /\ waiting' = [waiting EXCEPT ![r] = @ \cup {g}]
    /\ RecordPush("manifest", r, g)

\* PreToolUse denied or asked about: decisions that motivated the rule ride the
\* refusal.
Refuse(r) ==
  /\ \E g \in GenerationRead(r) : RecordPush("teach", r, g)
  /\ UNCHANGED waiting

\* recordPush enqueues one payload.  One whose INSERT fails, or whose process
\* ends first, is never enqueued.
Record(p) ==
  /\ p \in recording
  /\ recording' = recording \ {p}
  /\ jobs' = jobs \cup {p}
  /\ UNCHANGED <<day, faults, gen, waiting, shown, unanswered, accesses, raw, landed, passVars, cloudVars>>

\* The hook ends: its answer carries the manifest, or its caller has stopped
\* waiting and sees nothing.
Answer(r, g) ==
  /\ g \in waiting[r]
  /\ waiting' = [waiting EXCEPT ![r] = @ \ {g}]
  /\ shown' = [shown EXCEPT ![r] = @ \cup {g}]
  /\ UNCHANGED <<day, faults, gen, recording, unanswered, accesses, logVars, passVars, cloudVars>>

TimeOut(r, g) ==
  /\ g \in waiting[r]
  /\ faults < MaxFaults
  /\ faults' = faults + 1
  /\ waiting' = [waiting EXCEPT ![r] = @ \ {g}]
  /\ unanswered' = [unanswered EXCEPT ![r] = @ \cup {g}]
  /\ UNCHANGED <<day, gen, recording, shown, accesses, logVars, passVars, cloudVars>>

\* recordPull names no generation, and the dispatcher fills in 0.  A pull whose
\* run or project is not found, or that returned nothing, goes without.
BugPullPayload(n, a) ==
  [id |-> <<"pull", n>>, run |-> a.run, project |-> a.project, item |-> a.item, gen |-> None, channel |-> "pull"]
PullPayload(n, a) ==
  [id |-> <<"pull", n>>, run |-> a.run, project |-> a.project, item |-> a.item, gen |-> 0, channel |-> "pull"]

Pull(a) ==
  /\ accesses < MaxAccesses
  /\ accesses' = accesses + 1
  /\ jobs' = jobs \cup {PullPayload(accesses + 1, a)}
  /\ UNCHANGED <<day, faults, gen, waiting, recording, shown, unanswered, raw, landed, passVars, cloudVars>>

\* insertMemoryAccessEvent, dispatched by an outbox worker: ON CONFLICT (id) DO
\* NOTHING, created_at is the time of the INSERT.
Land(j) ==
  /\ j \in jobs
  /\ IF \E e \in raw : e.access.id = j.id
     THEN UNCHANGED <<raw, landed>>
     ELSE /\ raw' = raw \cup {[access |-> j, day |-> day]}
          /\ landed' = landed \cup {[access |-> j, day |-> day]}
  /\ jobs' = jobs \ {j}
  /\ UNCHANGED <<day, faults, hookVars, passVars, cloudVars>>

Midnight ==
  /\ day < LastDay
  /\ day' = day + 1
  /\ UNCHANGED <<faults, hookVars, logVars, passVars, cloudVars>>

-----------------------------------------------------------------------------
(* runMemoryRollupOnce *)

Grouped(S) == {DailyGrain(e) : e \in S}

\* Daily rows of the finished days that still have log rows are deleted.
DeleteDaily ==
  /\ pass \in {"idle", "cut"}
  /\ today' = day
  /\ LET days == {e.day : e \in {x \in raw : x.day < day}}
     IN  daily' = {e \in daily : e.day \notin days}
  /\ pass' = "insertDaily"
  /\ UNCHANGED <<day, faults, hookVars, logVars, cohorts, cloudVars>>

\* The log rows an aggregate of the finished days counts.
BugFinishedToo == {e \in raw : e.day <= today}
Finished == {e \in raw : e.day < today}

\* A grain that is there already fails the INSERT, and the pass with it; the
\* unique index takes grains without a project for distinct.
InsertDaily ==
  /\ pass = "insertDaily"
  /\ IF Grouped(Finished) \cap Grouped(daily) \cap DailyGrains # {}
     THEN pass' = "cut" /\ UNCHANGED daily
     ELSE pass' = "deleteCohorts" /\ daily' = daily \cup Finished
  /\ UNCHANGED <<day, faults, hookVars, logVars, today, cohorts, cloudVars>>

\* Cohorts with a log row of their grain are recomputed from the log; the log
\* rows without a run or an item make none.
DeleteCohorts ==
  /\ pass = "deleteCohorts"
  /\ cohorts' = {c \in cohorts : \A e \in raw : CohortGrain(e) # CohortGrain(c)}
  /\ pass' = "insertCohorts"
  /\ UNCHANGED <<day, faults, hookVars, logVars, today, daily, cloudVars>>

Cohorted == {e \in raw : e.access.run # None /\ e.access.item # None}

InsertCohorts ==
  /\ pass = "insertCohorts"
  /\ IF \E e \in Cohorted, c \in cohorts : CohortGrain(e) = CohortGrain(c)
     THEN pass' = "cut" /\ UNCHANGED cohorts
     ELSE pass' = "prune" /\ cohorts' = cohorts \cup Cohorted
  /\ UNCHANGED <<day, faults, hookVars, logVars, today, daily, cloudVars>>

\* Rows past the retention go, if their project's day has a daily row.  The
\* cutoff is computed from the clock as it is now.
BugPrunableUncounted(e) == e.day < day - Retention
Prunable(e) == e.day < day - Retention /\ DailyGrain(e) \in Grouped(daily)

Prune ==
  /\ pass = "prune"
  /\ raw' = {e \in raw : ~Prunable(e)}
  /\ pass' = "sync"
  /\ UNCHANGED <<day, faults, hookVars, jobs, landed, today, daily, cohorts, cloudVars>>

\* enqueueRollupSync: a job for every grain of both read models the cloud can
\* place, each pass.  They are inserted one after another, and a pass that ends
\* in the middle has queued some of them.
Queueable == {g \in Grains : g \in Grouped(daily) \cup {CohortGrain(c) : c \in cohorts}}

\* Each is a job of its own, whatever the sync worker has in hand.
BugEnqueuedOnce(S) == syncJobs \cup {g \in S : push.grain # g}
Enqueued(S) == syncJobs \cup S

EnqueueRollupSync ==
  /\ pass = "sync"
  /\ \E S \in SUBSET Queueable :
       /\ syncJobs' = IF TeamMode THEN Enqueued(S) ELSE syncJobs
       /\ givenUp' = givenUp \ syncJobs'
       /\ \/ S = Queueable /\ pass' = "idle" /\ faults' = faults
          \/ faults < MaxFaults /\ pass' = "cut" /\ faults' = faults + 1
  /\ UNCHANGED <<day, hookVars, logVars, today, daily, cohorts, push, cloudDaily, cloudCohorts>>

\* A statement throws or the daemon goes away: the next pass starts over.
PassCut ==
  /\ pass \notin {"idle", "cut"}
  /\ faults < MaxFaults
  /\ pass' = "cut"
  /\ faults' = faults + 1
  /\ UNCHANGED <<day, hookVars, logVars, today, daily, cohorts, cloudVars>>

-----------------------------------------------------------------------------
(* syncMemoryAccessDaily, syncMemoryCohorts in the sync daemon *)

OfDay(S, g)    == {e \in S : DailyGrain(e) = g}
OfCohort(S, g) == {e \in S : CohortGrain(e) = g}

\* ON CONFLICT (grain) DO UPDATE: the local aggregate replaces the cloud's.
Upsert(cloud, old, new) == (cloud \ old) \cup new

\* The sync worker dispatches one job at a time.  It reads the aggregate of the
\* job's grain, then ensures the parents are in the cloud.  There may be more
\* jobs of the grain, and a push that lands may fail to be acknowledged.
ReadGrain(g) ==
  /\ push = NoPush
  /\ g \in syncJobs
  /\ \/ syncJobs' = syncJobs \ {g} /\ faults' = faults
     \/ faults < MaxFaults /\ syncJobs' = syncJobs /\ faults' = faults + 1
  /\ push' = [grain |-> g, rows |-> OfDay(daily, g) \cup OfCohort(cohorts, g)]
  /\ UNCHANGED <<day, hookVars, logVars, passVars, givenUp, cloudDaily, cloudCohorts>>

UpsertGrain ==
  /\ push.rows # {}
  /\ IF push.grain \in DailyGrains
     THEN /\ cloudDaily' = Upsert(cloudDaily, OfDay(cloudDaily, push.grain), push.rows)
          /\ UNCHANGED cloudCohorts
     ELSE /\ cloudCohorts' = Upsert(cloudCohorts, OfCohort(cloudCohorts, push.grain), push.rows)
          /\ UNCHANGED cloudDaily
  /\ push' = NoPush
  /\ UNCHANGED <<day, faults, hookVars, logVars, passVars, syncJobs, givenUp>>

\* No row of the grain (between a DELETE and its INSERT), no local parent, or a
\* statement that throws: the job is queued again.
PushFails ==
  /\ push # NoPush
  /\ syncJobs' = syncJobs \cup {push.grain}
  /\ push' = NoPush
  /\ UNCHANGED <<day, faults, hookVars, logVars, passVars, givenUp, cloudDaily, cloudCohorts>>

\* The last attempt failed so; or the project is local-only, and the job is
\* acknowledged without a write.
PushGivenUp ==
  /\ push # NoPush
  /\ faults < MaxFaults
  /\ faults' = faults + 1
  /\ givenUp' = givenUp \cup {push.grain}
  /\ push' = NoPush
  /\ UNCHANGED <<day, hookVars, logVars, passVars, syncJobs, cloudDaily, cloudCohorts>>

PushStep == (\E g \in syncJobs : ReadGrain(g)) \/ UpsertGrain \/ PushFails \/ PushGivenUp

-----------------------------------------------------------------------------

HookStep(r) ==
  \/ PostCompact(r) \/ SessionStart(r) \/ Prompt(r) \/ Refuse(r)
  \/ \E g \in waiting[r] : Answer(r, g) \/ TimeOut(r, g)

RollupStep ==
  DeleteDaily \/ InsertDaily \/ DeleteCohorts \/ InsertCohorts \/ Prune \/ EnqueueRollupSync

Next ==
  \/ \E r \in Runs : HookStep(r)
  \/ \E p \in recording : Record(p)
  \/ \E a \in PullArgs : Pull(a)
  \/ \E j \in jobs : Land(j)
  \/ Midnight
  \/ RollupStep
  \/ PassCut
  \/ PushStep

Spec == Init /\ [][Next]_vars

-----------------------------------------------------------------------------
(* Properties *)

\* "A raw row is never deleted until its day is rolled up"
\* (memory-rollup-worker.ts): what the pruned log no longer holds, the daily
\* read model counts, across midnights and cut passes.
NothingLost == landed \subseteq raw \cup daily

\* A daily row, here or in the cloud, counts the whole day: a half-day rollup
\* would look like a complete one, and the prune would take it for one.
NoPartialDay ==
  \A e \in landed :
    /\ DailyGrain(e) \in Grouped(daily) => e \in daily
    /\ DailyGrain(e) \in Grouped(cloudDaily) => e \in cloudDaily

\* After a compaction the next prompt shows the manifest again.  What stops it is
\* a hook of this generation that carried the manifest, whether its caller still
\* waits, has seen the answer or has gone; or a refusal that taught something in
\* this generation, for that push counts as seeding.
ReseededUnlessTaught ==
  \A r \in Runs :
    \/ gen[r] = 0
    \/ NeedsReemit(gen[r], Surfaced(r, gen[r]))
    \/ gen[r] \in waiting[r] \cup shown[r] \cup unanswered[r]
    \/ \E e \in raw : e.access.run = r /\ e.access.gen = gen[r] /\ e.access.id[1] = "teach"

\* Once a pass has ended, the cloud has each aggregate as it is here, or its push
\* is queued or in hand with the rows as they are, or was given up since the pass
\* queued it.  A pass may recompute the aggregate between the read of a push and
\* its upsert: what the push then leaves in the cloud is stale, and the job the
\* pass queues is another one, which the acknowledgement of the first leaves.
CloudCurrentOrQueued ==
  TeamMode /\ pass = "idle" =>
    \A g \in Queueable \ (syncJobs \cup givenUp) :
      LET rows == OfDay(daily, g) \cup OfCohort(cohorts, g)
      IN  \/ OfDay(cloudDaily, g) \cup OfCohort(cloudCohorts, g) = rows
          \/ push = [grain |-> g, rows |-> rows]

\* "rollups for already-pruned days survive -- that is what lets cohort history
\* outlive the raw retention window" (memory-rollup-worker.ts): between passes
\* a cohort counts the pruned accesses of its grain.
CohortHistoryKept ==
  pass = "idle" =>
    \A e \in landed \ raw : e.access.run # None /\ e.access.item # None => e \in cohorts
=============================================================================
