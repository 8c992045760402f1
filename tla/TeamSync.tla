------------------------------ MODULE TeamSync ------------------------------
(***************************************************************************)
(* The team's rows on their way through the cloud: projects that are solo   *)
(* or belong to the team, runs, and the rows that hang on runs.  Machines   *)
(* write them locally and queue sync_to_cloud jobs; the sync daemon of a    *)
(* machine pushes one job at a time, parents first; its puller reads the    *)
(* newest rows of the cloud and inserts what is missing.  The user promotes *)
(* a project to the team, demotes it again while nothing has left the       *)
(* machine, or resets it.                                                  *)
(*                                                                           *)
(* A row and its job are two writes, and the second may never be made.  A     *)
(* push reads the row, then its run, and inserts up to three times in       *)
(* Postgres, each a round trip: every other process acts in between.  It may*)
(* fail at any of them (the network, a foreign key, the end of the daemon): *)
(* the job is tried again.  demote asks the cloud first and writes          *)
(* afterwards; a reset deletes table by table, without a transaction.       *)
(*                                                                           *)
(* Not here: the attempts a job has and its burial (Outbox), the columns of *)
(* the rows, kill switches (KillSwitch) and memory rollups (MemoryAccess),  *)
(* features and wikis, which follow projects alone.                         *)
(***************************************************************************)
EXTENDS Integers, FiniteSets

CONSTANTS
  Machines,      \* each with its SQLite and its sync daemon, all in team mode
  Projects,      \* project ids
  Sessions,      \* agent sessions
  Home,          \* Home[s]: the machine session s runs on
  In,            \* In[s]: the project it works in
  Runs,          \* run ids, in the order they are given out
  Rows,          \* ids of rows that hang on runs, in the order they are given out
  Kinds,         \* the kinds of rows agents write under a run
  Window,        \* PULL_CHUNK_SIZE
  MaxActs,       \* bound: commands of the users
  None

ASSUME TeamSyncAssumption ==
  /\ Home \in [Sessions -> Machines]
  /\ In \in [Sessions -> Projects]
  /\ Runs \subseteq Nat /\ Rows \subseteq Nat
  /\ Window \in Nat \ {0} /\ MaxActs \in Nat
  /\ Kinds \subseteq {"event", "pack", "verdict"}
  /\ None \notin Sessions \cup Runs \cup Projects

\* run_events and decisions are pulled alike; policy_decisions are not pulled.
Facts == [run : Runs \cup {None}, project : Projects, kind : {"event", "pack", "verdict"}]
NoFact == [run |-> None, project |-> None, kind |-> "none"]

VARIABLES
  org,        \* org[m][p]: projects.org_id, "none" while m has no row
  session,    \* session[r] of run r, None while the id is not given out
  runs,       \* runs[m]: rows of the table runs
  fact,       \* fact[i] of row i, NoFact while the id is not given out
  rows,       \* rows[m]: rows of the other tables
  adrift,     \* adrift[m]: those of them whose run_id is NULL for want of their run
  unqueued,   \* unqueued[m]: rows whose job is not queued yet, or never will be
  reset,      \* reset[m]: the reset under way and the tables it deletes from next
  cloud,      \* the tables in Postgres, and the rows there whose run_id is NULL so
  jobs,       \* jobs[m]: pending_jobs of the queue sync_to_cloud, picked ones too
  hand,       \* hand[m]: the job the worker of m has claimed and its next insert
  gate,       \* gate[m]: the project demote found missing in the cloud
  acts,       \* commands so far
  shared,     \* history: projects some machine ever had under the team's org
  overtaken,  \* history: projects that reached the cloud after demote had looked
  skipped     \* history: rows whose job a solo project consumed, or demote dropped

tables == <<org, session, runs, fact, rows, adrift>>
localVars == <<tables, unqueued, reset, acts>>
history   == <<shared, overtaken, skipped>>
vars == <<localVars, cloud, jobs, hand, gate, history>>

Orgs  == {"none", "solo", "team"}
Jobs  == [table : {"projects"}, id : Projects] \cup [table : {"runs"}, id : Runs]
           \cup [table : {"rows"}, id : Rows]
Steps == {"parents", "project", "run", "row", "adrift", "upsertProject", "upsertRun"}
Idle  == [at |-> "idle", job |-> None]
Hands == [at : Steps, job : Jobs] \cup {Idle}
Tables == [projects : SUBSET Projects, runs : SUBSET Runs, rows : SUBSET Rows, adrift : SUBSET Rows]
NoReset == [at |-> "none", project |-> None]
Resets == [at : {"events", "packs", "runs"}, project : Projects] \cup {NoReset}

ProjectJob(p) == [table |-> "projects", id |-> p]
RunJob(r) == [table |-> "runs", id |-> r]
BugRowJob(i) == [table |-> "row", id |-> i]
RowJob(i) == [table |-> "rows", id |-> i]

TypeOK ==
  /\ org \in [Machines -> [Projects -> Orgs]]
  /\ session \in [Runs -> Sessions \cup {None}]
  /\ runs \in [Machines -> SUBSET Runs]
  /\ fact \in [Rows -> Facts \cup {NoFact}]
  /\ rows \in [Machines -> SUBSET Rows]
  /\ adrift \in [Machines -> SUBSET Rows]
  /\ unqueued \in [Machines -> SUBSET Rows]
  /\ reset \in [Machines -> Resets]
  /\ cloud \in Tables
  /\ jobs \in [Machines -> SUBSET Jobs]
  /\ hand \in [Machines -> Hands]
  /\ gate \in [Machines -> Projects \cup {None}]
  /\ acts \in 0..MaxActs
  /\ shared \subseteq Projects
  /\ overtaken \subseteq Projects
  /\ skipped \subseteq Rows

Init ==
  /\ org = [m \in Machines |-> [p \in Projects |-> "none"]]
  /\ session = [r \in Runs |-> None]
  /\ runs = [m \in Machines |-> {}]
  /\ fact = [i \in Rows |-> NoFact]
  /\ rows = [m \in Machines |-> {}]
  /\ adrift = [m \in Machines |-> {}]
  /\ unqueued = [m \in Machines |-> {}]
  /\ reset = [m \in Machines |-> NoReset]
  /\ cloud = [projects |-> {}, runs |-> {}, rows |-> {}, adrift |-> {}]
  /\ jobs = [m \in Machines |-> {}]
  /\ hand = [m \in Machines |-> Idle]
  /\ gate = [m \in Machines |-> None]
  /\ acts = 0
  /\ shared = {} /\ overtaken = {} /\ skipped = {}

ProjectOf(r) == In[session[r]]
-----------------------------------------------------------------------------
(* What users and agents do on their machine.                                *)

SetOrg(m, p, o) ==
  /\ org' = [org EXCEPT ![m] = [org[m] EXCEPT ![p] = o]]
  /\ shared' = IF o = "team" THEN shared \cup {p} ELSE shared

Act == acts < MaxActs /\ acts' = acts + 1

Enqueue(m, j) == jobs' = [jobs EXCEPT ![m] = @ \cup {j}]

\* The enqueue after a write is awaited by itself; its failure is logged.
TryEnqueue(m, j) == Enqueue(m, j) \/ UNCHANGED jobs

\* init: the first machine mints the id; a later one adopts the id the cloud
\* has for the slug.  A solo project's job would be skipped.
Register(m, p, o) ==
  /\ org[m][p] = "none"
  /\ \/ \A n \in Machines : org[n][p] = "none"
     \/ o = "team" /\ p \in cloud.projects
  /\ SetOrg(m, p, o)
  /\ IF o = "team" THEN TryEnqueue(m, ProjectJob(p)) ELSE UNCHANGED jobs
  /\ Act
  /\ UNCHANGED <<session, runs, fact, rows, adrift, unqueued, reset, cloud, hand, gate, overtaken, skipped>>

Promote(m, p) ==
  /\ org[m][p] = "solo"
  /\ SetOrg(m, p, "team")
  /\ TryEnqueue(m, ProjectJob(p))
  /\ Act
  /\ UNCHANGED <<session, runs, fact, rows, adrift, unqueued, reset, cloud, hand, gate, overtaken, skipped>>

BugDemoteUnchecked(m, p) ==
  /\ gate[m] = None
  /\ org[m][p] = "team"
  /\ gate' = [gate EXCEPT ![m] = p]
  /\ Act
  /\ UNCHANGED <<tables, unqueued, reset, cloud, jobs, hand, history>>

\* demote, until the cloud has answered: the command refuses a project whose
\* row is there.
Demote(m, p) ==
  /\ gate[m] = None
  /\ org[m][p] = "team"
  /\ p \notin cloud.projects
  /\ gate' = [gate EXCEPT ![m] = p]
  /\ Act
  /\ UNCHANGED <<tables, unqueued, reset, cloud, jobs, hand, history>>

\* The jobs whose payload has the project's id in it: the keys of runs, of events
\* and of decisions are made of it, those of packs and of verdicts are not.
Named(p) ==
  {ProjectJob(p)} \cup {RunJob(r) : r \in {q \in Runs : session[q] # None /\ ProjectOf(q) = p}}
    \cup {RowJob(i) : i \in {k \in Rows : fact[k].kind = "event" /\ fact[k].project = p}}

\* demote, after the answer.
Flip(m) ==
  /\ gate[m] # None
  /\ SetOrg(m, gate[m], "solo")
  /\ jobs' = [jobs EXCEPT ![m] = @ \ Named(gate[m])]
  /\ skipped' = skipped \cup {i \in Rows : RowJob(i) \in jobs[m] \cap Named(gate[m])}
  /\ gate' = [gate EXCEPT ![m] = None]
  /\ UNCHANGED <<session, runs, fact, rows, adrift, unqueued, reset, acts, cloud, hand, overtaken>>

NextRun(r) == session[r] = None /\ \A q \in Runs : q < r => session[q] \in Sessions
NextRow(i) == fact[i] = NoFact /\ \A j \in Rows : j < i => fact[j] \in Facts

\* get_run_id finds the run of a session, or inserts one.
OpenRun(m, s) ==
  /\ Home[s] = m
  /\ org[m][In[s]] # "none"
  /\ \A r \in runs[m] : session[r] # s
  /\ \E r \in Runs :
       /\ NextRun(r)
       /\ session' = [session EXCEPT ![r] = s]
       /\ runs' = [runs EXCEPT ![m] = @ \cup {r}]
  /\ UNCHANGED <<org, fact, rows, adrift, unqueued, reset, acts, cloud, jobs, hand, gate, history>>

\* link_run_to_pr and link_run_to_issue are what queues a row of runs.
Link(m, r) ==
  /\ r \in runs[m]
  /\ Enqueue(m, RunJob(r))
  /\ Act
  /\ UNCHANGED <<tables, unqueued, reset, cloud, hand, gate, history>>

\* The row lands; its job is to be queued by a write of its own.
AddRow(m, f) ==
  /\ \E i \in Rows :
       /\ NextRow(i)
       /\ fact' = [fact EXCEPT ![i] = f]
       /\ rows' = [rows EXCEPT ![m] = @ \cup {i}]
       /\ unqueued' = [unqueued EXCEPT ![m] = @ \cup {i}]
  /\ UNCHANGED <<org, session, runs, adrift, reset, acts, cloud, jobs, hand, gate, history>>

Record(m, r, k) ==
  /\ r \in runs[m]
  /\ Home[session[r]] = m
  /\ AddRow(m, [run |-> r, project |-> ProjectOf(r), kind |-> k])

\* check_policy before there is a run.
RecordUnbound(m, p) ==
  /\ org[m][p] # "none"
  /\ AddRow(m, [run |-> None, project |-> p, kind |-> "verdict"])

\* The second write; when it fails or the process ends before it, it is not made.
\* An event's job may even be queued before its row lands: it waits for the row.
QueueRow(m, i) ==
  /\ i \in unqueued[m]
  /\ unqueued' = [unqueued EXCEPT ![m] = @ \ {i}]
  /\ Enqueue(m, RowJob(i))
  /\ UNCHANGED <<tables, reset, acts, cloud, hand, gate, history>>

-----------------------------------------------------------------------------
(* coodra project reset: DELETEs one after the other, leaves before parents.  *)
(* One reset at a time on a machine.                                         *)

Delete(m, S) ==
  /\ rows' = [rows EXCEPT ![m] = @ \ S]
  /\ adrift' = [adrift EXCEPT ![m] = @ \ S]

RunsOf(m, p) == {r \in runs[m] : ProjectOf(r) = p}
RowsUnder(m, R) == {i \in rows[m] \ adrift[m] : fact[i].run \in R}

\* policy_decisions by project.
Reset(m, p) ==
  /\ reset[m] = NoReset
  /\ org[m][p] # "none"
  /\ Delete(m, {i \in rows[m] : fact[i].kind = "verdict" /\ fact[i].project = p})
  /\ reset' = [reset EXCEPT ![m] = [at |-> "events", project |-> p]]
  /\ Act
  /\ UNCHANGED <<org, session, runs, fact, unqueued, cloud, jobs, hand, gate, history>>

ResetTo(m, step) ==
  /\ reset' = [reset EXCEPT ![m].at = step]
  /\ UNCHANGED <<org, session, runs, fact, unqueued, acts, cloud, jobs, hand, gate, history>>

\* run_events and decisions by the runs the project has now.
ResetEvents(m) ==
  /\ reset[m].at = "events"
  /\ Delete(m, {i \in RowsUnder(m, RunsOf(m, reset[m].project)) : fact[i].kind = "event"})
  /\ ResetTo(m, "packs")

\* context_packs by project.
ResetPacks(m) ==
  /\ reset[m].at = "packs"
  /\ Delete(m, {i \in rows[m] : fact[i].kind = "pack" /\ fact[i].project = reset[m].project})
  /\ ResetTo(m, "runs")

\* The runs.  A verdict or pack that has landed since stops the DELETE; an event
\* loses its run: ON DELETE SET NULL.
ResetRuns(m) ==
  /\ reset[m].at = "runs"
  /\ LET gone == RunsOf(m, reset[m].project) IN
       /\ \A i \in RowsUnder(m, gone) : fact[i].kind = "event"
       /\ runs' = [runs EXCEPT ![m] = @ \ gone]
       /\ adrift' = [adrift EXCEPT ![m] = @ \cup RowsUnder(m, gone)]
  /\ reset' = [reset EXCEPT ![m] = NoReset]
  /\ UNCHANGED <<org, session, fact, rows, unqueued, acts, cloud, jobs, hand, gate, history>>

\* The command throws or is killed.
ResetStops(m) ==
  /\ reset[m] # NoReset
  /\ reset' = [reset EXCEPT ![m] = NoReset]
  /\ UNCHANGED <<tables, unqueued, acts, cloud, jobs, hand, gate, history>>

-----------------------------------------------------------------------------
(* The sync daemon's worker.                                                 *)

Take(m, j, step) ==
  /\ hand' = [hand EXCEPT ![m] = [at |-> step, job |-> j]]
  /\ UNCHANGED <<localVars, cloud, jobs, gate, history>>

BugLocalOnlyNever(m, p) == FALSE
LocalOnly(m, p) == org[m][p] = "solo"

\* The job is consumed without a push.
Skip(m, j) ==
  /\ jobs' = [jobs EXCEPT ![m] = @ \ {j}]
  /\ hand' = [hand EXCEPT ![m] = Idle]
  /\ skipped' = IF j.table = "rows" THEN skipped \cup {j.id} ELSE skipped
  /\ UNCHANGED <<localVars, cloud, gate, shared, overtaken>>

\* A claim reads the row, and a project's or a run's organisation; a row that is
\* not there is left for later.
ClaimProject(m, p) ==
  /\ hand[m] = Idle /\ ProjectJob(p) \in jobs[m]
  /\ org[m][p] # "none"
  /\ IF LocalOnly(m, p) THEN Skip(m, ProjectJob(p)) ELSE Take(m, ProjectJob(p), "upsertProject")

ClaimRun(m, r) ==
  /\ hand[m] = Idle /\ RunJob(r) \in jobs[m]
  /\ r \in runs[m]
  /\ IF LocalOnly(m, ProjectOf(r)) THEN Skip(m, RunJob(r)) ELSE Take(m, RunJob(r), "upsertRun")

\* Only a row with a run is followed to its project.
ClaimRow(m, i) ==
  /\ hand[m] = Idle /\ RowJob(i) \in jobs[m]
  /\ i \in rows[m]
  /\ Take(m, RowJob(i), IF i \in adrift[m] THEN "adrift"
                         ELSE IF fact[i].run \in Runs THEN "parents" ELSE "row")

Go(m, step) ==
  /\ hand' = [hand EXCEPT ![m] = [at |-> step, job |-> hand[m].job]]
  /\ UNCHANGED jobs

Done(m) ==
  /\ hand' = [hand EXCEPT ![m] = Idle]
  /\ jobs' = [jobs EXCEPT ![m] = @ \ {hand[m].job}]

\* ON CONFLICT (project_id, session_id): the run that came first stays.
PutRun(r) ==
  cloud' = IF \E q \in cloud.runs : session[q] = session[r] THEN cloud
           ELSE [cloud EXCEPT !.runs = @ \cup {r}]

PutProject(m, p) ==
  /\ cloud' = [cloud EXCEPT !.projects = @ \cup {p}]
  /\ overtaken' = IF p \notin cloud.projects /\ (gate[m] = p \/ org[m][p] = "solo")
                  THEN overtaken \cup {p} ELSE overtaken

\* The second read: the run, and its project.  When the run has gone since the
\* first, the row is inserted all the same, and its parents are not.
ReadParents(m) ==
  /\ hand[m].at = "parents"
  /\ LET f == fact[hand[m].job.id] IN
       IF f.run \notin runs[m] THEN Take(m, hand[m].job, "row")
       ELSE IF LocalOnly(m, f.project) THEN Skip(m, hand[m].job)
       ELSE Take(m, hand[m].job, "project")

UpsertProject(m) ==
  /\ hand[m].at = "upsertProject"
  /\ PutProject(m, hand[m].job.id)
  /\ Done(m)
  /\ UNCHANGED <<localVars, gate, shared, skipped>>

UpsertRun(m) ==
  /\ hand[m].at = "upsertRun"
  /\ ProjectOf(hand[m].job.id) \in cloud.projects
  /\ PutRun(hand[m].job.id)
  /\ Done(m)
  /\ UNCHANGED <<localVars, gate, history>>

EnsureProject(m) ==
  /\ hand[m].at = "project"
  /\ PutProject(m, fact[hand[m].job.id].project)
  /\ Go(m, "run")
  /\ UNCHANGED <<localVars, gate, shared, skipped>>

EnsureRun(m) ==
  /\ hand[m].at = "run"
  /\ PutRun(fact[hand[m].job.id].run)
  /\ Go(m, "row")
  /\ UNCHANGED <<localVars, gate, history>>

\* The foreign keys of the row.
InsertRow(m) ==
  /\ hand[m].at = "row"
  /\ LET f == fact[hand[m].job.id] IN
       /\ f.run \in cloud.runs \cup {None}
       /\ f.kind # "event" => f.project \in cloud.projects
  /\ cloud' = [cloud EXCEPT !.rows = @ \cup {hand[m].job.id}]
  /\ Done(m)
  /\ UNCHANGED <<localVars, gate, history>>

\* An event that was read without a run has no parent to refer to.
InsertAdrift(m) ==
  /\ hand[m].at = "adrift"
  /\ cloud' = [cloud EXCEPT !.rows = @ \cup {hand[m].job.id},
                            !.adrift = @ \cup ({hand[m].job.id} \ cloud.rows)]
  /\ Done(m)
  /\ UNCHANGED <<localVars, gate, history>>

BugFailAcks(m) ==
  /\ hand[m] # Idle
  /\ Done(m)
  /\ UNCHANGED <<localVars, cloud, gate, history>>

\* The cloud does not answer or refuses, or the daemon ends and its lease is
\* taken over: the job stays.
Fail(m) ==
  /\ hand[m] # Idle
  /\ hand' = [hand EXCEPT ![m] = Idle]
  /\ UNCHANGED <<localVars, cloud, jobs, gate, history>>

-----------------------------------------------------------------------------
(* The puller of team rows.  A tick pulls projects, then runs, then the rest;*)
(* each is a read of the cloud that may fail, so each is a step by itself.   *)

Newest(S) == {i \in S : Cardinality({j \in S : j > i}) < Window}

PullProjects(m) ==
  /\ org' = [org EXCEPT ![m] =
                [p \in Projects |->
                   IF p \in cloud.projects /\ org[m][p] = "none" THEN "team" ELSE org[m][p]]]
  /\ UNCHANGED <<session, runs, fact, rows, adrift, unqueued, reset, acts, cloud, jobs, hand, gate, history>>

BugMissingRunsNewerOnly(m) ==
  {r \in Newest(cloud.runs) :
     /\ org[m][ProjectOf(r)] # "none"
     /\ \A q \in runs[m] : q < r /\ session[q] # session[r]}

\* Not here yet, its project is, and no local run has its session.
MissingRuns(m) ==
  {r \in Newest(cloud.runs) :
     /\ org[m][ProjectOf(r)] # "none"
     /\ \A q \in runs[m] : session[q] # session[r]}

PullRuns(m) ==
  /\ runs' = [runs EXCEPT ![m] = @ \cup MissingRuns(m)]
  /\ UNCHANGED <<org, session, fact, rows, adrift, unqueued, reset, acts, cloud, jobs, hand, gate, history>>

OfKind(k) == {i \in cloud.rows : fact[i].kind = k}

\* The events whose run is here, or that came to the cloud without one.
Arriving(m) == {i \in Newest(OfKind("event")) : i \in cloud.adrift \/ fact[i].run \in runs[m]}

\* The INSERT of a pack names ON CONFLICT(run_id), which no unique index backs
\* since 0026: SQLite refuses the statement, and no pack is inserted.
PullRows(m) ==
  /\ rows' = [rows EXCEPT ![m] = @ \cup Arriving(m)]
  /\ adrift' = [adrift EXCEPT ![m] = @ \cup ((Arriving(m) \cap cloud.adrift) \ rows[m])]
  /\ UNCHANGED <<org, session, runs, fact, unqueued, reset, acts, cloud, jobs, hand, gate, history>>

-----------------------------------------------------------------------------
Users(m) ==
  \/ \E p \in Projects :
       \/ \E o \in {"solo", "team"} : Register(m, p, o)
       \/ Promote(m, p) \/ Demote(m, p) \/ RecordUnbound(m, p)
  \/ Flip(m)
  \/ \E s \in Sessions : OpenRun(m, s)
  \/ \E r \in Runs : Link(m, r) \/ \E k \in Kinds : Record(m, r, k)
  \/ \E i \in Rows : QueueRow(m, i)

Resetting(m) ==
  \/ \E p \in Projects : Reset(m, p)
  \/ ResetEvents(m) \/ ResetPacks(m) \/ ResetRuns(m) \/ ResetStops(m)

Claim(m) ==
  \/ \E p \in Projects : ClaimProject(m, p)
  \/ \E r \in Runs : ClaimRun(m, r)
  \/ \E i \in Rows : ClaimRow(m, i)

Insert(m) ==
  \/ UpsertProject(m) \/ UpsertRun(m)
  \/ EnsureProject(m) \/ EnsureRun(m) \/ InsertRow(m) \/ InsertAdrift(m)

Daemon(m) ==
  \/ Claim(m) \/ ReadParents(m) \/ Insert(m) \/ Fail(m)
  \/ PullProjects(m) \/ PullRuns(m) \/ PullRows(m)

Next == \E m \in Machines : Users(m) \/ Resetting(m) \/ Daemon(m)

Spec == Init /\ [][Next]_vars


\* The puller of every machine ticks for ever, and now and then the cloud answers.
Fairness ==
  \A m \in Machines :
    WF_vars(PullProjects(m)) /\ WF_vars(PullRuns(m)) /\ WF_vars(PullRows(m))
FairSpec == Spec /\ Fairness

-----------------------------------------------------------------------------
(* What the rows may rely on.                                                *)

\* dispatch.ts: rows of solo projects "must never be pushed to cloud".  All the
\* cloud has belongs to projects that were at some time the team's on a machine,
\* but for events that lost their run in the middle of a reset before they were
\* pushed: nothing leads from those to their project.
OnlyTheTeams ==
  /\ cloud.projects \subseteq shared
  /\ \A r \in cloud.runs : ProjectOf(r) \in shared
  /\ \A i \in cloud.rows \ cloud.adrift : fact[i].project \in shared

\* project.ts: demote "only succeeds in the narrow window where NOTHING has left
\* the machine yet".  A project that is solo on a machine is not in the cloud,
\* unless a push landed between demote's question to the cloud and its write, or
\* after a write it had overtaken: the one way there is to split a project.
SplitOnlyIfOvertaken ==
  \A m \in Machines, p \in Projects :
    org[m][p] = "solo" /\ p \in cloud.projects => p \in overtaken

\* project.ts, of demote: the project "stays on this machine"; dispatch.ts: a job
\* of a solo project is a "clean skip".  That is all that may drop a job once it is
\* queued: a row some machine has is in the cloud, or its job is still queued, or a
\* solo project consumed it or demote dropped it, or its enqueue was never made.  No
\* failed push, reset, takeover or pull loses one.
NothingDropped ==
  \A m \in Machines : \A i \in rows[m] :
    i \in cloud.rows \cup skipped \/ RowJob(i) \in jobs[m] \/ i \in unqueued[m]

SameSession(q, r) == q # r /\ session[q] = session[r]

\* "will re-pull next tick": an event that stays among the newest with its run
\* arrives on every machine, but one that has another run of the session; so does
\* one that stays there and has none.
Reachable(m, i) ==
  /\ i \in Newest(OfKind("event"))
  /\ \/ i \in cloud.adrift
     \/ /\ fact[i].run \in Newest(cloud.runs)
        /\ ~ \E q \in runs[m] : SameSession(q, fact[i].run)
RowsArrive ==
  \A m \in Machines, i \in Rows : <>[]Reachable(m, i) => <>[](i \in rows[m])

\* A test pulls "runs + decisions + context_packs newer than local
\* high-water-mark" and expects the pack of a teammate's run to be there: a pack
\* that stays among the newest, with its run on the machine, arrives.
PacksArrive ==
  \A m \in Machines, i \in Rows :
    <>[](i \in Newest(OfKind("pack")) /\ fact[i].run \in runs[m]) => <>(i \in rows[m])
=============================================================================
