--------------------------- MODULE TeamSyncProofs ---------------------------
(***************************************************************************)
(* What the team's rows may rely on, for every number of machines, projects, *)
(* sessions, runs and rows, and every window.                               *)
(***************************************************************************)
EXTENDS TeamSync, TLAPS

USE TeamSyncAssumption

Given(r) == session[r] \in Sessions

\* Machine m has a row of project p.
Has(m, p) == org[m][p] # "none"

\* The row is written down: what it says of its run is so.
Known(i) ==
  /\ fact[i] \in Facts
  /\ fact[i].run \in Runs => Given(fact[i].run) /\ ProjectOf(fact[i].run) = fact[i].project
  /\ fact[i].run \notin Runs => fact[i].kind # "event"

Holds(m, step, j) == hand[m] = [at |-> step, job |-> j]

\* On the way to a row's parents its run is known to be one, and its project here.
HoldsRow(m, i) ==
  \/ \E step \in {"parents", "project", "run"} :
       Holds(m, step, RowJob(i)) /\ fact[i].run \in Runs /\ Has(m, fact[i].project)
  \/ \E step \in {"row", "adrift"} : Holds(m, step, RowJob(i))

HandShape(m) ==
  \/ hand[m] = Idle
  \/ \E p \in Projects : Holds(m, "upsertProject", ProjectJob(p)) /\ Has(m, p)
  \/ \E r \in Runs : Holds(m, "upsertRun", RunJob(r)) /\ Given(r)
  \/ \E i \in Rows : HoldsRow(m, i) /\ Known(i)

\* A row of machine m: its project is there, unless the row has lost its run.
Sited(m, i) == Known(i) /\ (i \notin adrift[m] => Has(m, fact[i].project))

\* Only what is written down is stored, pushed or pulled, and a machine has the
\* project of all it has, but of rows that lost their run.
Shape ==
  /\ \A r \in cloud.runs : Given(r)
  /\ \A i \in cloud.rows : Known(i)
  /\ \A m \in Machines :
       /\ \A r \in runs[m] : Given(r) /\ Has(m, ProjectOf(r))
       /\ \A i \in rows[m] : Sited(m, i)
       /\ gate[m] # None => Has(m, gate[m])
       /\ HandShape(m)

TInv == TypeOK /\ Shape

LEMMA InitTInv == Init => TInv
<1>. SUFFICES ASSUME Init PROVE TInv
  OBVIOUS
<1>1. Idle \in Hands
  BY DEF Hands
<1>2. cloud \in Tables
  BY DEF Init, Tables
<1>3. TypeOK
  BY <1>1, <1>2 DEF Init, TypeOK, Orgs, Resets
<1>4. Shape
  BY DEF Init, Shape, HandShape
<1>. QED
  BY <1>3, <1>4 DEF TInv

-----------------------------------------------------------------------------
(* What no step takes back *)

Kept ==
  /\ \A r \in Runs : Given(r) => session'[r] = session[r]
  /\ \A i \in Rows : fact[i] \in Facts => fact'[i] = fact[i]
  /\ \A m \in Machines, p \in Projects : Has(m, p) => Has(m, p)'
  /\ cloud.projects \subseteq cloud'.projects
  /\ cloud.runs \subseteq cloud'.runs
  /\ cloud.rows \subseteq cloud'.rows
  /\ shared \subseteq shared'

LEMMA NoFactIsNone == NoFact \notin Facts
BY DEF NoFact, Facts

LEMMA CloudPuts ==
  ASSUME TypeOK
  PROVE  /\ \A p \in Projects :
              LET c == [cloud EXCEPT !.projects = @ \cup {p}] IN
                /\ c \in Tables
                /\ c.projects = cloud.projects \cup {p} /\ c.runs = cloud.runs /\ c.rows = cloud.rows
                /\ c.adrift = cloud.adrift
         /\ \A r \in Runs :
              LET c == [cloud EXCEPT !.runs = @ \cup {r}] IN
                /\ c \in Tables
                /\ c.projects = cloud.projects /\ c.runs = cloud.runs \cup {r} /\ c.rows = cloud.rows
                /\ c.adrift = cloud.adrift
         /\ \A i \in Rows :
              LET c == [cloud EXCEPT !.rows = @ \cup {i}] IN
                /\ c \in Tables
                /\ c.projects = cloud.projects /\ c.runs = cloud.runs /\ c.rows = cloud.rows \cup {i}
                /\ c.adrift = cloud.adrift
         /\ \A i \in Rows :
              LET c == [cloud EXCEPT !.rows = @ \cup {i}, !.adrift = @ \cup ({i} \ cloud.rows)] IN
                /\ c \in Tables
                /\ c.projects = cloud.projects /\ c.runs = cloud.runs /\ c.rows = cloud.rows \cup {i}
                /\ c.adrift = cloud.adrift \cup ({i} \ cloud.rows)
BY DEF TypeOK, Tables

\* Which job a step of the worker has in hand.
LEMMA HandOf ==
  ASSUME TInv, NEW m \in Machines
  PROVE  /\ hand[m].at = "upsertProject" =>
              \E p \in Projects : hand[m].job = ProjectJob(p) /\ hand[m].job.id = p /\ Has(m, p)
         /\ hand[m].at = "upsertRun" =>
              \E r \in Runs : hand[m].job = RunJob(r) /\ hand[m].job.id = r /\ Given(r)
         /\ hand[m].at \in {"parents", "project", "run"} =>
              \E i \in Rows : /\ hand[m].job = RowJob(i) /\ hand[m].job.id = i
                              /\ Known(i) /\ Has(m, fact[i].project) /\ fact[i].run \in Runs
         /\ hand[m].at \in {"row", "adrift"} =>
              \E i \in Rows : hand[m].job = RowJob(i) /\ hand[m].job.id = i /\ Known(i)
<1>1. CASE hand[m] = Idle
  BY <1>1 DEF Idle
<1>2. ASSUME NEW p \in Projects, Holds(m, "upsertProject", ProjectJob(p)), Has(m, p)
      PROVE  hand[m].at = "upsertProject" /\ hand[m].job = ProjectJob(p) /\ hand[m].job.id = p
  BY <1>2 DEF Holds, ProjectJob
<1>3. ASSUME NEW r \in Runs, Holds(m, "upsertRun", RunJob(r)), Given(r)
      PROVE  hand[m].at = "upsertRun" /\ hand[m].job = RunJob(r) /\ hand[m].job.id = r
  BY <1>3 DEF Holds, RunJob
<1>4. ASSUME NEW i \in Rows, HoldsRow(m, i)
      PROVE  /\ hand[m].job = RowJob(i) /\ hand[m].job.id = i
             /\ \/ /\ hand[m].at \in {"parents", "project", "run"}
                   /\ Has(m, fact[i].project) /\ fact[i].run \in Runs
                \/ hand[m].at \in {"row", "adrift"}
  BY <1>4 DEF HoldsRow, Holds, RowJob
<1>5. HandShape(m)
  BY DEF TInv, Shape
<1>. QED
  BY <1>1, <1>2, <1>3, <1>4, <1>5 DEF HandShape

\* The job in hand and where it is.
LEMMA HoldsOf ==
  ASSUME TInv, NEW m \in Machines, NEW i \in Rows, hand[m].job = RowJob(i),
         NEW step \in Steps, hand[m].at = step
  PROVE  Holds(m, step, RowJob(i))
<1>1. HandShape(m)
  BY DEF TInv, Shape
<1>2. (\A p : RowJob(i) # ProjectJob(p)) /\ (\A r : RowJob(i) # RunJob(r))
  BY DEF RowJob, ProjectJob, RunJob
<1>3. hand[m] # Idle
  BY DEF Idle, Steps
<1>. QED
  BY <1>1, <1>2, <1>3 DEF HandShape, HoldsRow, Holds

\* A project that a push has in hand joins the cloud.
LEMMA PutProjectKept ==
  ASSUME TInv, NEW m \in Machines, NEW p \in Projects, PutProject(m, p)
  PROVE  /\ cloud' \in Tables
         /\ cloud'.projects = cloud.projects \cup {p}
         /\ cloud'.runs = cloud.runs
         /\ cloud'.rows = cloud.rows /\ cloud'.adrift = cloud.adrift
         /\ overtaken' \subseteq Projects
         /\ overtaken \subseteq overtaken'
<1>1. TypeOK /\ overtaken \subseteq Projects
  BY DEF TInv, TypeOK
<1>2. cloud' = [cloud EXCEPT !.projects = @ \cup {p}]
  BY DEF PutProject
<1>3. overtaken' = overtaken \/ overtaken' = overtaken \cup {p}
  BY DEF PutProject
<1>. QED
  BY <1>1, <1>2, <1>3, CloudPuts

\* A run joins it, or one of its session is there.
LEMMA PutRunKept ==
  ASSUME TInv, NEW r \in Runs, PutRun(r)
  PROVE  /\ cloud' \in Tables
         /\ cloud'.projects = cloud.projects
         /\ cloud.runs \subseteq cloud'.runs
         /\ cloud'.runs \subseteq cloud.runs \cup {r}
         /\ cloud'.rows = cloud.rows /\ cloud'.adrift = cloud.adrift
<1>1. TypeOK /\ cloud \in Tables
  BY DEF TInv, TypeOK
<1>2. cloud' = cloud \/ cloud' = [cloud EXCEPT !.runs = @ \cup {r}]
  BY DEF PutRun
<1>3. CASE cloud' = cloud
  BY <1>1, <1>3
<1>4. CASE cloud' = [cloud EXCEPT !.runs = @ \cup {r}]
  BY <1>1, <1>4, CloudPuts
<1>. QED
  BY <1>2, <1>3, <1>4

\* A row joins it, with a run or without.
RowPut(i) ==
  \/ cloud' = [cloud EXCEPT !.rows = @ \cup {i}]
  \/ cloud' = [cloud EXCEPT !.rows = @ \cup {i}, !.adrift = @ \cup ({i} \ cloud.rows)]

LEMMA RowPutKept ==
  ASSUME TypeOK, NEW i \in Rows, RowPut(i)
  PROVE  /\ cloud' \in Tables
         /\ cloud'.projects = cloud.projects /\ cloud'.runs = cloud.runs
         /\ cloud'.rows = cloud.rows \cup {i}
<1>1. CASE cloud' = [cloud EXCEPT !.rows = @ \cup {i}]
  BY <1>1, CloudPuts
<1>2. CASE cloud' = [cloud EXCEPT !.rows = @ \cup {i}, !.adrift = @ \cup ({i} \ cloud.rows)]
  BY <1>2, CloudPuts
<1>. QED
  BY <1>1, <1>2 DEF RowPut

LEMMA UsersKept ==
  ASSUME TInv, NEW m \in Machines, Users(m)
  PROVE  Kept
<1>. USE DEF Has
<1>0. TypeOK
  BY DEF TInv
<1>1. ASSUME NEW p \in Projects, NEW o \in {"solo", "team"}, Register(m, p, o)
      PROVE  Kept
  BY <1>0, <1>1 DEF Register, SetOrg, Kept, TypeOK
<1>2. ASSUME NEW p \in Projects, Promote(m, p)
      PROVE  Kept
  BY <1>0, <1>2 DEF Promote, SetOrg, Kept, TypeOK
<1>3. ASSUME NEW p \in Projects, Demote(m, p)
      PROVE  Kept
  BY <1>3 DEF Demote, Kept, tables, history
<1>4. CASE Flip(m)
  BY <1>0, <1>4 DEF Flip, SetOrg, Kept, TypeOK
<1>5. ASSUME NEW s \in Sessions, OpenRun(m, s)
      PROVE  Kept
  <2>1. PICK r \in Runs : NextRun(r) /\ session' = [session EXCEPT ![r] = s]
    BY <1>5 DEF OpenRun
  <2>2. ~Given(r)
    BY <2>1 DEF NextRun, Given
  <2>3. \A q \in Runs : Given(q) => session'[q] = session[q]
    BY <1>0, <2>1, <2>2 DEF TypeOK
  <2>. QED
    BY <1>5, <2>3 DEF OpenRun, Kept, history
<1>6. ASSUME NEW r \in Runs, Link(m, r)
      PROVE  Kept
  BY <1>6 DEF Link, Kept, tables, history
<1>7. ASSUME NEW f, AddRow(m, f)
      PROVE  Kept
  <2>1. PICK i \in Rows : NextRow(i) /\ fact' = [fact EXCEPT ![i] = f]
    BY <1>7 DEF AddRow
  <2>2. fact[i] \notin Facts
    BY <2>1, NoFactIsNone DEF NextRow
  <2>3. \A j \in Rows : fact[j] \in Facts => fact'[j] = fact[j]
    BY <1>0, <2>1, <2>2 DEF TypeOK
  <2>. QED
    BY <1>7, <2>3 DEF AddRow, Kept, history
<1>8. ASSUME NEW r \in Runs, NEW k \in Kinds, Record(m, r, k)
      PROVE  Kept
  BY <1>7, <1>8 DEF Record
<1>9. ASSUME NEW p \in Projects, RecordUnbound(m, p)
      PROVE  Kept
  BY <1>7, <1>9 DEF RecordUnbound
<1>10. ASSUME NEW i \in Rows, QueueRow(m, i)
       PROVE  Kept
  BY <1>10 DEF QueueRow, Kept, tables, history
<1>. QED
  BY <1>1, <1>2, <1>3, <1>4, <1>5, <1>6, <1>8, <1>9, <1>10 DEF Users

LEMMA ResettingKept ==
  ASSUME NEW m \in Machines, Resetting(m)
  PROVE  UNCHANGED <<org, session, fact, unqueued, cloud, jobs, hand, gate, history>> /\ Kept
<1>1. UNCHANGED <<org, session, fact, unqueued, cloud, jobs, hand, gate, history>>
  BY DEF Resetting, Reset, ResetEvents, ResetPacks, ResetRuns, ResetStops, ResetTo, tables
<1>. QED
  BY <1>1 DEF Kept, Has, history

LEMMA DaemonKept ==
  ASSUME TInv, NEW m \in Machines, Daemon(m)
  PROVE  Kept
<1>. USE DEF Has
<1>0. TypeOK
  BY DEF TInv
<1>1. ASSUME UNCHANGED <<org, session, fact, cloud, shared>>
      PROVE  Kept
  BY <1>1 DEF Kept
<1>2. CASE Claim(m) \/ ReadParents(m)
  BY <1>1, <1>2 DEF Claim, ClaimProject, ClaimRun, ClaimRow, ReadParents, Skip, Take, localVars,
                    tables, history
<1>3. CASE Fail(m) \/ PullRuns(m) \/ PullRows(m)
  BY <1>1, <1>3 DEF Fail, PullRuns, PullRows, localVars, tables, history
<1>4. CASE PullProjects(m)
  BY <1>0, <1>4 DEF PullProjects, Kept, TypeOK, history
<1>5. ASSUME UNCHANGED <<org, session, fact, shared>>,
             cloud.projects \subseteq cloud'.projects,
             cloud.runs \subseteq cloud'.runs,
             cloud.rows \subseteq cloud'.rows
      PROVE  Kept
  BY <1>5 DEF Kept
<1>6. CASE UpsertProject(m)
  <2>1. PICK p \in Projects : hand[m].job.id = p
    BY <1>6, HandOf DEF UpsertProject
  <2>. QED
    BY <1>5, <1>6, <2>1, PutProjectKept DEF UpsertProject, localVars, tables
<1>7. CASE UpsertRun(m)
  <2>1. PICK r \in Runs : hand[m].job.id = r
    BY <1>7, HandOf DEF UpsertRun
  <2>. QED
    BY <1>5, <1>7, <2>1, PutRunKept DEF UpsertRun, localVars, tables, history
<1>8. CASE EnsureProject(m)
  <2>1. PICK i \in Rows : hand[m].job.id = i /\ fact[i] \in Facts
    BY <1>8, HandOf DEF EnsureProject, Known
  <2>2. fact[i].project \in Projects
    BY <2>1 DEF Facts
  <2>. QED
    BY <1>5, <1>8, <2>1, <2>2, PutProjectKept DEF EnsureProject, localVars, tables
<1>9. CASE EnsureRun(m)
  <2>1. PICK i \in Rows : hand[m].job.id = i /\ fact[i].run \in Runs
    BY <1>9, HandOf DEF EnsureRun
  <2>. QED
    BY <1>5, <1>9, <2>1, PutRunKept DEF EnsureRun, localVars, tables, history
<1>10. CASE InsertRow(m) \/ InsertAdrift(m)
  <2>1. PICK i \in Rows : hand[m].job.id = i
    BY <1>10, HandOf DEF InsertRow, InsertAdrift
  <2>2. RowPut(i)
    BY <1>10, <2>1 DEF InsertRow, InsertAdrift, RowPut
  <2>. QED
    BY <1>0, <1>5, <1>10, <2>2, RowPutKept DEF InsertRow, InsertAdrift, localVars, tables, history
<1>. QED
  BY <1>2, <1>3, <1>4, <1>6, <1>7, <1>8, <1>9, <1>10 DEF Daemon, Insert

LEMMA StepKept == TInv /\ [Next]_vars => Kept
<1>1. ASSUME UNCHANGED vars PROVE Kept
  BY <1>1 DEF Kept, Has, vars, localVars, tables, history
<1>. QED
  BY <1>1, UsersKept, ResettingKept, DaemonKept DEF Next

\* What is written down stays so.
LEMMA KnownKept ==
  ASSUME TypeOK, Kept
  PROVE  /\ \A r \in Runs : Given(r) => Given(r)' /\ ProjectOf(r)' = ProjectOf(r)
         /\ \A i \in Rows : Known(i) => Known(i)' /\ fact'[i] = fact[i] /\ fact[i].project \in Projects
<1>1. \A r \in Runs : Given(r) => Given(r)' /\ ProjectOf(r)' = ProjectOf(r)
  BY DEF Kept, Given, ProjectOf
<1>2. \A i \in Rows : Known(i) => fact'[i] = fact[i] /\ fact[i].project \in Projects
  BY DEF Kept, Known, Facts
<1>3. \A i \in Rows : Known(i) => Known(i)'
  BY <1>1, <1>2 DEF Known
<1>. QED
  BY <1>1, <1>2, <1>3

\* What a machine has and what it holds stay in shape when they stay as they are.
LEMMA PartsKept ==
  ASSUME TInv, Kept, NEW m \in Machines
  PROVE  /\ runs'[m] = runs[m] => \A r \in runs'[m] : (Given(r) /\ Has(m, ProjectOf(r)))'
         /\ \A i \in Rows : Sited(m, i) /\ (i \in adrift[m] => i \in adrift'[m]) => Sited(m, i)'
         /\ rows'[m] = rows[m] /\ adrift'[m] = adrift[m] => \A i \in rows'[m] : Sited(m, i)'
         /\ gate'[m] = gate[m] => (gate[m] # None => Has(m, gate[m]))'
         /\ hand'[m] = hand[m] => HandShape(m)'
<1>1. TypeOK /\ Shape
  BY DEF TInv
<1>2. \A r \in Runs : Given(r) => Given(r)' /\ ProjectOf(r)' = ProjectOf(r) /\ ProjectOf(r) \in Projects
  BY <1>1, KnownKept DEF Given, ProjectOf
<1>3. \A i \in Rows : Known(i) => Known(i)' /\ fact'[i] = fact[i] /\ fact[i].project \in Projects
  BY <1>1, KnownKept
<1>4. \A p \in Projects : Has(m, p) => Has(m, p)'
  BY DEF Kept
<1>5. runs'[m] = runs[m] => \A r \in runs'[m] : (Given(r) /\ Has(m, ProjectOf(r)))'
  <2>1. \A r \in runs[m] : r \in Runs /\ Given(r) /\ Has(m, ProjectOf(r))
    BY <1>1 DEF TypeOK, Shape
  <2>. QED
    BY <1>2, <1>4, <2>1 DEF Has
<1>6. \A i \in Rows : Sited(m, i) /\ (i \in adrift[m] => i \in adrift'[m]) => Sited(m, i)'
  BY <1>3, <1>4 DEF Sited, Has
<1>9. rows'[m] = rows[m] /\ adrift'[m] = adrift[m] => \A i \in rows'[m] : Sited(m, i)'
  <2>1. \A i \in rows[m] : i \in Rows /\ Sited(m, i)
    BY <1>1 DEF TypeOK, Shape
  <2>. QED
    BY <1>6, <2>1
<1>7. gate'[m] = gate[m] => (gate[m] # None => Has(m, gate[m]))'
  <2>1. gate[m] # None => gate[m] \in Projects /\ Has(m, gate[m])
    BY <1>1 DEF TypeOK, Shape
  <2>. QED
    BY <1>4, <2>1 DEF Has
<1>8. hand'[m] = hand[m] => HandShape(m)'
  <2>. SUFFICES ASSUME hand'[m] = hand[m] PROVE HandShape(m)'
    OBVIOUS
  <2>1. HandShape(m)
    BY <1>1 DEF Shape
  <2>2. CASE hand[m] = Idle
    BY <2>2 DEF HandShape
  <2>3. ASSUME NEW p \in Projects, Holds(m, "upsertProject", ProjectJob(p)), Has(m, p)
        PROVE  HandShape(m)'
    <3>1. Holds(m, "upsertProject", ProjectJob(p))' /\ Has(m, p)'
      BY <1>4, <2>3 DEF Holds, ProjectJob
    <3>. QED
      BY <3>1 DEF HandShape
  <2>4. ASSUME NEW r \in Runs, Holds(m, "upsertRun", RunJob(r)), Given(r)
        PROVE  HandShape(m)'
    <3>1. Holds(m, "upsertRun", RunJob(r))' /\ Given(r)'
      BY <1>2, <2>4 DEF Holds, RunJob
    <3>. QED
      BY <3>1 DEF HandShape
  <2>5. ASSUME NEW i \in Rows, HoldsRow(m, i), Known(i)
        PROVE  HandShape(m)'
    <3>1. fact'[i] = fact[i] /\ Known(i)' /\ (Has(m, fact[i].project) => Has(m, fact[i].project)')
      BY <1>3, <1>4, <2>5 DEF Has
    <3>2. HoldsRow(m, i)'
      BY <2>5, <3>1 DEF HoldsRow, Holds, RowJob
    <3>. QED
      BY <3>1, <3>2 DEF HandShape
  <2>. QED
    BY <2>1, <2>2, <2>3, <2>4, <2>5 DEF HandShape
<1>. QED
  BY <1>5, <1>6, <1>7, <1>8, <1>9

\* What the cloud has stays in shape when only known rows and given runs join it.
LEMMA CloudKept ==
  ASSUME TInv, Kept,
         \A r \in cloud'.runs : r \in cloud.runs \/ (r \in Runs /\ Given(r)),
         \A i \in cloud'.rows : i \in cloud.rows \/ (i \in Rows /\ Known(i))
  PROVE  (\A r \in cloud'.runs : Given(r)') /\ (\A i \in cloud'.rows : Known(i)')
<1>1. \A r \in cloud.runs : r \in Runs /\ Given(r)
  BY DEF TInv, TypeOK, Tables, Shape
<1>2. \A i \in cloud.rows : i \in Rows /\ Known(i)
  BY DEF TInv, TypeOK, Tables, Shape
<1>. QED
  BY <1>1, <1>2, KnownKept DEF TInv
-----------------------------------------------------------------------------
(* Type correctness *)

\* The shape of the tables after a step: what it leaves alone keeps its shape.
LEMMA ShapeAfter ==
  ASSUME TInv, Kept,
         \A r \in cloud'.runs : r \in cloud.runs \/ (r \in Runs /\ Given(r)),
         \A i \in cloud'.rows : i \in cloud.rows \/ (i \in Rows /\ Known(i)),
         \A n \in Machines :
           /\ runs'[n] = runs[n] \/ \A r \in runs'[n] : (Given(r) /\ Has(n, ProjectOf(r)))'
           /\ (rows'[n] = rows[n] /\ adrift'[n] = adrift[n]) \/ \A i \in rows'[n] : Sited(n, i)'
           /\ gate'[n] = gate[n] \/ (gate[n] # None => Has(n, gate[n]))'
           /\ hand'[n] = hand[n] \/ HandShape(n)'
  PROVE  Shape'
<1>1. (\A r \in cloud'.runs : Given(r)') /\ (\A i \in cloud'.rows : Known(i)')
  BY CloudKept
<1>2. ASSUME NEW n \in Machines
      PROVE  /\ \A r \in runs'[n] : (Given(r) /\ Has(n, ProjectOf(r)))'
             /\ \A i \in rows'[n] : Sited(n, i)'
             /\ (gate[n] # None => Has(n, gate[n]))'
             /\ HandShape(n)'
  BY <1>2, PartsKept
<1>. QED
  BY <1>1, <1>2 DEF Shape

\* One more job, one job less, another job in hand.
LEMMA JobsType ==
  ASSUME TypeOK, NEW m \in Machines
  PROVE  /\ \A p \in Projects : ProjectJob(p) \in Jobs
         /\ \A r \in Runs : RunJob(r) \in Jobs
         /\ \A i \in Rows : RowJob(i) \in Jobs
         /\ \A j \in Jobs : Enqueue(m, j) \/ TryEnqueue(m, j) => jobs' \in [Machines -> SUBSET Jobs]
         /\ \A j : [jobs EXCEPT ![m] = @ \ {j}] \in [Machines -> SUBSET Jobs]
         /\ \A j \in Jobs, step \in Steps :
               [hand EXCEPT ![m] = [at |-> step, job |-> j]] \in [Machines -> Hands]
         /\ [hand EXCEPT ![m] = Idle] \in [Machines -> Hands]
<1>1. (\A p \in Projects : ProjectJob(p) \in Jobs) /\ (\A r \in Runs : RunJob(r) \in Jobs)
        /\ (\A i \in Rows : RowJob(i) \in Jobs)
  BY DEF ProjectJob, RunJob, RowJob, Jobs
<1>2. /\ \A j \in Jobs : Enqueue(m, j) \/ TryEnqueue(m, j) => jobs' \in [Machines -> SUBSET Jobs]
      /\ \A j : [jobs EXCEPT ![m] = @ \ {j}] \in [Machines -> SUBSET Jobs]
  <2>1. jobs \in [Machines -> SUBSET Jobs]
    BY DEF TypeOK
  <2>2. \A S \in SUBSET Jobs : [jobs EXCEPT ![m] = S] \in [Machines -> SUBSET Jobs]
    BY <2>1
  <2>3. jobs[m] \in SUBSET Jobs
    BY <2>1
  <2>4. \A j : [jobs EXCEPT ![m] = @ \ {j}] \in [Machines -> SUBSET Jobs]
    BY <2>2, <2>3
  <2>5. \A j \in Jobs : Enqueue(m, j) \/ TryEnqueue(m, j) => jobs' \in [Machines -> SUBSET Jobs]
    BY <2>1, <2>2, <2>3 DEF Enqueue, TryEnqueue
  <2> QED
    BY <2>4, <2>5
<1>3. Idle \in Hands /\ \A j \in Jobs, step \in Steps : [at |-> step, job |-> j] \in Hands
  BY DEF Hands
<1>4. hand \in [Machines -> Hands]
  BY DEF TypeOK
<1>5. \A h \in Hands : [hand EXCEPT ![m] = h] \in [Machines -> Hands]
  BY <1>4
<1>6. /\ \A j \in Jobs, step \in Steps :
            [hand EXCEPT ![m] = [at |-> step, job |-> j]] \in [Machines -> Hands]
      /\ [hand EXCEPT ![m] = Idle] \in [Machines -> Hands]
  BY <1>3, <1>5
<1>. QED
  BY <1>1, <1>2, <1>6

LEMMA UsersTInv ==
  ASSUME TInv, NEW m \in Machines, Users(m)
  PROVE  TInv'
<1>0. TypeOK /\ Shape
  BY DEF TInv
<1>1. Kept
  BY UsersKept
<1>2. Act => acts' \in 0..MaxActs
  BY <1>0 DEF Act, TypeOK
<1>3. ASSUME NEW p \in Projects, NEW o \in {"solo", "team"}, SetOrg(m, p, o)
      PROVE  org' \in [Machines -> [Projects -> Orgs]] /\ shared' \subseteq Projects
  BY <1>0, <1>3 DEF SetOrg, TypeOK, Orgs
<1>4. ASSUME NEW p \in Projects, NEW o \in {"solo", "team"}, Register(m, p, o) PROVE TInv'
  <2>1. jobs' \in [Machines -> SUBSET Jobs]
    BY <1>0, <1>4, JobsType DEF Register, TypeOK
  <2>2. TypeOK'
    BY <1>0, <1>2, <1>3, <1>4, <2>1 DEF Register, TypeOK
  <2>3. Shape'
    BY <1>1, <1>4, ShapeAfter DEF Register
  <2>. QED
    BY <2>2, <2>3 DEF TInv
<1>5. ASSUME NEW p \in Projects, Promote(m, p) PROVE TInv'
  <2>1. jobs' \in [Machines -> SUBSET Jobs]
    BY <1>0, <1>5, JobsType DEF Promote
  <2>2. TypeOK'
    BY <1>0, <1>2, <1>3, <1>5, <2>1 DEF Promote, TypeOK
  <2>3. Shape'
    BY <1>1, <1>5, ShapeAfter DEF Promote
  <2>. QED
    BY <2>2, <2>3 DEF TInv
<1>6. ASSUME NEW p \in Projects, Demote(m, p) PROVE TInv'
  <2>1. TypeOK'
    BY <1>0, <1>2, <1>6 DEF Demote, TypeOK, tables, history
  <2>2. gate' = [gate EXCEPT ![m] = p] /\ Has(m, p)'
    BY <1>6 DEF Demote, Has, tables
  <2>3. \A n \in Machines : gate'[n] = gate[n] \/ Has(n, gate[n])'
    BY <1>0, <2>2 DEF TypeOK, Has
  <2>4. Shape'
    BY <1>1, <1>6, <2>3, ShapeAfter DEF Demote, tables
  <2>. QED
    BY <2>1, <2>4 DEF TInv
<1>7. CASE Flip(m)
  <2>1. gate[m] \in Projects
    BY <1>0, <1>7 DEF Flip, TypeOK
  <2>2. jobs' \in [Machines -> SUBSET Jobs]
    BY <1>0, <1>7 DEF Flip, TypeOK
  <2>3. TypeOK'
    BY <1>0, <1>3, <1>7, <2>1, <2>2 DEF Flip, TypeOK
  <2>4. \A n \in Machines : gate'[n] = gate[n] \/ gate'[n] = None
    BY <1>0, <1>7 DEF Flip, TypeOK
  <2>5. Shape'
    BY <1>1, <1>7, <2>4, ShapeAfter DEF Flip
  <2>. QED
    BY <2>3, <2>5 DEF TInv
<1>8. ASSUME NEW s \in Sessions, OpenRun(m, s) PROVE TInv'
  <2>1. PICK r \in Runs : /\ NextRun(r)
                          /\ session' = [session EXCEPT ![r] = s]
                          /\ runs' = [runs EXCEPT ![m] = @ \cup {r}]
    BY <1>8 DEF OpenRun
  <2>2. TypeOK'
    BY <1>0, <1>8, <2>1 DEF OpenRun, TypeOK, history
  <2>3. (Given(r) /\ Has(m, ProjectOf(r)))'
    BY <1>0, <1>8, <2>1 DEF OpenRun, TypeOK, Given, Has, ProjectOf
  <2>4. \A q \in runs[m] : (Given(q) /\ Has(m, ProjectOf(q)))'
    <3>1. \A q \in runs[m] : q \in Runs /\ Given(q) /\ Has(m, ProjectOf(q))
      BY <1>0 DEF Shape, TypeOK
    <3>2. \A q \in Runs : Given(q) => Given(q)' /\ ProjectOf(q)' = ProjectOf(q)
      BY <1>0, <1>1, KnownKept
    <3>. QED
      BY <1>8, <3>1, <3>2 DEF OpenRun, Has
  <2>5. \A n \in Machines :
          runs'[n] = runs[n] \/ \A q \in runs'[n] : (Given(q) /\ Has(n, ProjectOf(q)))'
    BY <1>0, <2>1, <2>3, <2>4 DEF TypeOK
  <2>6. Shape'
    BY <1>1, <1>8, <2>5, ShapeAfter DEF OpenRun
  <2>. QED
    BY <2>2, <2>6 DEF TInv
<1>9. ASSUME NEW r \in Runs, Link(m, r) PROVE TInv'
  <2>1. jobs' \in [Machines -> SUBSET Jobs]
    BY <1>0, <1>9, JobsType DEF Link
  <2>2. TypeOK'
    BY <1>0, <1>2, <1>9, <2>1 DEF Link, TypeOK, tables, history
  <2>3. Shape'
    BY <1>1, <1>9, ShapeAfter DEF Link, tables
  <2>. QED
    BY <2>2, <2>3 DEF TInv
<1>10. ASSUME NEW f \in Facts, AddRow(m, f), Has(m, f.project),
              f.run \in Runs => Given(f.run) /\ ProjectOf(f.run) = f.project,
              f.run \notin Runs => f.kind # "event"
       PROVE  TInv'
  <2>1. PICK i \in Rows : /\ fact' = [fact EXCEPT ![i] = f]
                          /\ rows' = [rows EXCEPT ![m] = @ \cup {i}]
                          /\ unqueued' = [unqueued EXCEPT ![m] = @ \cup {i}]
    BY <1>10 DEF AddRow
  <2>3. TypeOK'
    BY <1>0, <1>10, <2>1 DEF AddRow, TypeOK, history
  <2>4. fact'[i] = f /\ session' = session /\ org' = org
    BY <1>0, <1>10, <2>1 DEF AddRow, TypeOK
  <2>5. Sited(m, i)'
    BY <1>10, <2>4 DEF Sited, Known, Given, ProjectOf, Has
  <2>6. \A j \in rows[m] : Sited(m, j)'
    <3>1. \A j \in rows[m] : j \in Rows /\ Sited(m, j)
      BY <1>0 DEF Shape, TypeOK
    <3>2. adrift' = adrift
      BY <1>10 DEF AddRow
    <3>. QED
      BY <1>1, <3>1, <3>2, PartsKept
  <2>7. \A n \in Machines :
          (rows'[n] = rows[n] /\ adrift'[n] = adrift[n]) \/ \A j \in rows'[n] : Sited(n, j)'
    BY <1>0, <1>10, <2>1, <2>5, <2>6 DEF AddRow, TypeOK
  <2>8. Shape'
    BY <1>1, <1>10, <2>7, ShapeAfter DEF AddRow
  <2>. QED
    BY <2>3, <2>8 DEF TInv
<1>11. ASSUME NEW r \in Runs, NEW k \in Kinds, Record(m, r, k) PROVE TInv'
  <2>1. Given(r) /\ Has(m, ProjectOf(r)) /\ ProjectOf(r) \in Projects
    BY <1>0, <1>11 DEF Record, Shape, Given, ProjectOf
  <2>2. [run |-> r, project |-> ProjectOf(r), kind |-> k] \in Facts
    BY <2>1 DEF Facts
  <2>. QED
    BY <1>10, <1>11, <2>1, <2>2 DEF Record
<1>12. ASSUME NEW p \in Projects, RecordUnbound(m, p) PROVE TInv'
  <2>1. [run |-> None, project |-> p, kind |-> "verdict"] \in Facts
    BY DEF Facts
  <2>. QED
    BY <1>10, <1>12, <2>1 DEF RecordUnbound, Has
<1>13. ASSUME NEW i \in Rows, QueueRow(m, i) PROVE TInv'
  <2>1. jobs' \in [Machines -> SUBSET Jobs]
    BY <1>0, <1>13, JobsType DEF QueueRow
  <2>2. TypeOK'
    BY <1>0, <1>13, <2>1 DEF QueueRow, TypeOK, tables, history
  <2>3. Shape'
    BY <1>1, <1>13, ShapeAfter DEF QueueRow, tables
  <2>. QED
    BY <2>2, <2>3 DEF TInv
<1>. QED
  BY <1>4, <1>5, <1>6, <1>7, <1>8, <1>9, <1>11, <1>12, <1>13 DEF Users

\* A reset takes rows and runs away; a row whose run goes is adrift from then on.
LEMMA ResettingTInv ==
  ASSUME TInv, NEW m \in Machines, Resetting(m)
  PROVE  TInv'
<1>0. TypeOK /\ Shape
  BY DEF TInv
<1>1. UNCHANGED <<org, session, fact, unqueued, cloud, jobs, hand, gate, history>> /\ Kept
  BY ResettingKept
<1>2. ASSUME acts' \in 0..MaxActs, reset' \in [Machines -> Resets],
             rows' \in [Machines -> SUBSET Rows], adrift' \in [Machines -> SUBSET Rows],
             runs' \in [Machines -> SUBSET Runs],
             \A n \in Machines : n # m => runs'[n] = runs[n] /\ rows'[n] = rows[n] /\ adrift'[n] = adrift[n],
             runs'[m] \subseteq runs[m],
             \A i \in rows'[m] : i \in rows[m] /\ (i \in adrift[m] => i \in adrift'[m])
      PROVE  TInv'
  <2>1. TypeOK'
    BY <1>0, <1>1, <1>2 DEF TypeOK, history
  <2>2. \A r \in runs'[m] : (Given(r) /\ Has(m, ProjectOf(r)))'
    BY <1>0, <1>1, <1>2 DEF Shape, Given, Has, ProjectOf
  <2>3. \A i \in rows'[m] : Sited(m, i)'
    <3>1. \A i \in rows[m] : i \in Rows /\ Sited(m, i)
      BY <1>0 DEF Shape, TypeOK
    <3>. QED
      BY <1>1, <1>2, <3>1, PartsKept
  <2>4. Shape'
    BY <1>1, <1>2, <2>2, <2>3, ShapeAfter
  <2>. QED
    BY <2>1, <2>4 DEF TInv
<1>3. reset \in [Machines -> Resets] /\ acts \in 0..MaxActs
  BY <1>0 DEF TypeOK
<1>4. ASSUME NEW S \in SUBSET Rows, Delete(m, S), UNCHANGED runs, acts' \in 0..MaxActs,
             reset' \in [Machines -> Resets]
      PROVE  TInv'
  <2>1. rows' \in [Machines -> SUBSET Rows] /\ adrift' \in [Machines -> SUBSET Rows]
    BY <1>0, <1>4 DEF Delete, TypeOK
  <2>2. \A n \in Machines : n # m => rows'[n] = rows[n] /\ adrift'[n] = adrift[n]
    BY <1>0, <1>4 DEF Delete, TypeOK
  <2>3. \A i \in rows'[m] : i \in rows[m] /\ (i \in adrift[m] => i \in adrift'[m])
    BY <1>0, <1>4 DEF Delete, TypeOK
  <2>. QED
    BY <1>0, <1>2, <1>4, <2>1, <2>2, <2>3 DEF TypeOK
<1>5. ASSUME NEW step \in {"packs", "runs"}, reset[m].at \in {"events", "packs"}, ResetTo(m, step)
      PROVE  reset' \in [Machines -> Resets] /\ UNCHANGED <<runs, acts>>
  <2>1. reset[m] \in Resets /\ reset[m] # NoReset
    BY <1>3, <1>5 DEF NoReset
  <2>2. [reset[m] EXCEPT !.at = step] \in Resets
    BY <2>1 DEF Resets
  <2>. QED
    BY <1>3, <1>5, <2>2 DEF ResetTo
<1>6. rows[m] \subseteq Rows
  BY <1>0 DEF TypeOK
<1>7. NoReset \in Resets
  BY DEF Resets
<1>8. ASSUME NEW p \in Projects, Reset(m, p) PROVE TInv'
  <2>1. [at |-> "events", project |-> p] \in Resets
    BY DEF Resets
  <2>2. reset' \in [Machines -> Resets]
    BY <1>3, <1>8, <2>1 DEF Reset
  <2>3. acts' \in 0..MaxActs
    BY <1>3, <1>8 DEF Reset, Act
  <2>. QED
    BY <1>4, <1>6, <1>8, <2>2, <2>3 DEF Reset
<1>9. CASE ResetEvents(m)
  <2>1. {i \in RowsUnder(m, RunsOf(m, reset[m].project)) : fact[i].kind = "event"} \in SUBSET Rows
    BY <1>6 DEF RowsUnder
  <2>2. reset' \in [Machines -> Resets] /\ UNCHANGED <<runs, acts>>
    BY <1>5, <1>9 DEF ResetEvents
  <2>. QED
    BY <1>3, <1>4, <1>9, <2>1, <2>2 DEF ResetEvents
<1>10. CASE ResetPacks(m)
  <2>1. reset' \in [Machines -> Resets] /\ UNCHANGED <<runs, acts>>
    BY <1>5, <1>10 DEF ResetPacks
  <2>. QED
    BY <1>3, <1>4, <1>6, <1>10, <2>1 DEF ResetPacks
<1>11. CASE ResetRuns(m)
  <2>. DEFINE gone == RunsOf(m, reset[m].project)
              left == RowsUnder(m, gone)
  <2>1. /\ runs' = [runs EXCEPT ![m] = @ \ gone]
        /\ adrift' = [adrift EXCEPT ![m] = @ \cup left]
        /\ reset' = [reset EXCEPT ![m] = NoReset] /\ rows' = rows /\ acts' = acts
    BY <1>11 DEF ResetRuns
  <2>2. left \subseteq Rows
    BY <1>6 DEF RowsUnder
  <2>. HIDE DEF gone, left
  <2>3. reset' \in [Machines -> Resets] /\ adrift' \in [Machines -> SUBSET Rows]
    BY <1>0, <1>7, <2>1, <2>2 DEF TypeOK
  <2>4. runs' \in [Machines -> SUBSET Runs] /\ runs'[m] \subseteq runs[m]
    BY <1>0, <2>1 DEF TypeOK
  <2>5. \A n \in Machines : n # m => runs'[n] = runs[n] /\ rows'[n] = rows[n] /\ adrift'[n] = adrift[n]
    BY <1>0, <2>1 DEF TypeOK
  <2>6. \A i \in rows'[m] : i \in rows[m] /\ (i \in adrift[m] => i \in adrift'[m])
    BY <1>0, <2>1 DEF TypeOK
  <2>. QED
    BY <1>0, <1>2, <2>1, <2>3, <2>4, <2>5, <2>6 DEF TypeOK
<1>12. CASE ResetStops(m)
  <2>1. reset' \in [Machines -> Resets] /\ UNCHANGED <<runs, rows, adrift, acts>>
    BY <1>3, <1>7, <1>12 DEF ResetStops, tables
  <2>. QED
    BY <1>0, <1>2, <2>1 DEF TypeOK
<1>. QED
  BY <1>8, <1>9, <1>10, <1>11, <1>12 DEF Resetting

\* A claim takes a job whose row the machine has, and reads on.
LEMMA ClaimTInv ==
  ASSUME TInv, NEW m \in Machines, Claim(m) \/ ReadParents(m)
  PROVE  TInv'
<1>0. TypeOK /\ Shape
  BY DEF TInv
<1>1. Kept
  BY DaemonKept DEF Daemon
<1>2. ASSUME NEW j \in Jobs, Skip(m, j), j.table = "rows" => j.id \in Rows PROVE TInv'
  <2>1. jobs' \in [Machines -> SUBSET Jobs] /\ hand' \in [Machines -> Hands]
    BY <1>0, <1>2, JobsType DEF Skip
  <2>2. TypeOK'
    BY <1>0, <1>2, <2>1 DEF Skip, TypeOK, localVars, tables
  <2>3. \A n \in Machines : hand'[n] = hand[n] \/ hand'[n] = Idle
    BY <1>0, <1>2 DEF Skip, TypeOK
  <2>4. \A n \in Machines : hand'[n] = hand[n] \/ HandShape(n)'
    BY <2>3 DEF HandShape, Idle
  <2>5. Shape'
    BY <1>1, <1>2, <2>4, ShapeAfter DEF Skip, localVars, tables
  <2>. QED
    BY <2>2, <2>5 DEF TInv
<1>3. ASSUME NEW j \in Jobs, NEW step \in Steps, Take(m, j, step),
             Holds(m, step, j)' => HandShape(m)'
      PROVE  TInv'
  <2>1. hand' = [hand EXCEPT ![m] = [at |-> step, job |-> j]]
    BY <1>3 DEF Take
  <2>2. hand' \in [Machines -> Hands]
    BY <1>0, <2>1, JobsType
  <2>3. TypeOK'
    BY <1>0, <1>3, <2>2 DEF Take, TypeOK, localVars, tables, history
  <2>4. \A n \in Machines : hand'[n] = hand[n] \/ HandShape(n)'
    BY <1>0, <1>3, <2>1 DEF TypeOK, Holds
  <2>5. Shape'
    BY <1>1, <1>3, <2>4, ShapeAfter DEF Take, localVars, tables
  <2>. QED
    BY <2>3, <2>5 DEF TInv
<1>4. ASSUME NEW p \in Projects, ClaimProject(m, p) PROVE TInv'
  <2>1. ProjectJob(p) \in Jobs /\ ProjectJob(p).table # "rows"
    BY <1>0, JobsType DEF ProjectJob
  <2>2. CASE Skip(m, ProjectJob(p))
    BY <1>2, <2>1, <2>2
  <2>3. CASE Take(m, ProjectJob(p), "upsertProject")
    <3>1. Has(m, p)'
      BY <1>4, <2>3 DEF ClaimProject, Take, localVars, tables, Has
    <3>2. Holds(m, "upsertProject", ProjectJob(p))' => HandShape(m)'
      BY <3>1 DEF HandShape, Holds, ProjectJob
    <3>. QED
      BY <1>3, <2>1, <2>3, <3>2 DEF Steps
  <2>. QED
    BY <1>4, <2>2, <2>3 DEF ClaimProject
<1>5. ASSUME NEW r \in Runs, ClaimRun(m, r) PROVE TInv'
  <2>1. RunJob(r) \in Jobs /\ RunJob(r).table # "rows"
    BY <1>0, JobsType DEF RunJob
  <2>2. CASE Skip(m, RunJob(r))
    BY <1>2, <2>1, <2>2
  <2>3. CASE Take(m, RunJob(r), "upsertRun")
    <3>1. Given(r)'
      BY <1>0, <1>5, <2>3 DEF ClaimRun, Take, localVars, tables, Given, Shape
    <3>2. Holds(m, "upsertRun", RunJob(r))' => HandShape(m)'
      BY <3>1 DEF HandShape, Holds, RunJob
    <3>. QED
      BY <1>3, <2>1, <2>3, <3>2 DEF Steps
  <2>. QED
    BY <1>5, <2>2, <2>3 DEF ClaimRun
<1>6. ASSUME NEW i \in Rows, Known(i), NEW step \in {"parents", "project", "row", "adrift"},
             Take(m, RowJob(i), step),
             step \in {"parents", "project"} => fact[i].run \in Runs /\ Has(m, fact[i].project)
      PROVE  TInv'
  <2>1. RowJob(i) \in Jobs
    BY <1>0, JobsType
  <2>2. fact' = fact /\ session' = session /\ org' = org
    BY <1>6 DEF Take, localVars, tables
  <2>3. Known(i)' /\ (Has(m, fact[i].project) => Has(m, fact[i].project)')
    BY <1>6, <2>2 DEF Known, Given, ProjectOf, Has
  <2>4. Holds(m, step, RowJob(i))' => HoldsRow(m, i)'
    BY <1>6, <2>2, <2>3 DEF HoldsRow, Holds, RowJob
  <2>5. Holds(m, step, RowJob(i))' => HandShape(m)'
    BY <2>3, <2>4 DEF HandShape
  <2>6. step \in Steps
    BY DEF Steps
  <2>. QED
    BY <1>3, <1>6, <2>1, <2>5, <2>6
<1>7. ASSUME NEW i \in Rows, ClaimRow(m, i) PROVE TInv'
  <2>1. Sited(m, i)
    BY <1>0, <1>7 DEF ClaimRow, Shape
  <2>2. CASE i \in adrift[m]
    BY <1>6, <1>7, <2>1, <2>2 DEF ClaimRow, Sited
  <2>3. CASE i \notin adrift[m] /\ fact[i].run \in Runs
    BY <1>6, <1>7, <2>1, <2>3 DEF ClaimRow, Sited
  <2>4. CASE i \notin adrift[m] /\ fact[i].run \notin Runs
    BY <1>6, <1>7, <2>1, <2>4 DEF ClaimRow, Sited
  <2>. QED
    BY <2>2, <2>3, <2>4
<1>8. CASE ReadParents(m)
  <2>1. PICK i \in Rows : /\ hand[m].job = RowJob(i) /\ hand[m].job.id = i
                          /\ Known(i) /\ Has(m, fact[i].project) /\ fact[i].run \in Runs
    BY <1>8, HandOf DEF ReadParents
  <2>2. RowJob(i) \in Jobs /\ RowJob(i).id = i
    BY <1>0, JobsType DEF RowJob
  <2>3. CASE Skip(m, RowJob(i))
    BY <1>2, <2>2, <2>3
  <2>4. CASE Take(m, RowJob(i), "row") \/ Take(m, RowJob(i), "project")
    BY <1>6, <2>1, <2>4
  <2>. QED
    BY <1>8, <2>1, <2>3, <2>4 DEF ReadParents
<1>. QED
  BY <1>4, <1>5, <1>7, <1>8 DEF Claim

\* An insert puts down the job, or goes on to the row's next table.
LEMMA InsertTInv ==
  ASSUME TInv, NEW m \in Machines, Insert(m)
  PROVE  TInv'
<1>0. TypeOK /\ Shape
  BY DEF TInv
<1>1. Kept
  BY DaemonKept DEF Daemon
<1>2. ASSUME Done(m), UNCHANGED <<localVars, gate, shared, skipped>>,
             cloud' \in Tables, overtaken' \subseteq Projects,
             \A r \in cloud'.runs : r \in cloud.runs \/ (r \in Runs /\ Given(r)),
             \A i \in cloud'.rows : i \in cloud.rows \/ (i \in Rows /\ Known(i))
      PROVE  TInv'
  <2>1. hand' \in [Machines -> Hands] /\ jobs' \in [Machines -> SUBSET Jobs]
    BY <1>0, <1>2, JobsType DEF Done
  <2>2. TypeOK'
    BY <1>0, <1>2, <2>1 DEF TypeOK, localVars, tables
  <2>3. \A n \in Machines : hand'[n] = hand[n] \/ hand'[n] = Idle
    BY <1>0, <1>2 DEF Done, TypeOK
  <2>4. \A n \in Machines : hand'[n] = hand[n] \/ HandShape(n)'
    BY <2>3 DEF HandShape, Idle
  <2>5. Shape'
    BY <1>1, <1>2, <2>4, ShapeAfter DEF localVars, tables
  <2>. QED
    BY <2>2, <2>5 DEF TInv
<1>3. ASSUME NEW i \in Rows, NEW step \in {"run", "row"},
             hand[m].job = RowJob(i), Known(i), Has(m, fact[i].project), fact[i].run \in Runs,
             Go(m, step), UNCHANGED <<localVars, gate, shared, skipped>>,
             cloud' \in Tables, overtaken' \subseteq Projects,
             \A r \in cloud'.runs : r \in cloud.runs \/ (r \in Runs /\ Given(r)),
             cloud'.rows = cloud.rows
      PROVE  TInv'
  <2>1. hand' = [hand EXCEPT ![m] = [at |-> step, job |-> RowJob(i)]] /\ RowJob(i) \in Jobs
    BY <1>0, <1>3, JobsType DEF Go
  <2>2. hand' \in [Machines -> Hands] /\ jobs' = jobs
    <3>1. step \in Steps
      BY DEF Steps
    <3>2. hand' \in [Machines -> Hands]
      BY <1>0, <2>1, <3>1, JobsType
    <3>. QED
      BY <1>3, <3>2 DEF Go
  <2>3. TypeOK'
    BY <1>0, <1>3, <2>2 DEF TypeOK, localVars, tables
  <2>4. fact' = fact /\ session' = session /\ org' = org
    BY <1>3 DEF localVars, tables
  <2>5. (Known(i) /\ Has(m, fact[i].project))'
    BY <1>3, <2>4 DEF Known, Given, ProjectOf, Has
  <2>6. HoldsRow(m, i)'
    BY <1>0, <1>3, <2>1, <2>4, <2>5 DEF HoldsRow, Holds, TypeOK, RowJob
  <2>7. HandShape(m)'
    BY <2>5, <2>6 DEF HandShape
  <2>8. \A n \in Machines : hand'[n] = hand[n] \/ HandShape(n)'
    BY <1>0, <2>1, <2>7 DEF TypeOK
  <2>9. Shape'
    BY <1>1, <1>3, <2>8, ShapeAfter DEF localVars, tables
  <2>. QED
    BY <2>3, <2>9 DEF TInv
<1>4. overtaken \subseteq Projects /\ cloud \in Tables
  BY <1>0 DEF TypeOK
<1>5. CASE UpsertProject(m)
  <2>1. PICK p \in Projects : PutProject(m, p)
    BY <1>5, HandOf DEF UpsertProject
  <2>. QED
    BY <1>2, <1>5, <2>1, PutProjectKept DEF UpsertProject
<1>6. CASE UpsertRun(m)
  <2>1. PICK r \in Runs : PutRun(r) /\ Given(r)
    BY <1>6, HandOf DEF UpsertRun
  <2>. QED
    BY <1>2, <1>4, <1>6, <2>1, PutRunKept DEF UpsertRun, history
<1>7. CASE EnsureProject(m)
  <2>1. PICK i \in Rows : /\ hand[m].job = RowJob(i) /\ hand[m].job.id = i
                          /\ Known(i) /\ Has(m, fact[i].project) /\ fact[i].run \in Runs
    BY <1>7, HandOf DEF EnsureProject
  <2>2. fact[i].project \in Projects
    BY <2>1 DEF Known, Facts
  <2>3. PutProject(m, fact[i].project)
    BY <1>7, <2>1 DEF EnsureProject
  <2>4. /\ cloud' \in Tables /\ cloud'.runs = cloud.runs /\ cloud'.rows = cloud.rows
        /\ overtaken' \subseteq Projects
    BY <2>2, <2>3, PutProjectKept
  <2>. QED
    BY <1>3, <1>7, <2>1, <2>4 DEF EnsureProject
<1>8. CASE EnsureRun(m)
  <2>1. PICK i \in Rows : /\ hand[m].job = RowJob(i) /\ hand[m].job.id = i
                          /\ Known(i) /\ Has(m, fact[i].project) /\ fact[i].run \in Runs
    BY <1>8, HandOf DEF EnsureRun
  <2>2. PutRun(fact[i].run) /\ Given(fact[i].run)
    BY <1>8, <2>1 DEF EnsureRun, Known
  <2>3. /\ cloud' \in Tables /\ cloud'.rows = cloud.rows
        /\ \A r \in cloud'.runs : r \in cloud.runs \/ (r \in Runs /\ Given(r))
    BY <2>1, <2>2, PutRunKept
  <2>. QED
    BY <1>3, <1>4, <1>8, <2>1, <2>3 DEF EnsureRun, history
<1>9. CASE InsertRow(m) \/ InsertAdrift(m)
  <2>1. PICK i \in Rows : hand[m].job.id = i /\ Known(i)
    BY <1>9, HandOf DEF InsertRow, InsertAdrift
  <2>2. RowPut(i)
    BY <1>9, <2>1 DEF InsertRow, InsertAdrift, RowPut
  <2>3. cloud' \in Tables /\ cloud'.runs = cloud.runs /\ cloud'.rows = cloud.rows \cup {i}
    BY <1>0, <2>2, RowPutKept
  <2>. QED
    BY <1>2, <1>4, <1>9, <2>1, <2>3 DEF InsertRow, InsertAdrift, history
<1>. QED
  BY <1>5, <1>6, <1>7, <1>8, <1>9 DEF Insert

LEMMA DaemonTInv ==
  ASSUME TInv, NEW m \in Machines, Daemon(m)
  PROVE  TInv'
<1>0. TypeOK /\ Shape
  BY DEF TInv
<1>1. Kept
  BY DaemonKept
<1>2. CASE Fail(m)
  <2>1. hand' \in [Machines -> Hands]
    BY <1>0, <1>2, JobsType DEF Fail
  <2>2. TypeOK'
    BY <1>0, <1>2, <2>1 DEF Fail, TypeOK, localVars, tables, history
  <2>3. \A n \in Machines : hand'[n] = hand[n] \/ hand'[n] = Idle
    BY <1>0, <1>2 DEF Fail, TypeOK
  <2>4. \A n \in Machines : hand'[n] = hand[n] \/ HandShape(n)'
    BY <2>3 DEF HandShape, Idle
  <2>5. Shape'
    BY <1>1, <1>2, <2>4, ShapeAfter DEF Fail, localVars, tables
  <2>. QED
    BY <2>2, <2>5 DEF TInv
<1>3. CASE PullProjects(m)
  <2>1. TypeOK'
    BY <1>0, <1>3 DEF PullProjects, TypeOK, history, Orgs
  <2>2. Shape'
    BY <1>1, <1>3, ShapeAfter DEF PullProjects
  <2>. QED
    BY <2>1, <2>2 DEF TInv
<1>4. CASE PullRuns(m)
  <2>1. \A r \in MissingRuns(m) : r \in Runs /\ Given(r) /\ Has(m, ProjectOf(r))
    BY <1>0 DEF MissingRuns, Newest, TypeOK, Tables, Shape, Has
  <2>2. TypeOK'
    BY <1>0, <1>4, <2>1 DEF PullRuns, TypeOK, history
  <2>3. \A r \in runs[m] : Given(r) /\ Has(m, ProjectOf(r))
    BY <1>0 DEF Shape
  <2>4. \A r \in runs[m] \cup MissingRuns(m) : (Given(r) /\ Has(m, ProjectOf(r)))'
    BY <1>4, <2>1, <2>3 DEF PullRuns, Given, Has, ProjectOf
  <2>5. \A n \in Machines :
          runs'[n] = runs[n] \/ \A r \in runs'[n] : (Given(r) /\ Has(n, ProjectOf(r)))'
    BY <1>0, <1>4, <2>4 DEF PullRuns, TypeOK
  <2>6. Shape'
    BY <1>1, <1>4, <2>5, ShapeAfter DEF PullRuns
  <2>. QED
    BY <2>2, <2>6 DEF TInv
<1>5. CASE PullRows(m)
  <2>1. ASSUME NEW i \in Arriving(m)
        PROVE  i \in Rows /\ Known(i) /\ (i \notin cloud.adrift => Has(m, fact[i].project))
    <3>1. i \in cloud.rows /\ (i \notin cloud.adrift => fact[i].run \in runs[m])
      BY <2>1 DEF Arriving, Newest, OfKind
    <3>2. i \in Rows /\ Known(i)
      BY <1>0, <3>1 DEF TypeOK, Tables, Shape
    <3>3. CASE fact[i].run \in runs[m]
      <4>1. fact[i].run \in Runs /\ Has(m, ProjectOf(fact[i].run))
        BY <1>0, <3>3 DEF Shape, TypeOK
      <4>2. ProjectOf(fact[i].run) = fact[i].project
        BY <3>2, <4>1 DEF Known
      <4>. QED
        BY <3>2, <4>1, <4>2
    <3>. QED
      BY <3>1, <3>2, <3>3
  <2>2. /\ rows' = [rows EXCEPT ![m] = @ \cup Arriving(m)]
        /\ adrift' = [adrift EXCEPT ![m] = @ \cup ((Arriving(m) \cap cloud.adrift) \ rows[m])]
    BY <1>5 DEF PullRows
  <2>3. Arriving(m) \subseteq Rows
    BY <2>1
  <2>4. TypeOK'
    BY <1>0, <1>5, <2>2, <2>3 DEF PullRows, TypeOK, history
  <2>5. /\ rows'[m] = rows[m] \cup Arriving(m)
        /\ adrift'[m] = adrift[m] \cup ((Arriving(m) \cap cloud.adrift) \ rows[m])
    BY <1>0, <2>2 DEF TypeOK
  <2>6. fact' = fact /\ session' = session /\ org' = org
    BY <1>5 DEF PullRows
  <2>7. \A i \in rows[m] : Sited(m, i)'
    <3>1. \A i \in rows[m] : i \in Rows /\ Sited(m, i)
      BY <1>0 DEF Shape, TypeOK
    <3>. QED
      BY <1>1, <2>5, <3>1, PartsKept
  <2>8. \A i \in Arriving(m) : i \notin rows[m] => Sited(m, i)'
    <3>1. \A i \in Arriving(m) : Known(i)'
      BY <2>1, <2>6 DEF Known, Given, ProjectOf
    <3>. QED
      BY <2>1, <2>5, <2>6, <3>1 DEF Sited, Has
  <2>9. \A n \in Machines :
          (rows'[n] = rows[n] /\ adrift'[n] = adrift[n]) \/ \A i \in rows'[n] : Sited(n, i)'
    BY <1>0, <2>2, <2>5, <2>7, <2>8 DEF TypeOK
  <2>10. Shape'
    BY <1>1, <1>5, <2>9, ShapeAfter DEF PullRows
  <2>. QED
    BY <2>4, <2>10 DEF TInv
<1>. QED
  BY <1>2, <1>3, <1>4, <1>5, ClaimTInv, InsertTInv DEF Daemon

LEMMA StepTInv == TInv /\ [Next]_vars => TInv'
<1>1. ASSUME TInv, UNCHANGED vars PROVE TInv'
  <2>1. Kept
    BY <1>1, StepKept
  <2>2. TypeOK'
    BY <1>1 DEF TInv, TypeOK, vars, localVars, tables, history
  <2>3. Shape'
    BY <1>1, <2>1, ShapeAfter DEF vars, localVars, tables
  <2>. QED
    BY <2>2, <2>3 DEF TInv
<1>. QED
  BY <1>1, UsersTInv, ResettingTInv, DaemonTInv DEF Next

\* Every value a variable takes is one its type allows: in particular no row or run
\* is stored, pushed or pulled before it is written down.
THEOREM TypeCorrect == Spec => []TypeOK
<1>1. TInv => TypeOK
  BY DEF TInv
<1>. QED
  BY <1>1, InitTInv, StepTInv, PTL DEF Spec
-----------------------------------------------------------------------------
(* What a step does to a hand, to the cloud and to the projects of a machine *)

\* A hand is left alone, emptied, given a job of a project that is the team's, or
\* moved on: to the run once the project has been put.
LEMMA HandMoves ==
  ASSUME TInv, [Next]_vars, NEW n \in Machines
  PROVE  \/ hand'[n] = hand[n]
         \/ hand'[n] = Idle
         \/ \E p \in Projects : Holds(n, "upsertProject", ProjectJob(p))' /\ org[n][p] = "team"
         \/ \E step \in {"upsertRun", "parents", "row", "adrift"}, j \in Jobs : Holds(n, step, j)'
         \/ \E i \in Rows :
              /\ Known(i)
              /\ \/ Holds(n, "project", RowJob(i))' /\ org[n][fact[i].project] = "team"
                 \/ Holds(n, "run", RowJob(i))' /\ Holds(n, "project", RowJob(i))
<1>. DEFINE Moves ==
  \/ hand'[n] = hand[n]
  \/ hand'[n] = Idle
  \/ \E p \in Projects : Holds(n, "upsertProject", ProjectJob(p))' /\ org[n][p] = "team"
  \/ \E step \in {"upsertRun", "parents", "row", "adrift"}, j \in Jobs : Holds(n, step, j)'
  \/ \E i \in Rows :
       /\ Known(i)
       /\ \/ Holds(n, "project", RowJob(i))' /\ org[n][fact[i].project] = "team"
          \/ Holds(n, "run", RowJob(i))' /\ Holds(n, "project", RowJob(i))
<1>. SUFFICES Moves
  OBVIOUS
<1>0. TypeOK /\ Shape
  BY DEF TInv
<1>1. ASSUME hand' = hand PROVE Moves
  BY <1>1
<1>. HIDE DEF Moves
<1>2. ASSUME NEW m \in Machines, Users(m) PROVE Moves
  BY <1>1, <1>2 DEF Users, Register, Promote, Demote, Flip, RecordUnbound, OpenRun, Link,
                    Record, AddRow, QueueRow
<1>3. ASSUME NEW m \in Machines, Resetting(m) PROVE Moves
  BY <1>1, <1>3, ResettingKept
<1>4. ASSUME NEW m \in Machines, NEW j, hand' = [hand EXCEPT ![m] = j], m # n PROVE Moves
  BY <1>0, <1>4 DEF Moves, TypeOK
<1>5. ASSUME NEW m \in Machines, hand' = [hand EXCEPT ![m] = Idle] PROVE Moves
  BY <1>0, <1>5 DEF Moves, TypeOK
<1>6. ASSUME NEW m \in Machines, NEW j \in Jobs, NEW step, Take(m, j, step) \/ (Go(m, step) /\ hand[m].job = j),
             m = n /\ Holds(n, step, j)' => Moves
      PROVE  Moves
  <2>1. hand' = [hand EXCEPT ![m] = [at |-> step, job |-> j]]
    BY <1>6 DEF Take, Go
  <2>2. CASE m = n
    BY <1>0, <1>6, <2>1, <2>2 DEF Holds, TypeOK
  <2>. QED
    BY <1>4, <2>1, <2>2
<1>7. /\ \A p \in Projects : ProjectJob(p) \in Jobs
      /\ \A r \in Runs : RunJob(r) \in Jobs
      /\ \A i \in Rows : RowJob(i) \in Jobs
  BY <1>0 DEF ProjectJob, RunJob, RowJob, Jobs
<1>8. ASSUME NEW m \in Machines, NEW j \in Jobs, NEW step \in {"upsertRun", "parents", "row", "adrift"},
             Take(m, j, step) \/ (Go(m, step) /\ hand[m].job = j)
      PROVE  Moves
  <2>1. Holds(n, step, j)' => Moves
    BY DEF Moves
  <2>. QED
    BY <1>6, <1>8, <2>1
<1>9. ASSUME NEW m \in Machines, \E j : Skip(m, j) PROVE Moves
  BY <1>5, <1>9 DEF Skip
<1>10. ASSUME NEW m \in Machines, NEW p \in Projects, ClaimProject(m, p) PROVE Moves
  <2>1. CASE Skip(m, ProjectJob(p))
    BY <1>9, <2>1
  <2>2. CASE ~LocalOnly(m, p) /\ Take(m, ProjectJob(p), "upsertProject")
    <3>1. org[m][p] = "team"
      BY <1>0, <1>10, <2>2 DEF ClaimProject, LocalOnly, TypeOK, Orgs
    <3>2. m = n /\ Holds(n, "upsertProject", ProjectJob(p))' => Moves
      BY <3>1 DEF Moves
    <3>. QED
      BY <1>6, <1>7, <2>2, <3>2
  <2>. QED
    BY <1>10, <2>1, <2>2 DEF ClaimProject
<1>11. ASSUME NEW m \in Machines, NEW r \in Runs, ClaimRun(m, r) PROVE Moves
  BY <1>7, <1>8, <1>9, <1>11 DEF ClaimRun
<1>12. ASSUME NEW m \in Machines, NEW i \in Rows, ClaimRow(m, i) PROVE Moves
  BY <1>7, <1>8, <1>12 DEF ClaimRow
<1>13. ASSUME NEW m \in Machines, ReadParents(m) PROVE Moves
  <2>1. PICK i \in Rows : /\ hand[m].job = RowJob(i) /\ hand[m].job.id = i
                          /\ Known(i) /\ Has(m, fact[i].project) /\ fact[i].run \in Runs
    BY <1>13, HandOf DEF ReadParents
  <2>2. CASE Skip(m, RowJob(i))
    BY <1>9, <2>2
  <2>3. CASE Take(m, RowJob(i), "row")
    BY <1>7, <1>8, <2>3
  <2>4. CASE ~LocalOnly(m, fact[i].project) /\ Take(m, RowJob(i), "project")
    <3>1. fact[i].project \in Projects
      BY <2>1 DEF Known, Facts
    <3>2. org[m][fact[i].project] = "team"
      BY <1>0, <2>1, <2>4, <3>1 DEF LocalOnly, TypeOK, Orgs, Has
    <3>3. m = n /\ Holds(n, "project", RowJob(i))' => Moves
      BY <2>1, <3>2 DEF Moves
    <3>. QED
      BY <1>6, <1>7, <2>4, <3>3
  <2>. QED
    BY <1>13, <2>1, <2>2, <2>3, <2>4 DEF ReadParents
<1>14. ASSUME NEW m \in Machines, EnsureProject(m) PROVE Moves
  <2>1. PICK i \in Rows : hand[m].job = RowJob(i) /\ Known(i)
    BY <1>14, HandOf DEF EnsureProject
  <2>2. Holds(m, "project", RowJob(i))
    BY <1>14, <2>1, HoldsOf DEF EnsureProject, Steps
  <2>3. m = n /\ Holds(n, "run", RowJob(i))' => Moves
    BY <2>1, <2>2 DEF Moves
  <2>. QED
    BY <1>6, <1>7, <1>14, <2>1, <2>3 DEF EnsureProject
<1>15. ASSUME NEW m \in Machines, EnsureRun(m) PROVE Moves
  <2>1. PICK i \in Rows : hand[m].job = RowJob(i)
    BY <1>15, HandOf DEF EnsureRun
  <2>. QED
    BY <1>7, <1>8, <1>15, <2>1 DEF EnsureRun
<1>16. ASSUME NEW m \in Machines, Daemon(m) PROVE Moves
  BY <1>1, <1>5, <1>10, <1>11, <1>12, <1>13, <1>14, <1>15, <1>16
     DEF Daemon, Claim, Insert, UpsertProject, UpsertRun, InsertRow, InsertAdrift, Fail, Done,
         PullProjects, PullRuns, PullRows
<1>17. CASE UNCHANGED vars
  BY <1>1, <1>17 DEF vars
<1>. QED
  BY <1>2, <1>3, <1>16, <1>17 DEF Next

\* Machine m has project p in hand, by itself or as the parent of a row.
Pushes(m, p) ==
  \/ Holds(m, "upsertProject", ProjectJob(p))
  \/ \E i \in Rows : Holds(m, "project", RowJob(i)) /\ fact[i].run \in Runs /\ fact[i].project = p

\* What the tables of the cloud gain, and from which hand.
CloudGains ==
  \/ \E m \in Machines, p \in Projects : PutProject(m, p) /\ Pushes(m, p) /\ Has(m, p)
  \/ \E r \in Runs :
       /\ PutRun(r) /\ Given(r) /\ UNCHANGED overtaken
       /\ \/ ProjectOf(r) \in cloud.projects
          \/ \E m \in Machines, i \in Rows : Holds(m, "run", RowJob(i)) /\ Known(i) /\ fact[i].run = r
  \/ \E i \in Rows :
       /\ Known(i) /\ UNCHANGED overtaken
       /\ \/ /\ cloud' = [cloud EXCEPT !.rows = @ \cup {i}]
             /\ fact[i].run \in cloud.runs \/ fact[i].project \in cloud.projects
          \/ cloud' = [cloud EXCEPT !.rows = @ \cup {i}, !.adrift = @ \cup ({i} \ cloud.rows)]

LEMMA CloudMoves ==
  ASSUME TInv, [Next]_vars
  PROVE  \/ UNCHANGED <<cloud, overtaken>>
         \/ UNCHANGED <<org, session, fact, gate, shared>> /\ CloudGains
<1>. DEFINE Moves == \/ UNCHANGED <<cloud, overtaken>>
                     \/ UNCHANGED <<org, session, fact, gate, shared>> /\ CloudGains
<1>. SUFFICES Moves
  OBVIOUS
<1>0. TypeOK /\ Shape
  BY DEF TInv
<1>1. ASSUME NEW m \in Machines, Users(m) PROVE UNCHANGED <<cloud, overtaken>>
  BY <1>1 DEF Users, Register, Promote, Demote, Flip, RecordUnbound, OpenRun, Link,
              Record, AddRow, QueueRow, history
<1>3. ASSUME NEW m \in Machines, Resetting(m) PROVE UNCHANGED <<cloud, overtaken>>
  BY <1>3, ResettingKept DEF history
<1>2. ASSUME NEW m \in Machines,
             Claim(m) \/ ReadParents(m) \/ Fail(m) \/ PullProjects(m) \/ PullRuns(m) \/ PullRows(m)
      PROVE  UNCHANGED <<cloud, overtaken>>
  <2>1. ASSUME NEW j, Skip(m, j) PROVE UNCHANGED <<cloud, overtaken>>
    BY <2>1 DEF Skip
  <2>2. ASSUME NEW j, NEW step, Take(m, j, step) PROVE UNCHANGED <<cloud, overtaken>>
    BY <2>2 DEF Take, history
  <2>3. CASE Claim(m) \/ ReadParents(m)
    BY <2>1, <2>2, <2>3 DEF Claim, ClaimProject, ClaimRun, ClaimRow, ReadParents
  <2>4. CASE Fail(m) \/ PullProjects(m) \/ PullRuns(m) \/ PullRows(m)
    BY <2>4 DEF Fail, PullProjects, PullRuns, PullRows, history
  <2>. QED
    BY <1>2, <2>3, <2>4
<1>4. ASSUME NEW m \in Machines, UpsertProject(m) PROVE Moves
  <2>1. PICK p \in Projects : hand[m].job = ProjectJob(p) /\ hand[m].job.id = p /\ Has(m, p)
    BY <1>4, HandOf DEF UpsertProject
  <2>2. HandShape(m)
    BY <1>0 DEF Shape
  <2>3. Holds(m, "upsertProject", ProjectJob(p))
    BY <1>4, <2>1, <2>2 DEF UpsertProject, HandShape, HoldsRow, Holds, Idle, ProjectJob
  <2>. QED
    BY <1>4, <2>1, <2>3 DEF UpsertProject, CloudGains, Pushes, localVars, tables
<1>5. ASSUME NEW m \in Machines, UpsertRun(m) PROVE Moves
  <2>1. PICK r \in Runs : hand[m].job.id = r /\ Given(r)
    BY <1>5, HandOf DEF UpsertRun
  <2>. QED
    BY <1>5, <2>1 DEF UpsertRun, CloudGains, localVars, tables, history
<1>6. ASSUME NEW m \in Machines, EnsureProject(m) PROVE Moves
  <2>1. PICK i \in Rows : /\ hand[m].job = RowJob(i) /\ hand[m].job.id = i
                          /\ Known(i) /\ Has(m, fact[i].project) /\ fact[i].run \in Runs
    BY <1>6, HandOf DEF EnsureProject
  <2>2. fact[i].project \in Projects
    BY <2>1 DEF Known, Facts
  <2>3. Holds(m, "project", RowJob(i))
    BY <1>6, <2>1, HoldsOf DEF EnsureProject, Steps
  <2>. QED
    BY <1>6, <2>1, <2>2, <2>3 DEF EnsureProject, CloudGains, Pushes, localVars, tables
<1>7. ASSUME NEW m \in Machines, EnsureRun(m) PROVE Moves
  <2>1. PICK i \in Rows : /\ hand[m].job = RowJob(i) /\ hand[m].job.id = i
                          /\ Known(i) /\ fact[i].run \in Runs
    BY <1>7, HandOf DEF EnsureRun
  <2>2. Given(fact[i].run)
    BY <2>1 DEF Known
  <2>3. Holds(m, "run", RowJob(i))
    BY <1>7, <2>1, HoldsOf DEF EnsureRun, Steps
  <2>. QED
    BY <1>7, <2>1, <2>2, <2>3 DEF EnsureRun, CloudGains, localVars, tables, history
<1>8. ASSUME NEW m \in Machines, InsertRow(m) \/ InsertAdrift(m) PROVE Moves
  <2>1. PICK i \in Rows : hand[m].job.id = i /\ Known(i)
    BY <1>8, HandOf DEF InsertRow, InsertAdrift
  <2>2. CASE InsertRow(m)
    <3>1. fact[i].run \in cloud.runs \/ fact[i].project \in cloud.projects
      BY <1>0, <2>1, <2>2 DEF InsertRow, Known, TypeOK, Tables
    <3>. QED
      BY <2>1, <2>2, <3>1 DEF InsertRow, CloudGains, localVars, tables, history
  <2>3. CASE InsertAdrift(m)
    BY <2>1, <2>3 DEF InsertAdrift, CloudGains, localVars, tables, history
  <2>. QED
    BY <1>8, <2>2, <2>3
<1>9. CASE UNCHANGED vars
  BY <1>9 DEF vars, history
<1>. QED
  BY <1>1, <1>2, <1>3, <1>4, <1>5, <1>6, <1>7, <1>8, <1>9 DEF Next, Daemon, Insert

\* A machine's project changes hands by a command of its user or by a pull.
LEMMA OrgMoves ==
  ASSUME TInv, [Next]_vars
  PROVE  \/ org' = org
         \/ /\ UNCHANGED <<cloud, overtaken, hand>>
            /\ \E m \in Machines, p \in Projects, o \in {"solo", "team"} :
                 /\ SetOrg(m, p, o)
                 /\ Has(m, p) \/ p \in cloud.projects \/ \A n \in Machines : ~Has(n, p)
                 /\ o = "solo" => gate[m] = p \/ \A n \in Machines : ~Has(n, p)
         \/ /\ UNCHANGED <<cloud, overtaken, hand, shared>>
            /\ \E m \in Machines : PullProjects(m)
<1>0. TypeOK /\ Shape
  BY DEF TInv
<1>1. ASSUME NEW m \in Machines, NEW p \in Projects, NEW o \in {"solo", "team"}, Register(m, p, o)
      PROVE  /\ UNCHANGED <<cloud, overtaken, hand>> /\ SetOrg(m, p, o)
             /\ p \in cloud.projects \/ \A n \in Machines : ~Has(n, p)
             /\ o = "solo" => \A n \in Machines : ~Has(n, p)
  BY <1>1 DEF Register, Has
<1>2. ASSUME NEW m \in Machines, NEW p \in Projects, Promote(m, p)
      PROVE  UNCHANGED <<cloud, overtaken, hand>> /\ SetOrg(m, p, "team") /\ Has(m, p)
  BY <1>2 DEF Promote, Has
<1>3. ASSUME NEW m \in Machines, Flip(m)
      PROVE  /\ UNCHANGED <<cloud, overtaken, hand>>
             /\ gate[m] \in Projects /\ SetOrg(m, gate[m], "solo") /\ Has(m, gate[m])
  BY <1>0, <1>3 DEF Flip, Shape, TypeOK
<1>4. ASSUME NEW m \in Machines, PullProjects(m)
      PROVE  UNCHANGED <<cloud, overtaken, hand, shared>>
  BY <1>4 DEF PullProjects, history
<1>5. ASSUME NEW m \in Machines, Users(m),
             ~ \E p \in Projects, o \in {"solo", "team"} : Register(m, p, o),
             ~ \E p \in Projects : Promote(m, p), ~Flip(m)
      PROVE  org' = org
  BY <1>5 DEF Users, Demote, RecordUnbound, OpenRun, Link, Record, AddRow, QueueRow, tables
<1>9. ASSUME NEW m \in Machines, Resetting(m) PROVE org' = org
  BY <1>9, ResettingKept
<1>6. ASSUME NEW m \in Machines, Daemon(m), ~PullProjects(m) PROVE org' = org
  BY <1>6 DEF Daemon, Claim, ClaimProject, ClaimRun, ClaimRow, ReadParents, Skip, Take, Insert,
              UpsertProject, UpsertRun, EnsureProject, EnsureRun, InsertRow, InsertAdrift, Fail,
              PullRuns, PullRows, localVars, tables
<1>7. CASE UNCHANGED vars
  BY <1>7 DEF vars, localVars, tables
<1>8. ASSUME NEW m \in Machines, Users(m), org' # org
      PROVE  /\ UNCHANGED <<cloud, overtaken, hand>>
             /\ \E p \in Projects, o \in {"solo", "team"} :
                 /\ SetOrg(m, p, o)
                 /\ Has(m, p) \/ p \in cloud.projects \/ \A n \in Machines : ~Has(n, p)
                 /\ o = "solo" => gate[m] = p \/ \A n \in Machines : ~Has(n, p)
  BY <1>1, <1>2, <1>3, <1>5, <1>8
<1>. QED
  BY <1>4, <1>6, <1>7, <1>8, <1>9 DEF Next
-----------------------------------------------------------------------------
(* Solo projects stay at home *)

\* Row i has a run of a project that was the team's.
Teams(i) == fact[i].run \in Runs => fact[i].project \in shared

\* What is in the hands, like what is in the cloud, belongs to projects that were at
\* some time the team's.
Shared ==
  /\ OnlyTheTeams
  /\ \A m \in Machines :
       /\ \A p \in Projects : org[m][p] = "team" => p \in shared
       /\ \A p \in Projects : Holds(m, "upsertProject", ProjectJob(p)) => p \in shared
       /\ \A i \in Rows, step \in {"project", "run"} : Holds(m, step, RowJob(i)) => Teams(i)

LEMMA StepShared == TInv /\ Shared /\ [Next]_vars => Shared'
<1>. SUFFICES ASSUME TInv, Shared, [Next]_vars PROVE Shared'
  OBVIOUS
<1>0. TypeOK /\ Shape /\ Kept
  BY StepKept DEF TInv
<1>1. shared \subseteq shared'
  BY <1>0 DEF Kept
<1>2. ASSUME NEW m \in Machines, NEW p \in Projects, org'[m][p] = "team" PROVE p \in shared'
  <2>1. CASE org' = org
    BY <1>1, <1>2, <2>1 DEF Shared
  <2>2. ASSUME NEW n \in Machines, NEW q \in Projects, NEW o \in {"solo", "team"}, SetOrg(n, q, o)
        PROVE  p \in shared'
    <3>1. CASE m = n /\ p = q
      BY <1>0, <1>2, <2>2, <3>1 DEF SetOrg, TypeOK
    <3>2. CASE ~(m = n /\ p = q)
      <4>1. org'[m][p] = org[m][p]
        BY <1>0, <2>2, <3>2 DEF SetOrg, TypeOK
      <4>. QED
        BY <1>1, <1>2, <4>1 DEF Shared
    <3>. QED
      BY <3>1, <3>2
  <2>3. ASSUME NEW n \in Machines, PullProjects(n) PROVE p \in shared'
    <3>1. org'[m][p] = org[m][p] \/ p \in cloud.projects
      BY <1>0, <2>3 DEF PullProjects, TypeOK
    <3>. QED
      BY <1>1, <1>2, <3>1 DEF Shared, OnlyTheTeams
  <2>. QED
    BY <2>1, <2>2, <2>3, OrgMoves
<1>3. ASSUME NEW i \in Rows, Known(i), Teams(i) PROVE Teams(i)'
  BY <1>0, <1>1, <1>3, KnownKept DEF Teams
<1>4. ASSUME NEW m \in Machines, NEW i \in Rows, NEW step \in {"project", "run"},
             Holds(m, step, RowJob(i))
      PROVE  Known(i) /\ Teams(i)
  <2>1. hand[m].at = step /\ hand[m].job.id = i
    BY <1>4 DEF Holds, RowJob
  <2>2. Known(i)
    BY <2>1, HandOf
  <2>. QED
    BY <1>4, <2>2 DEF Shared
<1>5. ASSUME NEW m \in Machines
      PROVE  /\ \A p \in Projects : Holds(m, "upsertProject", ProjectJob(p))' => p \in shared'
             /\ \A i \in Rows, step \in {"project", "run"} : Holds(m, step, RowJob(i))' => Teams(i)'
  <2>. DEFINE Good ==
         /\ \A p \in Projects : Holds(m, "upsertProject", ProjectJob(p))' => p \in shared'
         /\ \A i \in Rows, step \in {"project", "run"} : Holds(m, step, RowJob(i))' => Teams(i)'
  <2>1. CASE hand'[m] = hand[m]
    <3>1. /\ \A p \in Projects : Holds(m, "upsertProject", ProjectJob(p))'
                              => Holds(m, "upsertProject", ProjectJob(p))
          /\ \A i \in Rows, step \in {"project", "run"} :
                Holds(m, step, RowJob(i))' => Holds(m, step, RowJob(i))
      BY <2>1 DEF Holds, ProjectJob, RowJob
    <3>. QED
      BY <1>1, <1>3, <1>4, <3>1 DEF Shared
  <2>2. CASE hand'[m] = Idle
    BY <2>2 DEF Holds, Idle
  <2>3. ASSUME NEW p \in Projects, Holds(m, "upsertProject", ProjectJob(p))', org[m][p] = "team"
        PROVE  Good
    <3>1. \A q \in Projects : Holds(m, "upsertProject", ProjectJob(q))' => q = p
      BY <2>3 DEF Holds, ProjectJob
    <3>2. \A i \in Rows, step \in {"project", "run"} : ~Holds(m, step, RowJob(i))'
      BY <2>3 DEF Holds
    <3>. QED
      BY <1>1, <2>3, <3>1, <3>2 DEF Shared
  <2>4. CASE \E step \in {"upsertRun", "parents", "row", "adrift"}, j \in Jobs : Holds(m, step, j)'
    BY <2>4 DEF Holds
  <2>5. ASSUME NEW k \in Rows, Known(k), Teams(k),
               NEW s \in {"project", "run"}, Holds(m, s, RowJob(k))'
        PROVE  Good
    <3>1. \A p \in Projects : ~Holds(m, "upsertProject", ProjectJob(p))'
      BY <2>5 DEF Holds
    <3>2. \A i \in Rows, step \in {"project", "run"} : Holds(m, step, RowJob(i))' => i = k
      BY <2>5 DEF Holds, RowJob
    <3>. QED
      BY <1>3, <2>5, <3>1, <3>2
  <2>6. ASSUME NEW k \in Rows, Known(k),
               \/ Holds(m, "project", RowJob(k))' /\ org[m][fact[k].project] = "team"
               \/ Holds(m, "run", RowJob(k))' /\ Holds(m, "project", RowJob(k))
        PROVE  Good
    <3>1. fact[k].project \in Projects
      BY <2>6 DEF Known, Facts
    <3>2. Teams(k) /\ \E s \in {"project", "run"} : Holds(m, s, RowJob(k))'
      BY <1>4, <2>6, <3>1 DEF Shared, Teams
    <3>. QED
      BY <2>5, <2>6, <3>2
  <2>. QED
    BY <2>1, <2>2, <2>3, <2>4, <2>6, HandMoves
<1>6. OnlyTheTeams'
  <2>1. /\ cloud.projects \subseteq shared
        /\ \A r \in cloud.runs : r \in Runs /\ Given(r) /\ ProjectOf(r) \in shared
        /\ \A i \in cloud.rows : i \in Rows /\ Known(i)
        /\ \A i \in cloud.rows \ cloud.adrift : fact[i].project \in shared
    BY <1>0 DEF Shared, OnlyTheTeams, Shape, TypeOK, Tables
  <2>2. CASE UNCHANGED <<cloud, overtaken>>
    <3>1. \A r \in cloud.runs : ProjectOf(r)' = ProjectOf(r)
      BY <1>0, <2>1, KnownKept
    <3>2. \A i \in cloud.rows : fact'[i] = fact[i]
      BY <1>0, <2>1, KnownKept
    <3>. QED
      BY <1>1, <2>1, <2>2, <3>1, <3>2 DEF OnlyTheTeams
  <2>3. CASE UNCHANGED <<org, session, fact, gate, shared>> /\ CloudGains
    <3>0. \A r : ProjectOf(r)' = ProjectOf(r)
      BY <2>3 DEF ProjectOf
    <3>1. ASSUME NEW m \in Machines, NEW p \in Projects, PutProject(m, p), Pushes(m, p) PROVE OnlyTheTeams'
      <4>1. p \in shared
        BY <3>1 DEF Pushes, Shared, Teams
      <4>2. /\ cloud'.projects = cloud.projects \cup {p} /\ cloud'.runs = cloud.runs
            /\ cloud'.rows = cloud.rows /\ cloud'.adrift = cloud.adrift
        BY <3>1, PutProjectKept
      <4>. QED
        BY <2>1, <2>3, <3>0, <4>1, <4>2 DEF OnlyTheTeams
    <3>2. ASSUME NEW r \in Runs, PutRun(r), ProjectOf(r) \in shared PROVE OnlyTheTeams'
      <4>1. /\ cloud'.projects = cloud.projects
            /\ cloud'.rows = cloud.rows /\ cloud'.adrift = cloud.adrift
            /\ cloud'.runs \subseteq cloud.runs \cup {r}
        BY <3>2, PutRunKept
      <4>. QED
        BY <2>1, <2>3, <3>0, <3>2, <4>1 DEF OnlyTheTeams
    <3>3. ASSUME NEW i \in Rows, cloud' = [cloud EXCEPT !.rows = @ \cup {i}], fact[i].project \in shared
          PROVE  OnlyTheTeams'
      <4>1. /\ cloud'.projects = cloud.projects /\ cloud'.runs = cloud.runs
            /\ cloud'.rows = cloud.rows \cup {i} /\ cloud'.adrift = cloud.adrift
        BY <1>0, <3>3, CloudPuts
      <4>. QED
        BY <2>1, <2>3, <3>0, <3>3, <4>1 DEF OnlyTheTeams
    <3>6. ASSUME NEW i \in Rows,
                 cloud' = [cloud EXCEPT !.rows = @ \cup {i}, !.adrift = @ \cup ({i} \ cloud.rows)]
          PROVE  OnlyTheTeams'
      <4>1. /\ cloud'.projects = cloud.projects /\ cloud'.runs = cloud.runs
            /\ cloud'.rows = cloud.rows \cup {i} /\ cloud'.adrift = cloud.adrift \cup ({i} \ cloud.rows)
        BY <1>0, <3>6, CloudPuts
      <4>2. cloud'.rows \ cloud'.adrift \subseteq cloud.rows \ cloud.adrift
        BY <4>1
      <4>. QED
        BY <2>1, <2>3, <3>0, <4>1, <4>2 DEF OnlyTheTeams
    <3>4. ASSUME NEW m \in Machines, NEW i \in Rows, Holds(m, "run", RowJob(i)), Known(i),
                 fact[i].run \in Runs
          PROVE  ProjectOf(fact[i].run) \in shared
      BY <1>4, <3>4 DEF Known, Teams
    <3>5. ASSUME NEW i \in Rows, Known(i), fact[i].run \in cloud.runs \/ fact[i].project \in cloud.projects
          PROVE  fact[i].project \in shared
      BY <2>1, <3>5 DEF Known
    <3>. QED
      BY <2>1, <2>3, <3>1, <3>2, <3>3, <3>4, <3>5, <3>6 DEF CloudGains
  <2>. QED
    BY <2>2, <2>3, CloudMoves
<1>. QED
  BY <1>2, <1>5, <1>6 DEF Shared

\* All the cloud ever has of projects, runs and rows belongs to projects that some
\* machine once had under the team's organisation: a solo project's rows are skipped
\* before their parents are pushed, those read without a run or after it has gone are
\* stopped by the foreign key, and only what a reset left adrift passes both.
THEOREM OnlyTheTeamsAlways == Spec => []OnlyTheTeams
<1>1. Init => Shared
  <2>. SUFFICES ASSUME Init PROVE Shared
    OBVIOUS
  <2>1. OnlyTheTeams
    BY DEF Init, OnlyTheTeams
  <2>2. \A m \in Machines, step \in Steps : \A j : ~Holds(m, step, j)
    BY DEF Init, Holds, Idle, Steps
  <2>. QED
    BY <2>1, <2>2 DEF Init, Shared, Steps
<1>2. Shared => OnlyTheTeams
  BY DEF Shared
<1>. QED
  BY <1>1, <1>2, InitTInv, StepTInv, StepShared, PTL DEF Spec
-----------------------------------------------------------------------------
(* One project, two lives *)

\* A project that machine m has solo, or is about to demote.
Parts(m, p) == org[m][p] = "solo" \/ gate[m] = p

\* Only its own machine knows a project the cloud has not seen.
Apart ==
  /\ \A m \in Machines, p \in Projects : Parts(m, p) /\ p \in cloud.projects => p \in overtaken
  /\ \A p \in Projects : p \in cloud.projects => \E n \in Machines : Has(n, p)
  /\ \A m, n \in Machines, p \in Projects : Has(m, p) /\ Has(n, p) /\ m # n => p \in cloud.projects

\* demote's gate is set for a project the cloud does not have.
LEMMA GateMoves ==
  ASSUME TInv, [Next]_vars, NEW n \in Machines
  PROVE  \/ gate'[n] = gate[n]
         \/ gate'[n] = None
         \/ gate'[n] \notin cloud.projects /\ cloud' = cloud /\ org' = org
<1>0. TypeOK
  BY DEF TInv
<1>1. ASSUME NEW m \in Machines, Users(m), ~Flip(m), ~ \E p \in Projects : Demote(m, p)
      PROVE  gate' = gate
  BY <1>1 DEF Users, Register, Promote, RecordUnbound, OpenRun, Link, Record, AddRow, QueueRow
<1>2. ASSUME NEW m \in Machines, NEW p \in Projects, Demote(m, p)
      PROVE  gate'[n] = gate[n] \/ (gate'[n] \notin cloud.projects /\ cloud' = cloud /\ org' = org)
  BY <1>0, <1>2 DEF Demote, TypeOK, tables
<1>3. ASSUME NEW m \in Machines, Flip(m) PROVE gate'[n] = gate[n] \/ gate'[n] = None
  BY <1>0, <1>3 DEF Flip, TypeOK
<1>4. ASSUME NEW m \in Machines, Daemon(m) PROVE gate' = gate
  BY <1>4 DEF Daemon, Claim, ClaimProject, ClaimRun, ClaimRow, ReadParents, Skip, Take, Insert,
              UpsertProject, UpsertRun, EnsureProject, EnsureRun, InsertRow, InsertAdrift, Fail,
              PullProjects, PullRuns, PullRows
<1>5. ASSUME NEW m \in Machines, Resetting(m) PROVE gate' = gate
  BY <1>5, ResettingKept
<1>6. CASE UNCHANGED vars
  BY <1>6 DEF vars
<1>. QED
  BY <1>1, <1>2, <1>3, <1>4, <1>5, <1>6 DEF Next

LEMMA StepApart == TInv /\ Apart /\ [Next]_vars => Apart'
<1>. SUFFICES ASSUME TInv, Apart, [Next]_vars PROVE Apart'
  OBVIOUS
<1>0. TypeOK /\ Shape /\ Kept
  BY StepKept DEF TInv
<1>1. \A m \in Machines, p \in Projects : Has(m, p) => Has(m, p)'
  BY <1>0 DEF Kept
<1>2. cloud.projects \subseteq cloud'.projects
  BY <1>0 DEF Kept
<1>3. CASE UNCHANGED <<org, session, fact, gate, shared>> /\ CloudGains
  <2>1. ASSUME cloud'.projects = cloud.projects, overtaken \subseteq overtaken' PROVE Apart'
    BY <1>3, <2>1 DEF Apart, Parts, Has
  <2>2. ASSUME NEW m \in Machines, NEW p \in Projects, PutProject(m, p), Has(m, p) PROVE Apart'
    <3>1. cloud'.projects = cloud.projects \cup {p} /\ overtaken \subseteq overtaken'
      BY <2>2, PutProjectKept
    <3>2. ASSUME NEW n \in Machines, Parts(n, p) PROVE p \in overtaken'
      <4>1. Has(n, p)
        BY <1>0, <3>2 DEF Parts, Has, Shape, TypeOK
      <4>2. CASE p \in cloud.projects
        BY <3>1, <3>2, <4>2 DEF Apart
      <4>3. CASE p \notin cloud.projects
        <5>1. m = n
          BY <2>2, <4>1, <4>3 DEF Apart
        <5>. QED
          BY <2>2, <3>2, <4>3, <5>1 DEF PutProject, Parts
      <4>. QED
        BY <4>2, <4>3
    <3>3. \A n \in Machines, q \in Projects :
            (Parts(n, q) /\ q \in cloud.projects => q \in overtaken)'
      BY <1>3, <3>1, <3>2 DEF Apart, Parts
    <3>4. \A q \in Projects : (q \in cloud.projects => \E n \in Machines : Has(n, q))'
      BY <1>1, <2>2, <3>1 DEF Apart
    <3>5. \A n, k \in Machines, q \in Projects : (Has(n, q) /\ Has(k, q) /\ n # k => q \in cloud.projects)'
      BY <1>3, <3>1 DEF Apart, Has
    <3>. QED
      BY <3>3, <3>4, <3>5 DEF Apart
  <2>3. ASSUME NEW r \in Runs, PutRun(r), UNCHANGED overtaken PROVE Apart'
    BY <2>1, <2>3, PutRunKept
  <2>4. ASSUME NEW i \in Rows, RowPut(i), UNCHANGED overtaken PROVE Apart'
    BY <1>0, <2>1, <2>4, RowPutKept
  <2>. QED
    BY <1>3, <2>2, <2>3, <2>4 DEF CloudGains, RowPut
<1>4. CASE UNCHANGED <<cloud, overtaken>>
  <2>1. \A p \in Projects : (p \in cloud.projects => \E n \in Machines : Has(n, p))'
    BY <1>1, <1>4 DEF Apart
  <2>2. ASSUME NEW m \in Machines, NEW p \in Projects, gate'[m] = p, p \in cloud.projects
        PROVE  p \in overtaken
    BY <1>0, <2>2, GateMoves DEF Apart, Parts
  <2>3. CASE org' = org
    BY <1>4, <2>1, <2>2, <2>3 DEF Apart, Parts, Has
  <2>4. ASSUME NEW m \in Machines, NEW p \in Projects, NEW o \in {"solo", "team"}, SetOrg(m, p, o),
               Has(m, p) \/ p \in cloud.projects \/ \A n \in Machines : ~Has(n, p),
               o = "solo" => gate[m] = p \/ \A n \in Machines : ~Has(n, p)
        PROVE  Apart'
    <3>1. \A n \in Machines, q \in Projects : ~(n = m /\ q = p) => org'[n][q] = org[n][q]
      BY <1>0, <2>4 DEF SetOrg, TypeOK
    <3>2. org'[m][p] = o
      BY <1>0, <2>4 DEF SetOrg, TypeOK
    <3>3. o = "solo" /\ p \in cloud.projects => p \in overtaken
      BY <2>4 DEF Apart, Parts
    <3>4. \A n \in Machines, q \in Projects :
            (Parts(n, q) /\ q \in cloud.projects => q \in overtaken)'
      BY <1>4, <2>2, <3>1, <3>2, <3>3 DEF Apart, Parts
    <3>5. \A n, k \in Machines, q \in Projects : (Has(n, q) /\ Has(k, q) /\ n # k => q \in cloud.projects)'
      BY <1>4, <2>4, <3>1 DEF Apart, Has
    <3>. QED
      BY <2>1, <3>4, <3>5 DEF Apart
  <2>5. ASSUME NEW m \in Machines, PullProjects(m) PROVE Apart'
    <3>1. \A n \in Machines, q \in Projects :
            org'[n][q] = org[n][q] \/ (org'[n][q] = "team" /\ q \in cloud.projects)
      BY <1>0, <2>5 DEF PullProjects, TypeOK
    <3>2. \A n \in Machines, q \in Projects :
            (Parts(n, q) /\ q \in cloud.projects => q \in overtaken)'
      BY <1>4, <2>2, <3>1 DEF Apart, Parts
    <3>3. \A n, k \in Machines, q \in Projects : (Has(n, q) /\ Has(k, q) /\ n # k => q \in cloud.projects)'
      BY <1>4, <3>1 DEF Apart, Has
    <3>. QED
      BY <2>1, <3>2, <3>3 DEF Apart
  <2>. QED
    BY <2>3, <2>4, <2>5, OrgMoves
<1>. QED
  BY <1>3, <1>4, CloudMoves

\* A project that is solo here and in the cloud was pushed by a job that overtook
\* demote, after its question or after its write: nothing else splits a project.
THEOREM SplitOnlyIfOvertakenAlways == Spec => []SplitOnlyIfOvertaken
<1>1. Init => Apart
  BY DEF Init, Apart, Has
<1>2. Apart => SplitOnlyIfOvertaken
  BY DEF Apart, Parts, SplitOnlyIfOvertaken
<1>. QED
  BY <1>1, <1>2, InitTInv, StepTInv, StepApart, PTL DEF Spec

-----------------------------------------------------------------------------
(* No row is dropped *)

LEMMA StepDropped == TInv /\ NothingDropped /\ [Next]_vars => NothingDropped'
<1>. SUFFICES ASSUME TInv, NothingDropped, [Next]_vars PROVE NothingDropped'
  OBVIOUS
<1>0. TypeOK /\ Shape /\ Kept
  BY StepKept DEF TInv
<1>1. cloud.rows \subseteq cloud'.rows
  BY <1>0 DEF Kept
<1>2. ASSUME skipped \subseteq skipped', unqueued' = unqueued,
             \A n \in Machines : /\ rows'[n] \subseteq rows[n]
                                /\ \A i \in rows[n] : RowJob(i) \in jobs[n] =>
                                      RowJob(i) \in jobs'[n] \/ i \in cloud'.rows \cup skipped'
      PROVE  NothingDropped'
  BY <1>1, <1>2 DEF NothingDropped
<1>3. ASSUME UNCHANGED <<rows, jobs, skipped, unqueued>> PROVE NothingDropped'
  BY <1>2, <1>3
<1>4. ASSUME NEW m \in Machines, NEW j, UNCHANGED <<rows, skipped, unqueued>>,
             jobs' = [jobs EXCEPT ![m] = @ \ {j}],
             \A i \in Rows : j = RowJob(i) => i \in cloud'.rows
      PROVE  NothingDropped'
  <2>1. \A n \in Machines : \A k : k \in jobs[n] => k \in jobs'[n] \/ k = j
    BY <1>0, <1>4 DEF TypeOK
  <2>2. \A n \in Machines : \A i \in rows[n] : i \in Rows
    BY <1>0 DEF TypeOK
  <2>. QED
    BY <1>2, <1>4, <2>1, <2>2
<1>5. ASSUME NEW m \in Machines, NEW j, Enqueue(m, j) \/ UNCHANGED jobs,
             UNCHANGED <<rows, skipped, unqueued>>
      PROVE  NothingDropped'
  <2>1. \A n \in Machines : jobs[n] \subseteq jobs'[n]
    BY <1>0, <1>5 DEF Enqueue, TypeOK
  <2>. QED
    BY <1>2, <1>5, <2>1
<1>6. ASSUME NEW m \in Machines, Users(m) PROVE NothingDropped'
  <2>1. ASSUME NEW p \in Projects, NEW o \in {"solo", "team"}, Register(m, p, o) PROVE NothingDropped'
    BY <1>5, <2>1 DEF Register, TryEnqueue
  <2>2. ASSUME NEW p \in Projects, Promote(m, p) PROVE NothingDropped'
    BY <1>5, <2>2 DEF Promote, TryEnqueue
  <2>3. ASSUME NEW p \in Projects, Demote(m, p) PROVE NothingDropped'
    BY <1>3, <2>3 DEF Demote, tables, history
  <2>4. CASE Flip(m)
    <3>1. rows' = rows /\ unqueued' = unqueued /\ jobs' = [jobs EXCEPT ![m] = @ \ Named(gate[m])]
      BY <2>4 DEF Flip
    <3>2. skipped' = skipped \cup {i \in Rows : RowJob(i) \in jobs[m] \cap Named(gate[m])}
      BY <2>4 DEF Flip
    <3>3. \A n \in Machines : \A k : k \in jobs[n] =>
            k \in jobs'[n] \/ (n = m /\ k \in Named(gate[m]))
      BY <1>0, <3>1 DEF TypeOK
    <3>4. \A n \in Machines : \A i \in rows[n] : i \in Rows
      BY <1>0 DEF TypeOK
    <3>5. ASSUME NEW n \in Machines, NEW i \in rows[n], RowJob(i) \in jobs[n]
          PROVE  RowJob(i) \in jobs'[n] \/ i \in skipped'
      BY <3>2, <3>3, <3>4, <3>5
    <3>. QED
      BY <1>2, <3>1, <3>2, <3>5
  <2>5. ASSUME NEW s \in Sessions, OpenRun(m, s) PROVE NothingDropped'
    BY <1>3, <2>5 DEF OpenRun, history
  <2>6. ASSUME NEW r \in Runs, Link(m, r) PROVE NothingDropped'
    BY <1>5, <2>6 DEF Link, tables, history
  <2>7. ASSUME NEW f, AddRow(m, f) PROVE NothingDropped'
    <3>1. PICK i \in Rows : /\ rows' = [rows EXCEPT ![m] = @ \cup {i}]
                            /\ unqueued' = [unqueued EXCEPT ![m] = @ \cup {i}]
      BY <2>7 DEF AddRow
    <3>2. \A n \in Machines : unqueued[n] \subseteq unqueued'[n] /\ (n # m => rows'[n] = rows[n])
      BY <1>0, <3>1 DEF TypeOK
    <3>3. rows'[m] = rows[m] \cup {i} /\ i \in unqueued'[m]
      BY <1>0, <3>1 DEF TypeOK
    <3>4. skipped' = skipped /\ jobs' = jobs
      BY <2>7 DEF AddRow, history
    <3>. QED
      BY <1>1, <3>2, <3>3, <3>4 DEF NothingDropped
  <2>8. ASSUME NEW i \in Rows, QueueRow(m, i) PROVE NothingDropped'
    <3>1. rows' = rows /\ skipped' = skipped
      BY <2>8 DEF QueueRow, tables, history
    <3>2. \A n \in Machines : jobs[n] \subseteq jobs'[n] /\ (n # m => unqueued'[n] = unqueued[n])
      BY <1>0, <2>8 DEF QueueRow, Enqueue, TypeOK
    <3>3. unqueued'[m] = unqueued[m] \ {i} /\ RowJob(i) \in jobs'[m]
      BY <1>0, <2>8 DEF QueueRow, Enqueue, TypeOK
    <3>. QED
      BY <1>1, <3>1, <3>2, <3>3 DEF NothingDropped
  <2>. QED
    BY <1>6, <2>1, <2>2, <2>3, <2>4, <2>5, <2>6, <2>7, <2>8 DEF Users, Record, RecordUnbound
<1>16. ASSUME NEW m \in Machines, Resetting(m) PROVE NothingDropped'
  <2>1. UNCHANGED <<unqueued, jobs, skipped>>
    BY <1>16, ResettingKept DEF history
  <2>2. \A n \in Machines : rows'[n] \subseteq rows[n]
    <3>1. ASSUME NEW S, Delete(m, S) PROVE \A n \in Machines : rows'[n] \subseteq rows[n]
      BY <1>0, <3>1 DEF Delete, TypeOK
    <3>2. CASE ResetRuns(m) \/ ResetStops(m)
      BY <3>2 DEF ResetRuns, ResetStops, tables
    <3>. QED
      BY <1>16, <3>1, <3>2 DEF Resetting, Reset, ResetEvents, ResetPacks
  <2>. QED
    BY <1>2, <2>1, <2>2
<1>7. ASSUME NEW m \in Machines, Claim(m) \/ ReadParents(m) PROVE NothingDropped'
  <2>1. ASSUME NEW j, NEW step, Take(m, j, step) PROVE NothingDropped'
    BY <1>3, <2>1 DEF Take, localVars, tables, history
  <2>2. ASSUME NEW j, Skip(m, j) PROVE NothingDropped'
    <3>1. \A n \in Machines : \A k : k \in jobs[n] => k \in jobs'[n] \/ k = j
      BY <1>0, <2>2 DEF Skip, TypeOK
    <3>2. \A i : RowJob(i) = j => j.table = "rows" /\ j.id = i
      BY DEF RowJob
    <3>3. skipped \subseteq skipped' /\ (j.table = "rows" => j.id \in skipped')
      BY <2>2 DEF Skip
    <3>. QED
      BY <1>2, <2>2, <3>1, <3>2, <3>3 DEF Skip, localVars, tables
  <2>. QED
    BY <1>7, <2>1, <2>2 DEF Claim, ClaimProject, ClaimRun, ClaimRow, ReadParents
<1>8. ASSUME NEW m \in Machines, Done(m), UNCHANGED <<rows, skipped, unqueued>>,
             \A i \in Rows : hand[m].job = RowJob(i) => i \in cloud'.rows
      PROVE  NothingDropped'
  <2>1. jobs' = [jobs EXCEPT ![m] = @ \ {hand[m].job}]
    BY <1>8 DEF Done
  <2>. QED
    BY <1>4, <1>8, <2>1
<1>9. ASSUME NEW m \in Machines, UpsertProject(m) PROVE NothingDropped'
  <2>1. PICK p \in Projects : hand[m].job = ProjectJob(p)
    BY <1>9, HandOf DEF UpsertProject
  <2>2. \A i \in Rows : hand[m].job # RowJob(i)
    BY <2>1 DEF ProjectJob, RowJob
  <2>. QED
    BY <1>8, <1>9, <2>2 DEF UpsertProject, localVars, tables
<1>10. ASSUME NEW m \in Machines, UpsertRun(m) PROVE NothingDropped'
  <2>1. PICK r \in Runs : hand[m].job = RunJob(r)
    BY <1>10, HandOf DEF UpsertRun
  <2>2. \A i \in Rows : hand[m].job # RowJob(i)
    BY <2>1 DEF RunJob, RowJob
  <2>. QED
    BY <1>8, <1>10, <2>2 DEF UpsertRun, localVars, tables, history
<1>11. ASSUME NEW m \in Machines, EnsureProject(m) \/ EnsureRun(m) \/ Fail(m) PROVE NothingDropped'
  BY <1>3, <1>11 DEF EnsureProject, EnsureRun, Fail, Go, localVars, tables, history
<1>12. ASSUME NEW m \in Machines, InsertRow(m) \/ InsertAdrift(m) PROVE NothingDropped'
  <2>1. PICK i \in Rows : hand[m].job = RowJob(i) /\ hand[m].job.id = i
    BY <1>12, HandOf DEF InsertRow, InsertAdrift
  <2>2. RowPut(i)
    BY <1>12, <2>1 DEF InsertRow, InsertAdrift, RowPut
  <2>3. i \in cloud'.rows
    BY <1>0, <2>2, RowPutKept
  <2>4. \A k \in Rows : hand[m].job = RowJob(k) => k \in cloud'.rows
    BY <2>1, <2>3 DEF RowJob
  <2>. QED
    BY <1>8, <1>12, <2>4 DEF InsertRow, InsertAdrift, localVars, tables, history
<1>13. ASSUME NEW m \in Machines, PullProjects(m) \/ PullRuns(m) PROVE NothingDropped'
  BY <1>3, <1>13 DEF PullProjects, PullRuns, history
<1>14. ASSUME NEW m \in Machines, PullRows(m) PROVE NothingDropped'
  <2>1. Arriving(m) \subseteq cloud.rows
    BY DEF Arriving, Newest, OfKind
  <2>2. /\ rows' = [rows EXCEPT ![m] = @ \cup Arriving(m)]
        /\ UNCHANGED <<cloud, jobs, skipped, unqueued>>
    BY <1>14 DEF PullRows, history
  <2>3. \A n \in Machines : \A i \in rows'[n] : i \in rows[n] \/ i \in Arriving(m)
    BY <1>0, <2>2 DEF TypeOK
  <2>. QED
    BY <2>1, <2>2, <2>3 DEF NothingDropped
<1>15. CASE UNCHANGED vars
  BY <1>3, <1>15 DEF vars, localVars, tables, history
<1>. QED
  BY <1>6, <1>7, <1>9, <1>10, <1>11, <1>12, <1>13, <1>14, <1>15, <1>16 DEF Next, Daemon, Insert

\* A row some machine has is in the cloud, or still queued, or was passed over while
\* its project was solo, or its enqueue was never made: once it is queued no failed
\* push, reset, takeover or pull loses it.
THEOREM NothingDroppedAlways == Spec => []NothingDropped
<1>1. Init => NothingDropped
  BY DEF Init, NothingDropped
<1>. QED
  BY <1>1, InitTInv, StepTInv, StepDropped, PTL DEF Spec
=============================================================================
