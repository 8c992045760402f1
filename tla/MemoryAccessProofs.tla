------------------------- MODULE MemoryAccessProofs -------------------------
(***************************************************************************)
(* What the telemetry tables keep, for every number of runs, projects, items *)
(* and days, and every retention.                                           *)
(***************************************************************************)
EXTENDS MemoryAccess, TLAPS

USE MemoryAssumption, GrainAssumption DEF Days, Gens, Ids, Payload, Row, NoPush

LEMMA InitTypeOK == Init => TypeOK
BY DEF Init, TypeOK

LEMMA RecordPushTyped ==
  ASSUME TypeOK, NEW r \in Runs, NEW site \in {"manifest", "teach"}, NEW g \in Gens,
         RecordPush(site, r, g)
  PROVE  recording' \subseteq Payload /\ accesses' \in 0..MaxAccesses
<1>1. \A i \in Items : PushPayload(site, r, g, i) \in Payload
  BY DEF PushPayload
<1>. QED
  BY <1>1 DEF TypeOK, RecordPush

\* The steps of the hooks, of the log and of the clock.
LEMMA HooksKeepTypeOK ==
  ASSUME TypeOK, NEW r \in Runs, HookStep(r)
  PROVE  TypeOK'
<1> USE DEF TypeOK, logVars, passVars, cloudVars
<1>1. CASE PostCompact(r)
  BY <1>1 DEF PostCompact
<1>2. CASE SessionStart(r) \/ Prompt(r)
  <2>1. PICK g \in Gens : /\ waiting' = [waiting EXCEPT ![r] = @ \cup {g}]
                         /\ RecordPush("manifest", r, g)
    BY <1>2 DEF SessionStart, Prompt, GenerationRead
  <2>2. recording' \subseteq Payload /\ accesses' \in 0..MaxAccesses
    BY <2>1, RecordPushTyped
  <2>. QED
    BY <2>1, <2>2 DEF RecordPush
<1>3. CASE Refuse(r)
  <2>1. PICK g \in Gens : RecordPush("teach", r, g)
    BY <1>3 DEF Refuse, GenerationRead
  <2>2. recording' \subseteq Payload /\ accesses' \in 0..MaxAccesses
    BY <2>1, RecordPushTyped
  <2>. QED
    BY <1>3, <2>1, <2>2 DEF RecordPush, Refuse
<1>4. ASSUME NEW g \in waiting[r], Answer(r, g) \/ TimeOut(r, g) PROVE TypeOK'
  BY <1>4 DEF Answer, TimeOut
<1>. QED
  BY <1>1, <1>2, <1>3, <1>4 DEF HookStep

LEMMA LogKeepsTypeOK ==
  ASSUME TypeOK,
         \/ \E p \in recording : Record(p)
         \/ \E a \in PullArgs : Pull(a)
         \/ \E j \in jobs : Land(j)
         \/ Midnight
  PROVE  TypeOK'
<1> USE DEF TypeOK, hookVars, logVars, passVars, cloudVars
<1>1. ASSUME NEW p \in recording, Record(p) PROVE TypeOK'
  BY <1>1 DEF Record
<1>2. ASSUME NEW a \in PullArgs, Pull(a) PROVE TypeOK'
  <2>1. PullPayload(accesses + 1, a) \in Payload
    BY <1>2 DEF Pull, PullPayload
  <2>. QED
    BY <1>2, <2>1 DEF Pull
<1>3. ASSUME NEW j \in jobs, Land(j) PROVE TypeOK'
  <2>1. [access |-> j, day |-> day] \in Row
    OBVIOUS
  <2>. QED
    BY <1>3, <2>1 DEF Land
<1>4. CASE Midnight
  BY <1>4 DEF Midnight
<1>. QED
  BY <1>1, <1>2, <1>3, <1>4

LEMMA PassKeepsTypeOK ==
  ASSUME TypeOK, RollupStep \/ PassCut
  PROVE  TypeOK'
<1> USE DEF TypeOK, hookVars, logVars, cloudVars
<1>1. CASE DeleteDaily
  BY <1>1 DEF DeleteDaily
<1>2. CASE InsertDaily
  BY <1>2 DEF InsertDaily, Finished
<1>3. CASE DeleteCohorts
  BY <1>3 DEF DeleteCohorts
<1>4. CASE InsertCohorts
  BY <1>4 DEF InsertCohorts, Cohorted
<1>5. CASE Prune
  BY <1>5 DEF Prune
<1>6. CASE EnqueueRollupSync
  BY <1>6 DEF EnqueueRollupSync, Enqueued, Queueable
<1>7. CASE PassCut
  BY <1>7 DEF PassCut
<1>. QED
  BY <1>1, <1>2, <1>3, <1>4, <1>5, <1>6, <1>7 DEF RollupStep

LEMMA PushKeepsTypeOK ==
  ASSUME TypeOK, PushStep
  PROVE  TypeOK'
<1> USE DEF TypeOK, hookVars, logVars, passVars, cloudVars
<1>1. ASSUME NEW g \in syncJobs, ReadGrain(g) PROVE TypeOK'
  BY <1>1 DEF ReadGrain, OfDay, OfCohort
<1>2. CASE UpsertGrain
  BY <1>2 DEF UpsertGrain, Upsert, OfDay, OfCohort
<1>3. CASE PushFails
  BY <1>3 DEF PushFails
<1>4. CASE PushGivenUp
  BY <1>4 DEF PushGivenUp
<1>. QED
  BY <1>1, <1>2, <1>3, <1>4 DEF PushStep

LEMMA NextTypeOK == TypeOK /\ [Next]_vars => TypeOK'
<1> SUFFICES ASSUME TypeOK, [Next]_vars PROVE TypeOK'
  OBVIOUS
<1>1. CASE UNCHANGED vars
  BY <1>1 DEF TypeOK, vars, hookVars, logVars, passVars, cloudVars
<1>. QED
  BY <1>1, HooksKeepTypeOK, LogKeepsTypeOK, PassKeepsTypeOK, PushKeepsTypeOK DEF Next

\* Type correctness: every row, job, grain and push in hand of the telemetry has
\* the fields its table declares.
THEOREM TypeCorrect == Spec => []TypeOK
BY InitTypeOK, NextTypeOK, PTL DEF Spec

-----------------------------------------------------------------------------
(* The log and the daily read model *)

\* The daily rows a push read and has in hand.
Held == IF push.grain \in DailyGrains THEN push.rows ELSE {}

\* Why NothingLost is kept: the daily rows are of days before the pass's date; a
\* day leaves the log as a whole; and from the INSERT to the prune the finished
\* days of the log are counted.
Counting ==
  /\ today <= day /\ \A e \in landed : e.day <= day
  /\ raw \subseteq landed /\ daily \subseteq landed
  /\ \A e \in daily \cup cloudDaily \cup Held : e.day < today
  /\ \A e \in landed \ raw, f \in raw : e.day # f.day
  /\ pass \in {"deleteCohorts", "insertCohorts", "prune"} =>
       \A f \in raw : f.day < today => f \in daily

\* What a push will put in the cloud counts the whole day too.
HeldWhole ==
  /\ \A e \in Held : DailyGrain(e) = push.grain
  /\ \A e \in landed : DailyGrain(e) \in Grouped(Held) => e \in Held

Kept == Counting /\ NothingLost /\ NoPartialDay /\ HeldWhole

DInv == TypeOK /\ Kept

LEMMA InitKept == Init => Kept
BY DEF Init, Kept, Counting, NothingLost, NoPartialDay, HeldWhole, Held, Grouped

LEMMA GroupedHas ==
  ASSUME NEW S, NEW e
  PROVE  DailyGrain(e) \in Grouped(S) <=>
           \E f \in S : f.access.project = e.access.project /\ f.day = e.day
BY DEF Grouped, DailyGrain

\* Steps that leave the push in hand and the log's history alone.
LEMMA HeldKept ==
  ASSUME DInv, UNCHANGED <<landed, push>>
  PROVE  HeldWhole' /\ UNCHANGED Held
BY DEF DInv, Kept, HeldWhole, Held, Grouped, DailyGrain

\* Steps that touch neither the log nor the daily rows nor the pass.
LEMMA ElsewhereKept ==
  ASSUME DInv, UNCHANGED <<raw, landed, day, today, daily, cloudDaily, push>>,
         pass' \in {"deleteCohorts", "insertCohorts", "prune"} =>
           pass \in {"deleteCohorts", "insertCohorts", "prune"}
  PROVE  Kept'
BY HeldKept DEF DInv, Kept, Counting, NothingLost, NoPartialDay, Grouped, DailyGrain

LEMMA LandKept ==
  ASSUME DInv, NEW j \in jobs, Land(j)
  PROVE  Kept'
<1> USE DEF DInv, TypeOK, Kept, Land, hookVars, passVars, cloudVars
<1>1. CASE UNCHANGED <<raw, landed>>
  BY <1>1, ElsewhereKept
<1>2. CASE ~UNCHANGED <<raw, landed>>
  <2> DEFINE e == [access |-> j, day |-> day]
  <2>1. /\ raw' = raw \cup {e} /\ landed' = landed \cup {e} /\ e.day = day
        /\ UNCHANGED <<day, today, pass, daily, cloudDaily, push, Held>>
    BY <1>2 DEF Held
  <2>2. Counting'
    <3>1. \A x \in landed' \ raw' : x \in daily /\ x.day < day
      BY <2>1 DEF Counting, NothingLost
    <3>2. \A x \in landed' \ raw', f \in raw' : x.day # f.day
      BY <2>1, <3>1 DEF Counting
    <3>. QED
      BY <2>1, <3>2 DEF Counting
  <2>3. NothingLost'
    BY <2>1 DEF NothingLost
  <2>4. /\ DailyGrain(e) \notin Grouped(daily) /\ DailyGrain(e) \notin Grouped(cloudDaily)
        /\ DailyGrain(e) \notin Grouped(Held)
    BY <2>1, GroupedHas DEF Counting
  <2>5. NoPartialDay'
    BY <2>1, <2>4 DEF NoPartialDay, Grouped, DailyGrain
  <2>6. HeldWhole'
    BY <2>1, <2>4 DEF HeldWhole, Grouped, DailyGrain
  <2>. QED
    BY <2>2, <2>3, <2>5, <2>6
<1>. QED
  BY <1>1, <1>2

LEMMA MidnightKept ==
  ASSUME DInv, Midnight
  PROVE  Kept'
BY HeldKept DEF DInv, TypeOK, Kept, Counting, NothingLost, NoPartialDay, Grouped, DailyGrain,
       Midnight, hookVars, logVars, passVars, cloudVars

LEMMA DeleteDailyKept ==
  ASSUME DInv, DeleteDaily
  PROVE  Kept'
<1> USE DEF DInv, TypeOK, Kept, hookVars, logVars, cloudVars
<1>1. /\ UNCHANGED <<raw, landed, day, cloudDaily>> /\ pass' = "insertDaily" /\ today' = day
      /\ daily' \subseteq daily
      /\ \A e \in daily : e \notin daily' => \E f \in raw : f.day = e.day
      /\ \A e, f \in daily : e \in daily' /\ f.day = e.day => f \in daily'
  BY DEF DeleteDaily
<1>2. HeldWhole' /\ UNCHANGED Held
  BY HeldKept DEF DeleteDaily
<1>3. Counting'
  <2>1. Held \subseteq Row
    BY DEF Held, NoPush
  <2>2. \A e \in Row : e.day < today => e.day < today'
    BY <1>1 DEF Counting
  <2>3. \A e \in (daily \cup cloudDaily \cup Held)' : e.day < today'
    BY <1>1, <1>2, <2>1, <2>2 DEF Counting
  <2>. QED
    BY <1>1, <2>3 DEF Counting
<1>4. NothingLost'
  BY <1>1 DEF Counting, NothingLost
<1>5. NoPartialDay'
  <2>1. ASSUME NEW e \in landed, DailyGrain(e) \in Grouped(daily') PROVE e \in daily'
    <3>1. PICK f \in daily' : f.access.project = e.access.project /\ f.day = e.day
      BY <2>1, GroupedHas
    <3>2. DailyGrain(e) \in Grouped(daily)
      BY <3>1, <1>1, GroupedHas
    <3>. QED
      BY <3>1, <3>2, <1>1 DEF NoPartialDay
  <2>. QED
    BY <2>1, <1>1 DEF NoPartialDay, Grouped, DailyGrain
<1>. QED
  BY <1>2, <1>3, <1>4, <1>5

LEMMA InsertDailyKept ==
  ASSUME DInv, InsertDaily
  PROVE  Kept'
<1> USE DEF DInv, TypeOK, Kept, hookVars, logVars, cloudVars
<1>1. CASE UNCHANGED daily
  <2>1. pass' = "cut" \/ Finished \subseteq daily
    BY <1>1 DEF InsertDaily
  <2>2. UNCHANGED <<raw, landed, day, today, cloudDaily, Held>> /\ HeldWhole'
    BY HeldKept DEF InsertDaily
  <2>3. Counting'
    BY <1>1, <2>1, <2>2 DEF Counting, Finished
  <2>4. NothingLost' /\ NoPartialDay'
    BY <1>1, <2>2 DEF NothingLost, NoPartialDay, Grouped, DailyGrain
  <2>. QED
    BY <2>2, <2>3, <2>4
<1>2. CASE daily' = daily \cup Finished
  <2>1. UNCHANGED <<raw, landed, day, today, cloudDaily, Held>> /\ HeldWhole'
    BY HeldKept DEF InsertDaily
  <2>2. Counting'
    BY <1>2, <2>1 DEF Counting, Finished
  <2>3. NothingLost'
    BY <1>2, <2>1 DEF NothingLost
  <2>4. ASSUME NEW e \in landed, DailyGrain(e) \in Grouped(daily') PROVE e \in daily'
    <3>1. PICK f \in daily' : f.access.project = e.access.project /\ f.day = e.day
      BY <2>4, GroupedHas
    <3>2. CASE f \in daily
      BY <1>2, <3>1, <3>2, GroupedHas DEF NoPartialDay
    <3>3. CASE f \in raw /\ f.day < today
      BY <1>2, <3>1, <3>3 DEF NothingLost, Finished
    <3>. QED
      BY <1>2, <3>1, <3>2, <3>3 DEF Finished
  <2>5. NoPartialDay'
    BY <2>1, <2>4 DEF NoPartialDay, Grouped, DailyGrain
  <2>. QED
    BY <2>1, <2>2, <2>3, <2>5
<1>. QED
  BY <1>1, <1>2 DEF InsertDaily

\* A day with a daily row is counted for every project that has a log row on it,
\* so the rows of a day are pruned together.
LEMMA PruneKept ==
  ASSUME DInv, Prune
  PROVE  Kept'
<1> USE DEF DInv, TypeOK, Kept, hookVars, cloudVars
<1>1. /\ UNCHANGED <<landed, day, today, daily, cloudDaily, Held>> /\ pass' = "sync" /\ HeldWhole'
      /\ raw' \subseteq raw
      /\ \A e \in raw : e \notin raw' <=> Prunable(e)
  BY HeldKept DEF Prune
<1>2. \A e \in raw : Prunable(e) => e \in daily
  BY DEF Prunable, NoPartialDay, Counting
<1>3. NothingLost'
  BY <1>1, <1>2 DEF NothingLost
<1>4. ASSUME NEW e \in raw, NEW f \in raw, Prunable(e), f.day = e.day PROVE Prunable(f)
  <2>1. e.day < today
    BY <1>2, <1>4 DEF Counting
  <2>2. f \in daily
    BY <2>1, <1>4 DEF Counting, Prune
  <2>. QED
    BY <2>2, <1>4, GroupedHas DEF Prunable
<1>5. \A e \in landed' \ raw', f \in raw' : e.day # f.day
  BY <1>1, <1>4 DEF Counting
<1>6. Counting'
  BY <1>1, <1>5 DEF Counting
<1>7. NoPartialDay'
  BY <1>1 DEF NoPartialDay, Grouped, DailyGrain
<1>. QED
  BY <1>1, <1>3, <1>6, <1>7

LEMMA GrainsApart ==
  ASSUME NEW g \in Grains, NEW e \in Row
  PROVE  /\ g \in DailyGrains => CohortGrain(e) # g
         /\ g \notin DailyGrains => DailyGrain(e) # g
<1>1. g \in DailyGrains => g[1] = "daily"
  BY DEF DailyGrains
<1>2. g \in CohortGrains => g[1] = "cohort"
  BY DEF CohortGrains
<1>3. CohortGrain(e)[1] = "cohort" /\ DailyGrain(e)[1] = "daily"
  BY DEF CohortGrain, DailyGrain
<1>. QED
  BY <1>1, <1>2, <1>3 DEF Grains

LEMMA ReadGrainKept ==
  ASSUME DInv, NEW g \in syncJobs, ReadGrain(g)
  PROVE  Kept'
<1> USE DEF DInv, Kept, hookVars, logVars, passVars
<1>1. /\ UNCHANGED <<raw, landed, day, today, daily, cloudDaily, pass>>
      /\ push' = [grain |-> g, rows |-> OfDay(daily, g) \cup OfCohort(cohorts, g)]
  BY DEF ReadGrain, TypeOK
<1>2. Held' \subseteq OfDay(daily, g) /\ (Held' # {} => Held' = OfDay(daily, g) /\ push'.grain = g)
  BY <1>1, GrainsApart DEF Held, OfDay, OfCohort, TypeOK
<1>3. Counting'
  BY <1>1, <1>2 DEF Counting, OfDay
<1>4. NothingLost' /\ NoPartialDay'
  BY <1>1 DEF NothingLost, NoPartialDay, Grouped, DailyGrain
<1>5. HeldWhole'
  BY <1>1, <1>2 DEF HeldWhole, NoPartialDay, Grouped, OfDay, DailyGrain
<1>. QED
  BY <1>3, <1>4, <1>5

LEMMA PushDoneKept ==
  ASSUME DInv, UpsertGrain \/ PushFails \/ PushGivenUp
  PROVE  Kept'
<1> USE DEF DInv, Kept, hookVars, logVars, passVars
<1>1. UNCHANGED <<raw, landed, day, today, daily, pass>> /\ push' = NoPush /\ Held' = {}
  BY DEF UpsertGrain, PushFails, PushGivenUp, Held
<1>2. HeldWhole'
  BY <1>1 DEF HeldWhole, Grouped
<1>3. CASE UNCHANGED cloudDaily
  BY <1>1, <1>2, <1>3 DEF Counting, NothingLost, NoPartialDay, Grouped, DailyGrain
<1>4. CASE UpsertGrain /\ push.grain \in DailyGrains
  <2> DEFINE g == push.grain
  <2>1. cloudDaily' = Upsert(cloudDaily, OfDay(cloudDaily, g), Held) /\ Held # {}
    BY <1>4 DEF UpsertGrain, Held
  <2>2. Counting' /\ NothingLost'
    BY <1>1, <2>1 DEF Counting, NothingLost, Upsert, OfDay
  <2>3. ASSUME NEW e \in landed, DailyGrain(e) \in Grouped(cloudDaily') PROVE e \in cloudDaily'
    <3>1. CASE DailyGrain(e) = g
      <4>1. PICK f \in Held : DailyGrain(f) = g
        BY <2>1 DEF HeldWhole
      <4>2. e \in Held
        BY <3>1, <4>1 DEF HeldWhole, Grouped
      <4>. QED
        BY <2>1, <4>2 DEF Upsert
    <3>2. CASE DailyGrain(e) # g
      <4>1. PICK f \in cloudDaily' : DailyGrain(f) = DailyGrain(e)
        BY <2>3 DEF Grouped
      <4>2. f \in cloudDaily
        BY <2>1, <3>2, <4>1 DEF Upsert, HeldWhole
      <4>3. e \in cloudDaily
        BY <4>1, <4>2 DEF NoPartialDay, Grouped
      <4>. QED
        BY <2>1, <3>2, <4>3 DEF Upsert, OfDay
    <3>. QED
      BY <3>1, <3>2
  <2>4. NoPartialDay'
    BY <1>1, <2>3 DEF NoPartialDay, Grouped, DailyGrain
  <2>. QED
    BY <1>2, <2>2, <2>4
<1>. QED
  BY <1>3, <1>4 DEF UpsertGrain, PushFails, PushGivenUp

LEMMA NextKept == DInv /\ [Next]_vars => Kept'
<1> SUFFICES ASSUME DInv, [Next]_vars PROVE Kept'
  OBVIOUS
<1>1. CASE UNCHANGED vars
  BY <1>1, ElsewhereKept DEF vars, hookVars, logVars, passVars, cloudVars
<1>2. ASSUME NEW r \in Runs, HookStep(r) PROVE Kept'
  BY <1>2, ElsewhereKept DEF HookStep, PostCompact, SessionStart, Prompt, Refuse, RecordPush,
                             Answer, TimeOut, logVars, passVars, cloudVars
<1>3. ASSUME NEW a \in PullArgs, Pull(a) PROVE Kept'
  BY <1>3, ElsewhereKept DEF Pull, passVars, cloudVars
<1>4. ASSUME NEW p \in recording, Record(p) PROVE Kept'
  BY <1>4, ElsewhereKept DEF Record, passVars, cloudVars
<1>5. CASE DeleteCohorts \/ InsertCohorts \/ EnqueueRollupSync \/ PassCut
  BY <1>5, ElsewhereKept DEF DeleteCohorts, InsertCohorts, EnqueueRollupSync, PassCut,
                             hookVars, logVars, passVars, cloudVars
<1>. QED
  BY <1>1, <1>2, <1>3, <1>4, <1>5, LandKept, MidnightKept, DeleteDailyKept, InsertDailyKept,
     PruneKept, ReadGrainKept, PushDoneKept DEF Next, RollupStep, PushStep

LEMMA AlwaysDInv == Spec => []DInv
<1>1. Init => DInv
  BY InitTypeOK, InitKept DEF DInv
<1>2. DInv /\ [Next]_vars => DInv'
  BY NextTypeOK, NextKept DEF DInv
<1>. QED
  BY <1>1, <1>2, PTL DEF Spec

\* "A raw row is never deleted until its day is rolled up": no access leaves the
\* telemetry, whatever the midnights, the cut passes and the retention.
THEOREM NothingLostAlways == Spec => []NothingLost
<1>1. DInv => NothingLost
  BY DEF DInv, Kept
<1>. QED
  BY AlwaysDInv, <1>1, PTL

\* A daily row counts its whole day, here and in the cloud.
THEOREM NoPartialDayAlways == Spec => []NoPartialDay
<1>1. DInv => NoPartialDay
  BY DEF DInv, Kept
<1>. QED
  BY AlwaysDInv, <1>1, PTL

-----------------------------------------------------------------------------
(* Re-emission after a compaction *)

\* A manifest hook of generation g waits for its end, or has ended.
Ran(r, g) == g \in waiting[r] \cup shown[r] \cup unanswered[r]

\* A push of the manifest is on its way, or lies in the log, only when a manifest
\* hook of its generation ran; whatever else pushes teaches.
PushExplained(p) ==
  p.channel = "push" => p.run \in Runs /\ (p.id[1] = "teach" \/ Ran(p.run, p.gen))

Pushed ==
  /\ \A p \in recording \cup jobs : PushExplained(p)
  /\ \A e \in raw : PushExplained(e.access)

LEMMA PushedReseeds == TypeOK /\ Pushed => ReseededUnlessTaught
<1> SUFFICES ASSUME TypeOK, Pushed, NEW r \in Runs, gen[r] # 0, ~Ran(r, gen[r]),
                    ~NeedsReemit(gen[r], Surfaced(r, gen[r]))
             PROVE  \E e \in raw : /\ e.access.run = r
                                   /\ e.access.gen = gen[r]
                                   /\ e.access.id[1] = "teach"
  BY DEF ReseededUnlessTaught, Ran
<1>1. gen[r] > 0
  BY DEF TypeOK
<1>2. Surfaced(r, gen[r]) # {}
  BY <1>1 DEF NeedsReemit
<1>3. PICK e \in raw : e.access.run = r /\ e.access.gen = gen[r] /\ e.access.channel = "push"
  BY <1>2 DEF Surfaced
<1>. QED
  BY <1>3 DEF Pushed, PushExplained

LEMMA InitPushed == Init => Pushed
BY DEF Init, Pushed

\* A step after which every manifest hook that ran still has keeps Pushed, if what
\* it adds to the payloads and to the log is explained.
LEMMA RanKept ==
  ASSUME Pushed, \A r \in Runs : \A g : Ran(r, g) => Ran(r, g)',
         \A p \in (recording \cup jobs)' : p \in recording \cup jobs \/ PushExplained(p)',
         \A e \in raw' : e \in raw \/ e.access \in jobs
  PROVE  Pushed'
<1>1. \A p : PushExplained(p) => PushExplained(p)'
  BY DEF PushExplained
<1>. QED
  BY <1>1 DEF Pushed

\* What a hook hands to recordPush is explained once the hook waits, or teaches.
LEMMA RecordPushExplained ==
  ASSUME NEW r \in Runs, NEW site, NEW g, RecordPush(site, r, g),
         site = "teach" \/ g \in waiting'[r]
  PROVE  /\ UNCHANGED <<jobs, raw, shown, unanswered>>
         /\ \A p \in recording' : p \in recording \/ PushExplained(p)'
<1>1. \A i \in Items : PushExplained(PushPayload(site, r, g, i))'
  BY DEF PushExplained, PushPayload, Ran
<1>. QED
  BY <1>1 DEF RecordPush, logVars

LEMMA HookPushed ==
  ASSUME TypeOK, Pushed, NEW r \in Runs, HookStep(r)
  PROVE  Pushed'
<1> USE DEF logVars
<1>1. CASE PostCompact(r)
  BY <1>1, RanKept DEF PostCompact, Ran
<1>2. CASE SessionStart(r) \/ Prompt(r)
  <2>1. PICK g : waiting' = [waiting EXCEPT ![r] = @ \cup {g}] /\ RecordPush("manifest", r, g)
    BY <1>2 DEF SessionStart, Prompt
  <2>2. g \in waiting'[r] /\ \A z \in Runs : waiting[z] \subseteq waiting'[z]
    BY <2>1 DEF TypeOK
  <2>3. \A z \in Runs : \A k : Ran(z, k) => Ran(z, k)'
    BY <2>1, <2>2, RecordPushExplained DEF Ran
  <2>. QED
    BY <2>1, <2>2, <2>3, RecordPushExplained, RanKept
<1>3. CASE Refuse(r)
  <2>1. PICK g : RecordPush("teach", r, g) /\ UNCHANGED waiting
    BY <1>3 DEF Refuse
  <2>2. \A z \in Runs : \A k : Ran(z, k) => Ran(z, k)'
    BY <2>1, RecordPushExplained DEF Ran
  <2>. QED
    BY <2>1, <2>2, RecordPushExplained, RanKept
<1>4. ASSUME NEW g \in waiting[r], Answer(r, g) \/ TimeOut(r, g) PROVE Pushed'
  <2>1. UNCHANGED <<recording, jobs, raw>>
    BY <1>4 DEF Answer, TimeOut
  <2>2. \A z \in Runs : \A k : Ran(z, k) => Ran(z, k)'
    BY <1>4 DEF Ran, Answer, TimeOut, TypeOK
  <2>. QED
    BY <2>1, <2>2, RanKept
<1>. QED
  BY <1>1, <1>2, <1>3, <1>4 DEF HookStep

LEMMA NextPushed == TypeOK /\ Pushed /\ [Next]_vars => Pushed'
<1> SUFFICES ASSUME TypeOK, Pushed, [Next]_vars PROVE Pushed'
  OBVIOUS
<1> USE DEF hookVars, logVars, passVars, cloudVars
<1>1. ASSUME UNCHANGED <<waiting, shown, unanswered>>,
             (recording \cup jobs)' \subseteq recording \cup jobs, raw' \subseteq raw
      PROVE  Pushed'
  BY <1>1, RanKept DEF Ran
<1>2. ASSUME NEW a \in PullArgs, Pull(a) PROVE Pushed'
  <2>1. \A n : PushExplained(PullPayload(n, a))'
    BY DEF PushExplained, PullPayload
  <2>2. /\ UNCHANGED <<waiting, shown, unanswered, recording, raw>>
        /\ jobs' = jobs \cup {PullPayload(accesses + 1, a)}
    BY <1>2 DEF Pull
  <2>. QED
    BY <2>1, <2>2, RanKept DEF Ran
<1>3. ASSUME NEW p \in recording, Record(p) PROVE Pushed'
  BY <1>3, <1>1 DEF Record
<1>4. ASSUME NEW j \in jobs, Land(j) PROVE Pushed'
  <2>1. /\ UNCHANGED <<waiting, shown, unanswered, recording>> /\ jobs' \subseteq jobs
        /\ \A e \in raw' : e \in raw \/ e.access \in jobs
    BY <1>4 DEF Land
  <2>. QED
    BY <2>1, RanKept DEF Ran
<1>5. CASE Midnight \/ RollupStep \/ PassCut
  BY <1>5, <1>1 DEF Midnight, RollupStep, DeleteDaily, InsertDaily, DeleteCohorts, InsertCohorts,
                    Prune, EnqueueRollupSync, PassCut
<1>6. CASE PushStep
  BY <1>6, <1>1 DEF PushStep, ReadGrain, UpsertGrain, PushFails, PushGivenUp
<1>7. CASE UNCHANGED vars
  BY <1>7, <1>1 DEF vars
<1>. QED
  BY <1>2, <1>3, <1>4, <1>5, <1>6, <1>7, HookPushed DEF Next

\* After a compaction the next prompt shows the manifest again, unless a manifest
\* hook of that generation ran or a refusal has taught something since.
THEOREM ReseededAlways == Spec => []ReseededUnlessTaught
<1>1. Init => TypeOK /\ Pushed
  BY InitTypeOK, InitPushed
<1>2. TypeOK /\ Pushed /\ [Next]_vars => (TypeOK /\ Pushed)'
  BY NextTypeOK, NextPushed
<1>. QED
  BY <1>1, <1>2, PushedReseeds, PTL DEF Spec

-----------------------------------------------------------------------------
(* The cloud's read models *)

Here(g)  == OfDay(daily, g) \cup OfCohort(cohorts, g)
There(g) == OfDay(cloudDaily, g) \cup OfCohort(cloudCohorts, g)

\* What a push has in hand is of its grain.
HandOfGrain ==
  \A e \in push.rows :
    IF push.grain \in DailyGrains THEN DailyGrain(e) = push.grain ELSE CohortGrain(e) = push.grain

\* A push read before the pass that recomputed its grain always has the job of
\* that pass behind it.
HandFresh ==
  TeamMode /\ pass = "idle" /\ push.grain \in Queueable \ (syncJobs \cup givenUp) =>
    push.rows = Here(push.grain)

CInv == TypeOK /\ HandOfGrain /\ HandFresh /\ CloudCurrentOrQueued

LEMMA CloudUntouched ==
  ASSUME CInv, UNCHANGED <<pass, daily, cohorts, cloudVars>>
  PROVE  (HandOfGrain /\ HandFresh /\ CloudCurrentOrQueued)'
BY DEF CInv, HandOfGrain, HandFresh, CloudCurrentOrQueued, Queueable, Here, OfDay, OfCohort,
       Grouped, cloudVars

LEMMA ReadGrainCloud ==
  ASSUME CInv, NEW g \in syncJobs, ReadGrain(g)
  PROVE  (HandOfGrain /\ HandFresh /\ CloudCurrentOrQueued)'
<1>1. /\ UNCHANGED <<pass, daily, cohorts, cloudDaily, cloudCohorts, givenUp>>
      /\ push = NoPush /\ push' = [grain |-> g, rows |-> Here(g)]
      /\ \A h \in syncJobs : h \in syncJobs' \/ h = g
  BY DEF ReadGrain, passVars, Here
<1>2. UNCHANGED Queueable /\ \A h : Here(h)' = Here(h) /\ There(h)' = There(h)
  BY <1>1 DEF Queueable, Grouped, Here, There, OfDay, OfCohort
<1>3. HandOfGrain'
  <2>1. g \in Grains /\ daily \subseteq Row /\ cohorts \subseteq Row
    BY DEF CInv, TypeOK
  <2>. QED
    BY <1>1, <2>1, GrainsApart DEF HandOfGrain, Here, OfDay, OfCohort
<1>4. HandFresh'
  BY <1>1, <1>2 DEF HandFresh
<1>5. ASSUME TeamMode, pass = "idle", NEW h \in Queueable, h \notin syncJobs' \cup givenUp
      PROVE  There(h) = Here(h) \/ push' = [grain |-> h, rows |-> Here(h)]
  <2>1. CASE h = g
    BY <1>1, <2>1
  <2>2. CASE h # g
    <3>1. push.grain # h
      BY <1>1 DEF Queueable
    <3>2. h \in Queueable \ (syncJobs \cup givenUp)
      BY <1>1, <1>5, <2>2
    <3>3. There(h) = Here(h) \/ push = [grain |-> h, rows |-> Here(h)]
      BY <1>5, <3>2 DEF CInv, CloudCurrentOrQueued, Here, There
    <3>. QED
      BY <3>1, <3>3
  <2>. QED
    BY <2>1, <2>2
<1>6. CloudCurrentOrQueued'
  BY <1>1, <1>2, <1>5 DEF CloudCurrentOrQueued, Here, There
<1>. QED
  BY <1>3, <1>4, <1>6

\* The upsert puts the rows in hand in the cloud, and touches no other grain.
LEMMA UpsertThere ==
  ASSUME CInv, UpsertGrain, NEW h \in Grains
  PROVE  There(h)' = IF h = push.grain THEN push.rows ELSE There(h)
<1> DEFINE g == push.grain
<1>1. g \in Grains /\ push.rows \subseteq Row /\ cloudDaily \subseteq Row /\ cloudCohorts \subseteq Row
  BY DEF CInv, TypeOK, HandOfGrain, UpsertGrain
<1>2. CASE g \in DailyGrains
  <2>1. /\ cloudDaily' = (cloudDaily \ OfDay(cloudDaily, g)) \cup push.rows
        /\ UNCHANGED cloudCohorts
    BY <1>2 DEF UpsertGrain, Upsert
  <2>2. \A e \in push.rows : DailyGrain(e) = g
    BY <1>2 DEF CInv, HandOfGrain
  <2>3. OfDay(cloudDaily', h) = IF h = g THEN push.rows ELSE OfDay(cloudDaily, h)
    BY <2>1, <2>2 DEF OfDay
  <2>4. OfCohort(cloudCohorts, g) = {}
    BY <1>1, <1>2, GrainsApart DEF OfCohort
  <2>. QED
    BY <2>1, <2>3, <2>4 DEF There
<1>3. CASE g \notin DailyGrains
  <2>1. /\ cloudCohorts' = (cloudCohorts \ OfCohort(cloudCohorts, g)) \cup push.rows
        /\ UNCHANGED cloudDaily
    BY <1>3 DEF UpsertGrain, Upsert
  <2>2. \A e \in push.rows : CohortGrain(e) = g
    BY <1>3 DEF CInv, HandOfGrain
  <2>3. OfCohort(cloudCohorts', h) = IF h = g THEN push.rows ELSE OfCohort(cloudCohorts, h)
    BY <2>1, <2>2 DEF OfCohort
  <2>4. OfDay(cloudDaily, g) = {}
    BY <1>1, <1>3, GrainsApart DEF OfDay
  <2>. QED
    BY <2>1, <2>3, <2>4 DEF There
<1>. QED
  BY <1>2, <1>3

LEMMA PushDoneCloud ==
  ASSUME CInv, UpsertGrain \/ PushFails \/ PushGivenUp
  PROVE  (HandOfGrain /\ HandFresh /\ CloudCurrentOrQueued)'
<1>1. /\ UNCHANGED <<pass, daily, cohorts>> /\ push' = NoPush
      /\ syncJobs \cup givenUp \subseteq (syncJobs \cup givenUp)'
  BY DEF UpsertGrain, PushFails, PushGivenUp, passVars
<1>2. UNCHANGED Queueable /\ Queueable \subseteq Grains /\ \A h : Here(h)' = Here(h)
  BY <1>1 DEF Queueable, Grouped, Here, OfDay, OfCohort
<1>3. HandOfGrain' /\ HandFresh'
  BY <1>1, <1>2 DEF HandOfGrain, HandFresh
<1>4. ASSUME TeamMode, pass = "idle", NEW h \in Queueable, h \notin (syncJobs \cup givenUp)'
      PROVE  There(h)' = Here(h)
  <2>1. There(h) = Here(h) \/ push = [grain |-> h, rows |-> Here(h)]
    BY <1>1, <1>4 DEF CInv, CloudCurrentOrQueued, Here, There
  <2>2. CASE UpsertGrain
    <3>1. h = push.grain => push.rows = Here(h)
      BY <1>1, <1>4 DEF CInv, HandFresh
    <3>. QED
      BY <1>2, <2>1, <2>2, <3>1, UpsertThere
  <2>3. CASE PushFails \/ PushGivenUp
    <3>1. h # push.grain /\ UNCHANGED <<cloudDaily, cloudCohorts>>
      BY <1>4, <2>3 DEF PushFails, PushGivenUp
    <3>. QED
      BY <2>1, <3>1 DEF There, OfDay, OfCohort
  <2>. QED
    BY <2>2, <2>3
<1>5. CloudCurrentOrQueued'
  BY <1>1, <1>2, <1>4 DEF CloudCurrentOrQueued, Here, There
<1>. QED
  BY <1>3, <1>5

LEMMA NextCloud == CInv /\ [Next]_vars => (HandOfGrain /\ HandFresh /\ CloudCurrentOrQueued)'
<1> SUFFICES ASSUME CInv, [Next]_vars
             PROVE  (HandOfGrain /\ HandFresh /\ CloudCurrentOrQueued)'
  OBVIOUS
<1> USE DEF hookVars, logVars, passVars, cloudVars
<1>1. CASE UNCHANGED <<pass, daily, cohorts, cloudVars>>
  BY <1>1, CloudUntouched
<1>2. ASSUME push' = push, pass' = "idle" /\ TeamMode => Queueable' \subseteq syncJobs'
      PROVE  (HandOfGrain /\ HandFresh /\ CloudCurrentOrQueued)'
  BY <1>2 DEF CInv, HandOfGrain, HandFresh, CloudCurrentOrQueued
<1>3. CASE EnqueueRollupSync
  <2>1. UNCHANGED <<Queueable, push>>
    BY <1>3 DEF EnqueueRollupSync, Queueable, Grouped
  <2>2. pass' = "idle" /\ TeamMode => Queueable \subseteq syncJobs'
    BY <1>3 DEF EnqueueRollupSync, Enqueued
  <2>. QED
    BY <1>2, <2>1, <2>2
<1>4. CASE DeleteDaily \/ InsertDaily \/ DeleteCohorts \/ InsertCohorts \/ Prune \/ PassCut
  BY <1>2, <1>4 DEF DeleteDaily, InsertDaily, DeleteCohorts, InsertCohorts, Prune, PassCut
<1>5. ASSUME NEW r \in Runs, HookStep(r) PROVE UNCHANGED <<pass, daily, cohorts, cloudVars>>
  BY <1>5 DEF HookStep, PostCompact, SessionStart, Prompt, Refuse, RecordPush, Answer, TimeOut
<1>6. CASE \/ \E p \in recording : Record(p)
           \/ \E a \in PullArgs : Pull(a)
           \/ \E j \in jobs : Land(j)
           \/ Midnight
           \/ UNCHANGED vars
  BY <1>6, <1>1 DEF Record, Pull, Land, Midnight, vars
<1>. QED
  BY <1>1, <1>3, <1>4, <1>5, <1>6, ReadGrainCloud, PushDoneCloud DEF Next, RollupStep, PushStep

\* Once a pass has ended, every aggregate that differs in the cloud has its push
\* queued or in hand, or given up since, although a push may have read before the
\* pass what it writes after it.
THEOREM CloudCurrentOrQueuedAlways == Spec => []CloudCurrentOrQueued
<1>1. Init => CInv
  BY InitTypeOK DEF Init, CInv, HandOfGrain, HandFresh, CloudCurrentOrQueued, Queueable, Grouped
<1>2. CInv /\ [Next]_vars => CInv'
  BY NextTypeOK, NextCloud DEF CInv
<1>3. CInv => CloudCurrentOrQueued
  BY DEF CInv
<1>. QED
  BY <1>1, <1>2, <1>3, PTL DEF Spec
=============================================================================
