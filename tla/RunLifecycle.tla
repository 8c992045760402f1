---------------------------- MODULE RunLifecycle ----------------------------
(***************************************************************************)
(* The runs of one project on one machine: the `runs` and `context_packs`   *)
(* rows, and everything that writes them at the same time.                  *)
(*                                                                         *)
(* An agent session has one run.  Every hook event of the session is        *)
(* handled by a call of its own (in the HTTP daemon, and once more in a     *)
(* child process when the daemon is slow to answer), so are the agent's     *)
(* save_context_pack calls and an operator's `run cancel`; a call yields at *)
(* every statement, and may be killed between any two.  Beside them the     *)
(* daemon sweeps stale runs, and the outbox lands the events the calls      *)
(* queued, which is the only sign of life the sweeps look at.               *)
(*                                                                         *)
(* Times matter only as younger or older than the activity window, so the   *)
(* model keeps ages, which stop growing once they are past it.  `packless`  *)
(* is a history variable.                                                   *)
(***************************************************************************)
EXTENDS Integers, Sequences

CONSTANTS
  Sessions,   \* agent sessions of the project
  Calls,      \* hook, tool and operator calls that may be made, each once
  Kinds,      \* which kinds of call are made
  Texts,      \* (title, content) pairs an agent saves
  Window,     \* the activity window and stale threshold, in ticks
  None

\* SessionStart; UserPromptSubmit; another event; an event of Coodra's own
\* tools; SessionEnd; StopFailure.
HookKinds == {"start", "prompt", "tool", "self", "end", "stopFailure"}
AllKinds  == HookKinds \cup {"save", "cancel"}
Digest    == "digest"

ASSUME RunLifecycleAssumption ==
  /\ Kinds \subseteq AllKinds
  /\ Window \in Nat \ {0}
  /\ None \notin Calls
  /\ Digest \notin Texts

VARIABLES
  status,     \* status[s] of the run of session s
  runId,      \* its id: the call that inserted it, None while there is no row
  age,        \* age[s]: time since the run's started_at
  quiet,      \* quiet[s]: time since its newest run_events row
  started,    \* sessions with a SessionStart row in run_events
  packs,      \* packs[s]: context_packs rows of the run, oldest first
  queued,     \* calls whose run_event waits in the outbox
  at,         \* at[c]: the statement call c is about to run
  job,        \* job[c]: what it was called for
  held,       \* held[c]: the run id it works with
  row,        \* row[c]: the context_packs row it read or wrote
  written,    \* written[c]: what its write returned as `status`
  packless    \* history: sessions whose SessionEnd failed between completing and saving

runVars  == <<status, runId, age>>
eventVars == <<quiet, started, queued>>
packVars == <<packs, row, written, packless>>
vars == <<runVars, eventVars, packVars, at, job, held>>

Terminal == {"completed", "failed", "cancelled", "abandoned"}
Old      == Window + 1
Ages     == 0..Old
Pack     == [text : Texts \cup {Digest}, source : {"agent", "bridge_auto"}]
NoJob    == [session |-> None, kind |-> "none", text |-> Digest]
Jobs     == [session : Sessions, kind : AllKinds, text : Texts \cup {Digest}]
Steps    == {"unborn", "select", "insert", "resume", "reselect", "classify",
             "markCompleted", "markFailed", "checkPack", "insertPack",
             "record", "recordStart", "abandon",
             "readPacks", "upgradePack", "readStatus", "cancel", "done", "dead"}

TypeOK ==
  /\ status \in [Sessions -> Terminal \cup {"none", "in_progress"}]
  /\ runId \in [Sessions -> Calls \cup {None}]
  /\ age \in [Sessions -> Ages]
  /\ quiet \in [Sessions -> Ages]
  /\ started \subseteq Sessions
  /\ packs \in [Sessions -> Seq(Pack)]
  /\ queued \subseteq Calls
  /\ at \in [Calls -> Steps]
  /\ job \in [Calls -> Jobs \cup {NoJob}]
  /\ held \in [Calls -> Calls \cup {None}]
  /\ row \in [Calls -> Nat]
  /\ written \in [Calls -> {"none", "created", "idempotent_hit", "upgraded_from_bridge_auto"}]
  /\ packless \subseteq Sessions

Init ==
  /\ status = [s \in Sessions |-> "none"]
  /\ runId = [s \in Sessions |-> None]
  /\ age = [s \in Sessions |-> Old]
  /\ quiet = [s \in Sessions |-> Old]
  /\ started = {}
  /\ packs = [s \in Sessions |-> <<>>]
  /\ queued = {}
  /\ at = [c \in Calls |-> "unborn"]
  /\ job = [c \in Calls |-> NoJob]
  /\ held = [c \in Calls |-> None]
  /\ row = [c \in Calls |-> 0]
  /\ written = [c \in Calls |-> "none"]
  /\ packless = {}

-----------------------------------------------------------------------------
(* Where a call goes *)

Go(c, step) == at' = [at EXCEPT ![c] = step]

FirstStep(k) ==
  CASE k = "save"   -> "readPacks"
    [] k = "cancel" -> "readStatus"
    [] OTHER        -> "select"

\* What the hook handler does once it has the run.
Handle(k) ==
  CASE k \in {"start", "prompt"} -> "classify"
    [] k = "tool"                -> "record"
    [] k = "self"                -> "done"
    [] k = "end"                 -> "markCompleted"
    [] k = "stopFailure"         -> "markFailed"

SetStatus(s, new) == status' = [status EXCEPT ![s] = new]

\* save_context_pack and cancel return early when there is no such run.
Arrive(c, s, k, t) ==
  /\ at[c] = "unborn"
  /\ k \in {"save", "cancel"} => runId[s] # None
  /\ t = Digest <=> k # "save"
  /\ job' = [job EXCEPT ![c] = [session |-> s, kind |-> k, text |-> t]]
  /\ held' = [held EXCEPT ![c] = IF k \in HookKinds THEN None ELSE runId[s]]
  /\ Go(c, FirstStep(k))
  /\ UNCHANGED <<runVars, eventVars, packVars>>

-----------------------------------------------------------------------------
(* get_run_id, which the lifecycle handler runs first for every event *)

Select(c) ==
  LET s == job[c].session IN
  /\ at[c] = "select"
  /\ held' = [held EXCEPT ![c] = runId[s]]
  /\ Go(c, CASE status[s] = "none"        -> "insert"
             [] status[s] = "in_progress" -> Handle(job[c].kind)
             [] OTHER                     -> "resume")
  /\ UNCHANGED <<runVars, eventVars, packVars, job>>

\* A mistake: answering with the generated id without looking who won.
BugInsertTrustsItsId(c) ==
  LET s == job[c].session IN
  /\ at[c] = "insert"
  /\ IF runId[s] = None
     THEN /\ runId' = [runId EXCEPT ![s] = c]
          /\ SetStatus(s, "in_progress")
          /\ age' = [age EXCEPT ![s] = 0]
     ELSE UNCHANGED runVars
  /\ held' = [held EXCEPT ![c] = c]
  /\ Go(c, Handle(job[c].kind))
  /\ UNCHANGED <<eventVars, packVars, job>>

\* INSERT ... ON CONFLICT (project_id, session_id) DO NOTHING
Insert(c) ==
  LET s == job[c].session IN
  /\ at[c] = "insert"
  /\ \/ /\ runId[s] = None
        /\ runId' = [runId EXCEPT ![s] = c]
        /\ SetStatus(s, "in_progress")
        /\ age' = [age EXCEPT ![s] = 0]
        /\ held' = [held EXCEPT ![c] = c]
        /\ Go(c, Handle(job[c].kind))
     \/ /\ runId[s] # None
        /\ Go(c, "reselect")
        /\ UNCHANGED <<runVars, held>>
  /\ UNCHANGED <<eventVars, packVars, job>>

\* The row that won the race, in whatever status it now is.
Reselect(c) ==
  /\ at[c] = "reselect"
  /\ held' = [held EXCEPT ![c] = runId[job[c].session]]
  /\ Go(c, Handle(job[c].kind))
  /\ UNCHANGED <<runVars, eventVars, packVars, job>>

\* resumeRun: by id alone, whatever the status has become since it was read.
Resume(c) ==
  /\ at[c] = "resume"
  /\ SetStatus(job[c].session, "in_progress")
  /\ Go(c, Handle(job[c].kind))
  /\ UNCHANGED <<runId, age, eventVars, packVars, job, held>>

-----------------------------------------------------------------------------
(* The rest of the lifecycle handler *)

\* A prompt counts as a session start when no SessionStart row has landed, or
\* when a compaction asks for the context to be shown again.
Classify(c) ==
  LET s == job[c].session IN
  /\ at[c] = "classify"
  /\ \/ Go(c, "recordStart")
     \/ job[c].kind = "prompt" /\ s \in started /\ Go(c, "record")
  /\ UNCHANGED <<runVars, eventVars, packVars, job, held>>

\* A mistake: SessionEnd leaves after completing the run, as if it had no project.
BugMarkCompletedOnly(c) ==
  /\ at[c] = "markCompleted"
  /\ SetStatus(job[c].session, "completed")
  /\ Go(c, IF job[c].kind = "end" THEN "record" ELSE "done")
  /\ UNCHANGED <<runId, age, eventVars, packVars, job, held>>

\* markRunCompleted, from SessionEnd and from save_context_pack.
MarkCompleted(c) ==
  /\ at[c] = "markCompleted"
  /\ SetStatus(job[c].session, "completed")
  /\ Go(c, IF job[c].kind = "end" THEN "checkPack" ELSE "done")
  /\ UNCHANGED <<runId, age, eventVars, packVars, job, held>>

\* A mistake: a status the other readers do not know.
BugMarkFailedAsError(c) ==
  /\ at[c] = "markFailed"
  /\ SetStatus(job[c].session, "error")
  /\ Go(c, "record")
  /\ UNCHANGED <<runId, age, eventVars, packVars, job, held>>

MarkFailed(c) ==
  /\ at[c] = "markFailed"
  /\ SetStatus(job[c].session, "failed")
  /\ Go(c, "record")
  /\ UNCHANGED <<runId, age, eventVars, packVars, job, held>>

\* saveAutoContextPack: any pack of the run will do.
CheckPack(c) ==
  /\ at[c] = "checkPack"
  /\ Go(c, IF packs[job[c].session] = <<>> THEN "insertPack" ELSE "record")
  /\ UNCHANGED <<runVars, eventVars, packVars, job, held>>

NewPack(c) ==
  [text |-> job[c].text, source |-> IF job[c].kind = "save" THEN "agent" ELSE "bridge_auto"]

\* A mistake: an upsert keyed by the run, as if it could have one pack only.
BugInsertPackPerRun(c) ==
  LET s == job[c].session IN
  /\ at[c] = "insertPack"
  /\ packs' = [packs EXCEPT ![s] = <<NewPack(c)>>]
  /\ row' = [row EXCEPT ![c] = 1]
  /\ written' = [written EXCEPT ![c] = "created"]
  /\ Go(c, IF job[c].kind = "save" THEN "markCompleted" ELSE "record")
  /\ UNCHANGED <<runVars, eventVars, packless, job, held>>

\* The default path of a save, and the digest of a SessionEnd.
InsertPack(c) ==
  LET s == job[c].session IN
  /\ at[c] = "insertPack"
  /\ packs' = [packs EXCEPT ![s] = Append(@, NewPack(c))]
  /\ row' = [row EXCEPT ![c] = Len(packs[s]) + 1]
  /\ written' = [written EXCEPT ![c] = "created"]
  /\ Go(c, IF job[c].kind = "save" THEN "markCompleted" ELSE "record")
  /\ UNCHANGED <<runVars, eventVars, packless, job, held>>

\* Finalization swallows what the auto-save throws.
AutoPackFails(c) ==
  /\ at[c] \in {"checkPack", "insertPack"}
  /\ job[c].kind = "end"
  /\ packless' = packless \cup {job[c].session}
  /\ Go(c, "record")
  /\ UNCHANGED <<runVars, eventVars, packs, row, written, job, held>>

\* runRecorder.record queues the event, or logs that it could not.
Record(c) ==
  /\ at[c] \in {"record", "recordStart"}
  /\ queued' \in {queued, queued \cup {c}}
  /\ Go(c, IF at[c] = "recordStart" THEN "abandon" ELSE "done")
  /\ UNCHANGED <<runVars, quiet, started, packVars, job, held>>

\* abandonStaleInProgressRuns: the other sessions' silent runs, of any age.
Abandon(c) ==
  /\ at[c] = "abandon"
  /\ status' = [s \in Sessions |->
                  IF status[s] = "in_progress" /\ s # job[c].session /\ quiet[s] = Old
                  THEN "abandoned" ELSE status[s]]
  /\ Go(c, "done")
  /\ UNCHANGED <<runId, age, eventVars, packVars, job, held>>

-----------------------------------------------------------------------------
(* save_context_pack: write, then complete the run *)

Matches(c, i) == packs[job[c].session][i].text = job[c].text

\* A mistake: overwriting the newest row whoever wrote it.
BugReadPacksUpgradesAny(c) ==
  LET newest == Len(packs[job[c].session]) IN
  /\ at[c] = "readPacks"
  /\ IF newest = 0
     THEN Go(c, "insertPack") /\ UNCHANGED row
     ELSE Go(c, "upgradePack") /\ row' = [row EXCEPT ![c] = newest]
  /\ UNCHANGED <<runVars, eventVars, packs, written, packless, job, held>>

\* An identical pack is returned as it is; the newest row is overwritten if it
\* is an automatic one; else a row is inserted.
ReadPacks(c) ==
  LET rows == packs[job[c].session]
      newest == Len(rows)
  IN
  /\ at[c] = "readPacks"
  /\ \/ \E i \in DOMAIN rows :
          /\ Matches(c, i)
          /\ row' = [row EXCEPT ![c] = i]
          /\ written' = [written EXCEPT ![c] = "idempotent_hit"]
          /\ Go(c, "markCompleted")
     \/ /\ ~ \E i \in DOMAIN rows : Matches(c, i)
        /\ newest > 0 /\ rows[newest].source = "bridge_auto"
        /\ row' = [row EXCEPT ![c] = newest]
        /\ Go(c, "upgradePack")
        /\ UNCHANGED written
     \/ /\ ~ \E i \in DOMAIN rows : Matches(c, i)
        /\ newest > 0 => rows[newest].source # "bridge_auto"
        /\ Go(c, "insertPack")
        /\ UNCHANGED <<row, written>>
  /\ UNCHANGED <<runVars, eventVars, packs, packless, job, held>>

\* upgradeBridgeAutoToAgent: by id alone.
UpgradePack(c) ==
  /\ at[c] = "upgradePack"
  /\ packs' = [packs EXCEPT ![job[c].session][row[c]] = NewPack(c)]
  /\ written' = [written EXCEPT ![c] = "upgraded_from_bridge_auto"]
  /\ Go(c, "markCompleted")
  /\ UNCHANGED <<runVars, eventVars, row, packless, job, held>>

-----------------------------------------------------------------------------
(* cancelRun *)

ReadStatus(c) ==
  /\ at[c] = "readStatus"
  /\ Go(c, IF status[job[c].session] = "in_progress" THEN "cancel" ELSE "done")
  /\ UNCHANGED <<runVars, eventVars, packVars, job, held>>

Cancel(c) ==
  /\ at[c] = "cancel"
  /\ SetStatus(job[c].session, "cancelled")
  /\ Go(c, "done")
  /\ UNCHANGED <<runId, age, eventVars, packVars, job, held>>

-----------------------------------------------------------------------------
(* Around the calls *)

\* The call's process is killed, or a statement throws.
Die(c) ==
  /\ at[c] \notin {"unborn", "done", "dead"}
  /\ packless' = IF job[c].kind = "end" /\ at[c] \in {"checkPack", "insertPack"}
                 THEN packless \cup {job[c].session} ELSE packless
  /\ Go(c, "dead")
  /\ UNCHANGED <<runVars, eventVars, packs, row, written, job, held>>

\* An outbox worker inserts the run_events row, created_at being that moment.
Land(c) ==
  LET s == job[c].session IN
  /\ c \in queued
  /\ queued' = queued \ {c}
  /\ quiet' = [quiet EXCEPT ![s] = 0]
  /\ started' = IF job[c].kind = "start" THEN started \cup {s} ELSE started
  /\ UNCHANGED <<runVars, packVars, at, job, held>>

\* Mistakes: forgetting the status, and comparing started_at the wrong way.
BugStaleAnyStatus(s)  == status[s] # "none" /\ age[s] = Old /\ quiet[s] = Old
BugStaleWhileYoung(s) == status[s] = "in_progress" /\ age[s] # Old /\ quiet[s] = Old

\* The stale-runs sweeper's UPDATE.
Stale(s) == status[s] = "in_progress" /\ age[s] = Old /\ quiet[s] = Old

Sweep ==
  /\ \E s \in Sessions : Stale(s)
  /\ status' = [s \in Sessions |-> IF Stale(s) THEN "cancelled" ELSE status[s]]
  /\ UNCHANGED <<runId, age, eventVars, packVars, at, job, held>>

Older(a) == IF a < Old THEN a + 1 ELSE a

Tick ==
  /\ age' = [s \in Sessions |-> Older(age[s])]
  /\ quiet' = [s \in Sessions |-> Older(quiet[s])]
  /\ UNCHANGED <<status, runId, started, queued, packVars, at, job, held>>

HookStep(c) ==
  \/ Select(c) \/ Insert(c) \/ Reselect(c) \/ Resume(c)
  \/ Classify(c) \/ MarkCompleted(c) \/ MarkFailed(c)
  \/ CheckPack(c) \/ InsertPack(c) \/ AutoPackFails(c)
  \/ Record(c) \/ Abandon(c)

Next ==
  \/ \E c \in Calls, s \in Sessions, k \in Kinds, t \in Texts \cup {Digest} : Arrive(c, s, k, t)
  \/ \E c \in Calls : HookStep(c) \/ Die(c) \/ Land(c)
  \/ \E c \in Calls : ReadPacks(c) \/ UpgradePack(c) \/ ReadStatus(c) \/ Cancel(c)
  \/ Sweep
  \/ Tick

Spec == Init /\ [][Next]_vars

\* While the daemon runs, time passes and its sweeper keeps being called.
Fairness == WF_vars(Tick) /\ WF_vars(Sweep)
FairSpec == Spec /\ Fairness

-----------------------------------------------------------------------------
(* What holds *)

\* A session has one run: whichever of the calls that found no row inserts it,
\* every call that resolved the session's run works with that row.
RunsAgree ==
  \A c \in Calls : held[c] # None => held[c] = runId[job[c].session]

\* A completed run has a context pack, or the SessionEnd that completed it is
\* still on its way to save one, or failed there; save_context_pack opens no
\* such gap, however the two interleave.
CompletedHasPack ==
  \A s \in Sessions :
    status[s] = "completed" /\ packs[s] = <<>> =>
      \/ s \in packless
      \/ \E c \in Calls : job[c].session = s /\ job[c].kind = "end" /\ at[c] \in {"checkPack", "insertPack"}

\* A pack that a save created is never overwritten, and one it found or upgraded
\* only by another save that had read the same row while it was automatic.
SavesAccountedFor ==
  \A c \in Calls :
    job[c].kind = "save" /\ written[c] # "none" =>
      LET p == packs[job[c].session] IN
      /\ row[c] \in DOMAIN p
      /\ \/ p[row[c]].text = job[c].text
         \/ /\ written[c] # "created"
            /\ \E d \in Calls \ {c} :
                 /\ job[d].session = job[c].session
                 /\ written[d] = "upgraded_from_bridge_auto"
                 /\ row[d] = row[c] /\ p[row[c]].text = job[d].text

\* What a step may do to finished runs: change those whose own session's call,
\* or an operator's cancel, is at a statement that writes the status.
FinishedKept ==
  \A s \in Sessions :
    status[s] \in Terminal /\ status'[s] # status[s] =>
      \E c \in Calls :
        job[c].session = s /\ at[c] \in {"resume", "markCompleted", "markFailed", "cancel"}

\* A finished run changes only by a call of its own session or an operator's
\* cancel: neither sweep touches it, whatever else they race with.
FinishedStayFinished == [][FinishedKept]_vars

\* When a session falls silent its run ends, even if every call died and no
\* SessionEnd came: the sweeper's doing.
RunsEnd == \A s \in Sessions : <>[](status[s] # "in_progress")

\* The rows that saves created, by session: their writers know which they were.
SavedRows ==
  [s \in Sessions |->
     {row[c] : c \in {d \in Calls : job[d].session = s /\ job[d].kind = "save" /\ written[d] = "created"}}]

\* Calls, statements and sweeps, however they interleave and wherever they
\* die, keep what the run log promises its readers.
Book == INSTANCE RunBook
  WITH Ids <- Calls, Packs <- Pack, id <- runId, filed <- packs, own <- SavedRows

ImplementsRunBook == Book!BSpec
=============================================================================
