-------------------------- MODULE RunLifecycleProofs --------------------------
(***************************************************************************)
(* Proofs about RunLifecycle, for any sessions, calls, kinds of call, texts *)
(* and window.                                                              *)
(***************************************************************************)
EXTENDS RunLifecycle, SequenceTheorems, TLAPS

USE RunLifecycleAssumption

\* What the place a call has reached says about the call.
ShapeOf(c) ==
  /\ at[c] = "unborn" => job[c] = NoJob /\ held[c] = None
  /\ at[c] # "unborn" => job[c] \in Jobs
  /\ at[c] \in {"select", "insert", "reselect", "resume"} => job[c].kind \in HookKinds
  /\ at[c] = "checkPack" => job[c].kind = "end"
  /\ at[c] \in {"insertPack", "markCompleted"} => job[c].kind \in {"end", "save"}
  /\ at[c] \in {"readPacks", "upgradePack"} => job[c].kind = "save"
  /\ at[c] = "upgradePack" => row[c] \in DOMAIN packs[job[c].session]
  /\ written[c] # "none" =>
       \/ at[c] \in {"record", "done", "dead"}
       \/ at[c] = "markCompleted" /\ job[c].kind = "save"
  /\ c \in queued => at[c] # "unborn"

Shape == \A c \in Calls : ShapeOf(c)

LEMMA NewPackType ==
  ASSUME NEW c \in Calls, job[c] \in Jobs
  PROVE  NewPack(c) \in Pack
BY DEF NewPack, Pack, Jobs

LEMMA HandleType ==
  /\ \A k \in HookKinds : Handle(k) \in Steps \ {"unborn", "select", "insert", "reselect", "resume",
                                                 "readPacks", "upgradePack", "checkPack", "insertPack"}
  /\ \A k \in HookKinds : Handle(k) = "markCompleted" => k = "end"
  /\ \A k \in HookKinds : Handle(k) # "cancel" /\ Handle(k) # "readStatus" /\ Handle(k) # "abandon"
BY DEF Handle, HookKinds, Steps

\* A row is appended, or replaced where it is; both keep the rows that are there.
LEMMA AppendRow ==
  ASSUME TypeOK, NEW s \in Sessions, NEW p \in Pack,
         packs' = [packs EXCEPT ![s] = Append(@, p)]
  PROVE  /\ packs' \in [Sessions -> Seq(Pack)]
         /\ \A z \in Sessions : DOMAIN packs[z] \subseteq DOMAIN packs'[z]
         /\ \A z \in Sessions : \A i \in DOMAIN packs[z] : packs'[z][i] = packs[z][i]
         /\ Len(packs[s]) + 1 \in DOMAIN packs'[s]
         /\ Len(packs[s]) + 1 \notin DOMAIN packs[s]
         /\ packs'[s][Len(packs[s]) + 1] = p
         /\ packs'[s] # <<>>
<1>1. packs[s] \in Seq(Pack)
  BY DEF TypeOK
<1>2. Append(packs[s], p) \in Seq(Pack)
  BY <1>1
<1>3. packs' \in [Sessions -> Seq(Pack)] /\ packs'[s] = Append(packs[s], p)
  BY <1>2 DEF TypeOK
<1>4. \A z \in Sessions : z # s => packs'[z] = packs[z]
  BY DEF TypeOK
<1>5. /\ DOMAIN packs[s] = 1..Len(packs[s])
      /\ DOMAIN packs'[s] = 1..(Len(packs[s]) + 1)
      /\ Len(packs[s]) \in Nat
      /\ \A i \in DOMAIN packs[s] : packs'[s][i] = packs[s][i]
      /\ packs'[s][Len(packs[s]) + 1] = p
      /\ packs'[s] # <<>>
  BY <1>1, <1>2, <1>3, AppendProperties, LenProperties
<1> QED
  BY <1>3, <1>4, <1>5

LEMMA ReplaceRow ==
  ASSUME TypeOK, NEW s \in Sessions, NEW p \in Pack, NEW r \in DOMAIN packs[s],
         packs' = [packs EXCEPT ![s][r] = p]
  PROVE  /\ packs' \in [Sessions -> Seq(Pack)]
         /\ \A z \in Sessions : DOMAIN packs'[z] = DOMAIN packs[z]
         /\ \A z \in Sessions : \A i \in DOMAIN packs[z] :
              packs'[z][i] = IF z = s /\ i = r THEN p ELSE packs[z][i]
         /\ \A z \in Sessions : packs[z] # <<>> => packs'[z] # <<>>
<1>1. packs[s] \in Seq(Pack) /\ DOMAIN packs[s] = 1..Len(packs[s])
  BY LenProperties DEF TypeOK
<1>2. /\ [packs[s] EXCEPT ![r] = p] \in Seq(Pack)
      /\ Len([packs[s] EXCEPT ![r] = p]) = Len(packs[s])
      /\ \A i \in 1..Len(packs[s]) : [packs[s] EXCEPT ![r] = p][i] = IF i = r THEN p ELSE packs[s][i]
  BY <1>1, ExceptSeq
<1>3. packs' \in [Sessions -> Seq(Pack)] /\ packs'[s] = [packs[s] EXCEPT ![r] = p]
  BY <1>2 DEF TypeOK
<1>4. \A z \in Sessions : z # s => packs'[z] = packs[z]
  BY DEF TypeOK
<1>5. DOMAIN packs'[s] = DOMAIN packs[s]
  BY <1>1, <1>2, <1>3, LenProperties
<1>6. packs'[s] # <<>>
  BY <1>1, <1>5
<1> QED
  BY <1>1, <1>2, <1>3, <1>4, <1>5, <1>6

-----------------------------------------------------------------------------
(* Types *)

TInv == TypeOK /\ Shape

LEMMA TypesInit == Init => TInv
BY DEF Init, TInv, TypeOK, Shape, ShapeOf, NoJob, Steps, Old, Ages

LEMMA TypesArrive ==
  ASSUME TInv, NEW c \in Calls, NEW s \in Sessions, NEW k \in Kinds, NEW t \in Texts \cup {Digest},
         Arrive(c, s, k, t)
  PROVE  TInv'
<1>1. /\ k \in AllKinds
      /\ FirstStep(k) \in Steps \ {"unborn"}
      /\ FirstStep(k) = "select" => k \in HookKinds
      /\ FirstStep(k) = "readPacks" => k = "save"
      /\ FirstStep(k) \in {"select", "readPacks", "readStatus"}
  BY DEF FirstStep, AllKinds, HookKinds, Steps
<1>2. [session |-> s, kind |-> k, text |-> t] \in Jobs
  BY <1>1 DEF Jobs
<1>3. TypeOK'
  BY <1>1, <1>2 DEF TInv, TypeOK, Arrive, Go, runVars, eventVars, packVars
<1>4. Shape'
  BY <1>1, <1>2 DEF TInv, TypeOK, Shape, ShapeOf, Arrive, Go, runVars, eventVars, packVars
<1> QED
  BY <1>3, <1>4 DEF TInv

LEMMA TypesResolve ==
  ASSUME TInv, NEW c \in Calls, Select(c) \/ Insert(c) \/ Reselect(c) \/ Resume(c)
  PROVE  TInv'
<1>1. job[c] \in Jobs /\ job[c].kind \in HookKinds /\ job[c].session \in Sessions
  BY DEF TInv, Shape, ShapeOf, Select, Insert, Reselect, Resume, Jobs
<1>2. Handle(job[c].kind) \in Steps /\ Old \in Nat /\ 0 \in Ages
  BY <1>1, HandleType DEF Old, Ages
<1>3. TypeOK'
  <2>1. at' \in [Calls -> Steps] /\ held' \in [Calls -> Calls \cup {None}]
    <3>1. /\ status[job[c].session] = "none" => "insert" \in Steps
          /\ "resume" \in Steps /\ "reselect" \in Steps
          /\ runId[job[c].session] \in Calls \cup {None}
      BY <1>1 DEF TInv, TypeOK, Steps
    <3>2. CASE Select(c)
      BY <1>2, <3>1, <3>2 DEF TInv, TypeOK, Select, Go
    <3>3. CASE Insert(c)
      <4>1. at' \in [Calls -> Steps]
        <5>1. PICK p \in Steps : Go(c, p)
          BY <1>2, <3>1, <3>3 DEF Insert
        <5> QED
          BY <5>1 DEF TInv, TypeOK, Go
      <4>2. held' \in [Calls -> Calls \cup {None}]
        <5>1. held' = held \/ held' = [held EXCEPT ![c] = c]
          BY <3>3 DEF Insert
        <5> QED
          BY <5>1 DEF TInv, TypeOK
      <4> QED
        BY <4>1, <4>2
    <3>4. CASE Reselect(c) \/ Resume(c)
      <4>1. at' = [at EXCEPT ![c] = Handle(job[c].kind)]
        BY <3>4 DEF Reselect, Resume, Go
      <4>2. held' \in [Calls -> Calls \cup {None}]
        BY <3>1, <3>4 DEF TInv, TypeOK, Reselect, Resume
      <4> QED
        BY <1>2, <4>1, <4>2 DEF TInv, TypeOK
    <3> QED
      BY <3>2, <3>3, <3>4
  <2>2. CASE Select(c) \/ Reselect(c) \/ Resume(c)
    BY <1>1, <2>1, <2>2 DEF TInv, TypeOK, Select, Reselect, Resume, SetStatus, runVars, eventVars, packVars
  <2>3. CASE Insert(c)
    <3>1. /\ status' \in [Sessions -> Terminal \cup {"none", "in_progress"}]
          /\ runId' \in [Sessions -> Calls \cup {None}]
          /\ age' \in [Sessions -> Ages]
      <4> DEFINE s == job[c].session
      <4>1. CASE /\ runId' = [runId EXCEPT ![s] = c]
                 /\ status' = [status EXCEPT ![s] = "in_progress"]
                 /\ age' = [age EXCEPT ![s] = 0]
        BY <1>2, <4>1 DEF TInv, TypeOK
      <4>2. CASE runId' = runId /\ status' = status /\ age' = age
        BY <4>2 DEF TInv, TypeOK
      <4> QED
        BY <2>3, <4>1, <4>2 DEF Insert, SetStatus, runVars
    <3> QED
      BY <2>1, <2>3, <3>1 DEF TInv, TypeOK, Insert, eventVars, packVars
  <2> QED
    BY <2>2, <2>3
<1>4. Shape'
  BY <1>1, <1>2, HandleType DEF TInv, TypeOK, Shape, ShapeOf, Select, Insert, Reselect, Resume, Go, SetStatus, runVars, eventVars, packVars
<1> QED
  BY <1>3, <1>4 DEF TInv

LEMMA TypesHandle ==
  ASSUME TInv, NEW c \in Calls,
         \/ Classify(c) \/ MarkCompleted(c) \/ MarkFailed(c) \/ CheckPack(c) \/ AutoPackFails(c)
         \/ Record(c) \/ Abandon(c)
  PROVE  TInv'
<1>1. job[c] \in Jobs /\ job[c].session \in Sessions
  BY DEF TInv, Shape, ShapeOf, Classify, MarkCompleted, MarkFailed, CheckPack, AutoPackFails, Record, Abandon, Jobs
<1>2. TypeOK'
  <2>1. CASE Classify(c) \/ CheckPack(c) \/ AutoPackFails(c) \/ Record(c)
    BY <1>1, <2>1 DEF TInv, TypeOK, Classify, CheckPack, AutoPackFails, Record, Go, runVars, eventVars, packVars, Steps
  <2>2. CASE MarkCompleted(c) \/ MarkFailed(c) \/ Abandon(c)
    <3>1. at' \in [Calls -> Steps]
      BY <2>2 DEF TInv, TypeOK, MarkCompleted, MarkFailed, Abandon, Go, Steps
    <3>2. status' \in [Sessions -> Terminal \cup {"none", "in_progress"}]
      BY <1>1, <2>2 DEF TInv, TypeOK, MarkCompleted, MarkFailed, Abandon, SetStatus, Terminal
    <3> QED
      BY <2>2, <3>1, <3>2 DEF TInv, TypeOK, MarkCompleted, MarkFailed, Abandon, eventVars, packVars
  <2> QED
    BY <2>1, <2>2
<1>3. Shape'
  BY <1>1 DEF TInv, TypeOK, Shape, ShapeOf, Classify, MarkCompleted, MarkFailed, CheckPack, AutoPackFails, Record, Abandon,
              Go, SetStatus, runVars, eventVars, packVars
<1> QED
  BY <1>2, <1>3 DEF TInv

LEMMA TypesInsertPack ==
  ASSUME TInv, NEW c \in Calls, InsertPack(c)
  PROVE  TInv'
<1>1. job[c] \in Jobs /\ job[c].session \in Sessions /\ NewPack(c) \in Pack
  BY NewPackType DEF TInv, Shape, ShapeOf, InsertPack, Jobs
<1>2. Len(packs[job[c].session]) + 1 \in Nat
  BY <1>1, LenProperties DEF TInv, TypeOK
<1>3. /\ packs' \in [Sessions -> Seq(Pack)]
      /\ \A z \in Sessions : DOMAIN packs[z] \subseteq DOMAIN packs'[z]
  BY <1>1, AppendRow DEF TInv, InsertPack
<1>4. TypeOK'
  BY <1>2, <1>3 DEF TInv, TypeOK, InsertPack, Go, runVars, eventVars, Steps
<1>5. Shape'
  <2> SUFFICES ASSUME NEW d \in Calls PROVE ShapeOf(d)'
    BY DEF Shape
  <2>1. CASE d = c
    <3>1. /\ job' = job /\ held' = held /\ queued' = queued
          /\ at'[c] = IF job[c].kind = "save" THEN "markCompleted" ELSE "record"
          /\ at[c] = "insertPack"
      BY DEF TInv, TypeOK, InsertPack, Go, eventVars
    <3>2. job[c].kind \in {"end", "save"} /\ ShapeOf(c)
      BY <3>1 DEF TInv, Shape, ShapeOf
    <3>3. at[c] # "unborn" /\ job[c] \in Jobs
      BY <3>1, <3>2 DEF ShapeOf
    <3>4. ShapeOf(c)'
      BY <3>1, <3>2, <3>3 DEF ShapeOf, HookKinds
    <3> QED
      BY <2>1, <3>4
  <2>2. CASE d # c
    <3>1. /\ at'[d] = at[d] /\ row'[d] = row[d] /\ written'[d] = written[d]
          /\ job' = job /\ held' = held /\ queued' = queued
      BY <2>2 DEF TInv, TypeOK, InsertPack, Go, runVars, eventVars
    <3>2. at[d] = "upgradePack" => job[d].session \in Sessions
      BY DEF TInv, Shape, ShapeOf, Jobs
    <3> QED
      BY <1>3, <3>1, <3>2 DEF TInv, Shape, ShapeOf
  <2> QED
    BY <2>1, <2>2
<1> QED
  BY <1>4, <1>5 DEF TInv

LEMMA TypesUpgradePack ==
  ASSUME TInv, NEW c \in Calls, UpgradePack(c)
  PROVE  TInv'
<1>1. /\ job[c] \in Jobs /\ job[c].session \in Sessions /\ NewPack(c) \in Pack
      /\ row[c] \in DOMAIN packs[job[c].session]
  BY NewPackType DEF TInv, Shape, ShapeOf, UpgradePack, Jobs
<1>2. /\ packs' \in [Sessions -> Seq(Pack)]
      /\ \A z \in Sessions : DOMAIN packs'[z] = DOMAIN packs[z]
  BY <1>1, ReplaceRow DEF TInv, UpgradePack
<1>3. TypeOK'
  BY <1>2 DEF TInv, TypeOK, UpgradePack, Go, runVars, eventVars, Steps
<1>4. Shape'
  BY <1>1, <1>2 DEF TInv, TypeOK, Shape, ShapeOf, UpgradePack, Go, runVars, eventVars, Jobs
<1> QED
  BY <1>3, <1>4 DEF TInv

LEMMA TypesReadPacks ==
  ASSUME TInv, NEW c \in Calls, ReadPacks(c)
  PROVE  TInv'
<1> DEFINE p == packs[job[c].session]
<1>1. job[c] \in Jobs /\ job[c].session \in Sessions /\ job[c].kind = "save"
  BY DEF TInv, Shape, ShapeOf, ReadPacks, Jobs
<1>2. p \in Seq(Pack) /\ DOMAIN p = 1..Len(p) /\ Len(p) \in Nat
  BY <1>1, LenProperties DEF TInv, TypeOK
<1>3. /\ row' \in [Calls -> Nat]
      /\ \A d \in Calls : d # c => row'[d] = row[d]
      /\ at'[c] = "upgradePack" => row'[c] \in DOMAIN p
  <2>1. CASE \E i \in DOMAIN p : Matches(c, i) /\ row' = [row EXCEPT ![c] = i]
                                 /\ Go(c, "markCompleted")
    BY <1>2, <2>1 DEF TInv, TypeOK, Go
  <2>2. CASE Len(p) > 0 /\ row' = [row EXCEPT ![c] = Len(p)]
    BY <1>2, <2>2 DEF TInv, TypeOK
  <2>3. CASE row' = row /\ Go(c, "insertPack")
    BY <2>3 DEF TInv, TypeOK, Go
  <2> QED
    BY <2>1, <2>2, <2>3 DEF ReadPacks
<1>4. TypeOK'
  BY <1>3 DEF TInv, TypeOK, ReadPacks, Go, runVars, eventVars, Steps
<1>5. Shape'
  <2>1. /\ packs' = packs /\ job' = job /\ held' = held /\ queued' = queued
        /\ at'[c] \in {"markCompleted", "upgradePack", "insertPack"}
        /\ written'[c] # "none" => at'[c] = "markCompleted" \/ written[c] # "none"
        /\ \A d \in Calls : d # c => at'[d] = at[d] /\ written'[d] = written[d]
        /\ at[c] = "readPacks"
    BY DEF TInv, TypeOK, ReadPacks, Go, eventVars
  <2>2. ASSUME NEW d \in Calls PROVE ShapeOf(d)'
    <3>1. ShapeOf(d)
      BY DEF TInv, Shape
    <3>2. CASE d = c
      BY <1>1, <1>3, <2>1, <3>1, <3>2 DEF ShapeOf, HookKinds
    <3>3. CASE d # c
      BY <1>3, <2>1, <3>1, <3>3 DEF ShapeOf
    <3> QED
      BY <3>2, <3>3
  <2> QED
    BY <2>2 DEF Shape
<1> QED
  BY <1>4, <1>5 DEF TInv

LEMMA TypesRest ==
  ASSUME TInv, NEW c \in Calls, ReadStatus(c) \/ Cancel(c) \/ Die(c) \/ Land(c)
  PROVE  TInv'
<1>1. job[c] \in Jobs /\ job[c].session \in Sessions
  BY DEF TInv, Shape, ShapeOf, ReadStatus, Cancel, Die, Land, Jobs
<1>2. TypeOK'
  <2>1. CASE ReadStatus(c) \/ Cancel(c) \/ Die(c)
    <3>1. at' \in [Calls -> Steps] /\ packless' \subseteq Sessions
      BY <1>1, <2>1 DEF TInv, TypeOK, ReadStatus, Cancel, Die, Go, Steps, packVars
    <3>2. status' \in [Sessions -> Terminal \cup {"none", "in_progress"}]
      BY <1>1, <2>1 DEF TInv, TypeOK, ReadStatus, Cancel, Die, SetStatus, runVars, Terminal
    <3> QED
      BY <2>1, <3>1, <3>2 DEF TInv, TypeOK, ReadStatus, Cancel, Die, runVars, eventVars, packVars
  <2>2. CASE Land(c)
    <3>1. 0 \in Ages
      BY DEF Ages, Old
    <3> QED
      BY <1>1, <2>2, <3>1 DEF TInv, TypeOK, Land, runVars, packVars
  <2> QED
    BY <2>1, <2>2
<1>3. Shape'
  <2>1. CASE ReadStatus(c) \/ Cancel(c)
    BY <1>1, <2>1 DEF TInv, TypeOK, Shape, ShapeOf, ReadStatus, Cancel, Go, runVars, eventVars, packVars
  <2>2. CASE Die(c)
    BY <1>1, <2>2 DEF TInv, TypeOK, Shape, ShapeOf, Die, Go, eventVars
  <2>3. CASE Land(c)
    BY <2>3 DEF TInv, Shape, ShapeOf, Land, packVars
  <2> QED
    BY <2>1, <2>2, <2>3
<1> QED
  BY <1>2, <1>3 DEF TInv

\* The steps of calls, listed once for every proof by cases.
LEMMA StepCases ==
  ASSUME Next
  PROVE  \/ \E c \in Calls, s \in Sessions, k \in Kinds, t \in Texts \cup {Digest} : Arrive(c, s, k, t)
         \/ \E c \in Calls : Select(c) \/ Insert(c) \/ Reselect(c) \/ Resume(c)
         \/ \E c \in Calls : \/ Classify(c) \/ MarkCompleted(c) \/ MarkFailed(c) \/ CheckPack(c)
                            \/ AutoPackFails(c) \/ Record(c) \/ Abandon(c)
         \/ \E c \in Calls : InsertPack(c) \/ ReadPacks(c) \/ UpgradePack(c)
         \/ \E c \in Calls : ReadStatus(c) \/ Cancel(c) \/ Die(c) \/ Land(c)
         \/ Sweep
         \/ Tick
BY DEF Next, HookStep

LEMMA TypesNext ==
  ASSUME TInv, [Next]_vars
  PROVE  TInv'
<1>1. CASE Sweep
  <2>1. status' \in [Sessions -> Terminal \cup {"none", "in_progress"}]
    BY <1>1 DEF TInv, TypeOK, Sweep, Terminal
  <2> QED
    BY <1>1, <2>1 DEF TInv, TypeOK, Shape, ShapeOf, Sweep, eventVars, packVars
<1>2. CASE Tick
  <2>1. \A a \in Ages : Older(a) \in Ages
    BY DEF Ages, Old, Older
  <2>2. age' \in [Sessions -> Ages] /\ quiet' \in [Sessions -> Ages]
    BY <1>2, <2>1 DEF TInv, TypeOK, Tick
  <2> QED
    BY <1>2, <2>2 DEF TInv, TypeOK, Shape, ShapeOf, Tick, packVars
<1>3. CASE UNCHANGED vars
  BY <1>3 DEF TInv, TypeOK, Shape, ShapeOf, vars, runVars, eventVars, packVars
<1> QED
  BY <1>1, <1>2, <1>3, StepCases, TypesArrive, TypesResolve, TypesHandle, TypesInsertPack,
     TypesUpgradePack, TypesReadPacks, TypesRest

\* Every reachable state is well typed; a call is where its kind can be.
THEOREM TypeCorrect == Spec => []TypeOK
<1>1. TInv => TypeOK
  BY DEF TInv
<1> QED
  BY <1>1, TypesInit, TypesNext, PTL DEF Spec

LEMMA TypesHold == Spec => []TInv
BY TypesInit, TypesNext, PTL DEF Spec

-----------------------------------------------------------------------------
(* One run for a session *)

\* Where a call may be only once it has its run.
Resolved == {"resume", "classify", "markCompleted", "markFailed", "checkPack", "insertPack", "record",
             "recordStart", "abandon", "readPacks", "upgradePack", "readStatus", "cancel"}

HeldOf(c) ==
  /\ held[c] # None => held[c] = runId[job[c].session]
  /\ at[c] \in Resolved => held[c] # None
  /\ at[c] = "reselect" => runId[job[c].session] # None

RInv ==
  /\ \A s \in Sessions : status[s] = "none" <=> runId[s] = None
  /\ \A c \in Calls : HeldOf(c)

LEMMA RunsInit == Init => RInv
BY DEF Init, RInv, HeldOf, Resolved

\* Steps that leave the runs' ids, and what the calls hold, as they are.
LEMMA RunsSame ==
  ASSUME TInv, RInv, runId' = runId, held' = held, job' = job,
         \A s \in Sessions : status'[s] = "none" <=> status[s] = "none",
         \A c \in Calls : \/ at'[c] = at[c]
                          \/ at'[c] # "reselect" /\ (at'[c] \in Resolved => at[c] \in Resolved)
  PROVE  RInv'
<1> SUFFICES ASSUME NEW c \in Calls PROVE HeldOf(c)'
  BY DEF RInv
<1>1. HeldOf(c)
  BY DEF RInv
<1> QED
  BY <1>1 DEF HeldOf

LEMMA RunsArrive ==
  ASSUME TInv, RInv, NEW c \in Calls, NEW s \in Sessions, NEW k \in Kinds, NEW t \in Texts \cup {Digest},
         Arrive(c, s, k, t)
  PROVE  RInv'
<1>1. status' = status /\ runId' = runId
  BY DEF Arrive, runVars
<1>2. ASSUME NEW d \in Calls PROVE HeldOf(d)'
  <2>1. CASE d = c
    <3>1. job'[c] = [session |-> s, kind |-> k, text |-> t] /\ at'[c] = FirstStep(k)
      BY DEF TInv, TypeOK, Arrive, Go
    <3>2. held'[c] = IF k \in HookKinds THEN None ELSE runId[s]
      BY DEF TInv, TypeOK, Arrive
    <3>3. /\ k \in HookKinds => FirstStep(k) = "select"
          /\ k \notin HookKinds => k \in {"save", "cancel"}
          /\ FirstStep(k) \in {"select", "readPacks", "readStatus"}
      BY DEF FirstStep, HookKinds, AllKinds
    <3>4. k \in {"save", "cancel"} => runId[s] # None
      BY DEF Arrive
    <3> QED
      BY <1>1, <2>1, <3>1, <3>2, <3>3, <3>4 DEF HeldOf, Resolved
  <2>2. CASE d # c
    <3>1. job'[d] = job[d] /\ at'[d] = at[d] /\ held'[d] = held[d]
      BY <2>2 DEF TInv, TypeOK, Arrive, Go
    <3> QED
      BY <1>1, <3>1 DEF RInv, HeldOf
  <2> QED
    BY <2>1, <2>2
<1> QED
  BY <1>1, <1>2 DEF RInv

LEMMA RunsSelect ==
  ASSUME TInv, RInv, NEW c \in Calls, Select(c) \/ Reselect(c)
  PROVE  RInv'
<1> DEFINE s == job[c].session
<1>1. s \in Sessions /\ job[c].kind \in HookKinds
  BY DEF TInv, Shape, ShapeOf, Select, Reselect, Jobs
<1>2. status' = status /\ runId' = runId /\ job' = job
  BY DEF Select, Reselect, runVars
<1>3. held'[c] = runId[s] /\ \A d \in Calls : d # c => held'[d] = held[d] /\ at'[d] = at[d]
  BY DEF TInv, TypeOK, Select, Reselect, Go
<1>4. at'[c] # "reselect" /\ (at'[c] \in Resolved => runId[s] # None)
  <2>1. CASE Select(c)
    <3>1. at'[c] = CASE status[s] = "none" -> "insert"
                     [] status[s] = "in_progress" -> Handle(job[c].kind)
                     [] OTHER -> "resume"
      BY <2>1 DEF TInv, TypeOK, Select, Go
    <3>2. status[s] = "none" <=> runId[s] = None
      BY <1>1 DEF RInv
    <3> QED
      BY <1>1, <3>1, <3>2, HandleType DEF Resolved
  <2>2. CASE Reselect(c)
    <3>1. at'[c] = Handle(job[c].kind) /\ runId[s] # None
      BY <2>2 DEF TInv, TypeOK, RInv, HeldOf, Reselect, Go
    <3> QED
      BY <1>1, <3>1, HandleType
  <2> QED
    BY <2>1, <2>2
<1>5. ASSUME NEW d \in Calls PROVE HeldOf(d)'
  BY <1>2, <1>3, <1>4 DEF RInv, HeldOf
<1> QED
  BY <1>2, <1>5 DEF RInv

LEMMA RunsInsert ==
  ASSUME TInv, RInv, NEW c \in Calls, Insert(c)
  PROVE  RInv'
<1> DEFINE s == job[c].session
<1>1. s \in Sessions /\ job[c].kind \in HookKinds /\ job' = job
  BY DEF TInv, Shape, ShapeOf, Insert, Jobs
<1>2. \A d \in Calls : d # c => at'[d] = at[d] /\ held'[d] = held[d]
  BY DEF TInv, TypeOK, Insert, Go
<1>3. CASE runId[s] = None
  <2>1. /\ runId'[s] = c /\ status'[s] = "in_progress"
        /\ \A z \in Sessions : z # s => runId'[z] = runId[z] /\ status'[z] = status[z]
        /\ held'[c] = c /\ at'[c] = Handle(job[c].kind)
    BY <1>1, <1>3 DEF TInv, TypeOK, Insert, Go, SetStatus
  <2>2. ASSUME NEW d \in Calls PROVE HeldOf(d)'
    <3>1. CASE d = c
      BY <1>1, <2>1, <3>1, HandleType DEF HeldOf
    <3>2. CASE d # c
      <4>1. HeldOf(d) /\ held[d] \in Calls \cup {None} /\ at'[d] = at[d] /\ held'[d] = held[d]
        BY <1>2, <3>2 DEF RInv, TInv, TypeOK
      <4>2. CASE job[d].session = s
        BY <1>1, <1>3, <2>1, <4>1, <4>2 DEF HeldOf
      <4>3. CASE job[d].session # s
        <5>1. at[d] # "unborn" => job[d].session \in Sessions
          BY DEF TInv, Shape, ShapeOf, Jobs
        <5>2. at[d] = "unborn" => held[d] = None
          BY DEF TInv, Shape, ShapeOf
        <5> QED
          BY <1>1, <2>1, <4>1, <4>3, <5>1, <5>2 DEF HeldOf, Resolved
      <4> QED
        BY <4>2, <4>3
    <3> QED
      BY <3>1, <3>2
  <2> QED
    BY <1>1, <2>1, <2>2 DEF RInv
<1>4. CASE runId[s] # None
  <2>1. runId' = runId /\ status' = status /\ held' = held /\ at'[c] = "reselect"
    BY <1>4 DEF TInv, TypeOK, Insert, Go, runVars
  <2>2. ASSUME NEW d \in Calls PROVE HeldOf(d)'
    BY <1>1, <1>2, <1>4, <2>1 DEF RInv, HeldOf, Resolved
  <2> QED
    BY <2>1, <2>2 DEF RInv
<1> QED
  BY <1>3, <1>4

LEMMA RunsNext ==
  ASSUME TInv, RInv, [Next]_vars
  PROVE  RInv'
<1>1. ASSUME NEW c \in Calls, Resume(c) \/ MarkCompleted(c) \/ MarkFailed(c) \/ Cancel(c) PROVE RInv'
  <2> DEFINE s == job[c].session
  <2>1. s \in Sessions /\ at[c] \in Resolved /\ at[c] # "unborn"
    BY <1>1 DEF TInv, Shape, ShapeOf, Resume, MarkCompleted, MarkFailed, Cancel, Jobs, Resolved
  <2>2. runId[s] # None
    BY <2>1 DEF RInv, HeldOf
  <2>3. status[s] # "none" /\ status'[s] # "none" /\ \A z \in Sessions : z # s => status'[z] = status[z]
    BY <1>1, <2>1, <2>2 DEF RInv, TInv, TypeOK, Resume, MarkCompleted, MarkFailed, Cancel, SetStatus
  <2>4. at'[c] # "reselect" /\ \A d \in Calls : d # c => at'[d] = at[d]
    <3>1. CASE Resume(c)
      <4>1. job[c].kind \in HookKinds
        BY <3>1 DEF TInv, Shape, ShapeOf, Resume
      <4> QED
        BY <3>1, <4>1, HandleType DEF TInv, TypeOK, Resume, Go
    <3>2. CASE MarkCompleted(c) \/ MarkFailed(c) \/ Cancel(c)
      BY <3>2 DEF TInv, TypeOK, MarkCompleted, MarkFailed, Cancel, Go
    <3> QED
      BY <1>1, <3>1, <3>2
  <2>5. runId' = runId /\ held' = held /\ job' = job
    BY <1>1 DEF Resume, MarkCompleted, MarkFailed, Cancel
  <2> QED
    BY <2>1, <2>3, <2>4, <2>5, RunsSame
<1>2. ASSUME NEW c \in Calls,
             \/ Classify(c) \/ CheckPack(c) \/ AutoPackFails(c) \/ Record(c)
             \/ InsertPack(c) \/ ReadPacks(c) \/ UpgradePack(c) \/ ReadStatus(c) \/ Die(c) \/ Land(c)
      PROVE RInv'
  <2>1. runId' = runId /\ held' = held /\ job' = job /\ status' = status
    BY <1>2 DEF Classify, CheckPack, AutoPackFails, Record, InsertPack, ReadPacks, UpgradePack, ReadStatus, Die, Land,
                runVars
  <2>2. ASSUME NEW d \in Calls
        PROVE  \/ at'[d] = at[d]
               \/ at'[d] # "reselect" /\ (at'[d] \in Resolved => at[d] \in Resolved)
    <3>1. CASE Classify(c) \/ CheckPack(c) \/ AutoPackFails(c) \/ Record(c) \/ ReadStatus(c)
      BY <3>1 DEF TInv, TypeOK, Classify, CheckPack, AutoPackFails, Record, ReadStatus, Go, Resolved
    <3>2. CASE InsertPack(c) \/ UpgradePack(c) \/ Die(c) \/ Land(c)
      BY <3>2 DEF TInv, TypeOK, InsertPack, UpgradePack, Die, Land, Go, Resolved
    <3>3. CASE ReadPacks(c)
      BY <3>3 DEF TInv, TypeOK, ReadPacks, Go, Resolved
    <3> QED
      BY <1>2, <3>1, <3>2, <3>3
  <2> QED
    BY <2>1, <2>2, RunsSame
<1>3. ASSUME NEW c \in Calls, Abandon(c) PROVE RInv'
  <2>1. runId' = runId /\ held' = held /\ job' = job
    BY <1>3 DEF Abandon
  <2>2. \A s \in Sessions : status'[s] = "none" <=> status[s] = "none"
    BY <1>3 DEF Abandon
  <2>3. at' = [at EXCEPT ![c] = "done"]
    BY <1>3 DEF Abandon, Go
  <2> QED
    BY <2>1, <2>2, <2>3, RunsSame DEF TInv, TypeOK, Resolved
<1>4. CASE Sweep
  <2>1. runId' = runId /\ held' = held /\ job' = job /\ at' = at
    BY <1>4 DEF Sweep
  <2>2. \A s \in Sessions : status'[s] = "none" <=> status[s] = "none"
    BY <1>4 DEF Sweep, Stale
  <2> QED
    BY <2>1, <2>2, RunsSame
<1>5. CASE Tick \/ UNCHANGED vars
  <2>1. runId' = runId /\ held' = held /\ job' = job /\ at' = at /\ status' = status
    BY <1>5 DEF Tick, vars, runVars
  <2> QED
    BY <2>1, RunsSame
<1> QED
  BY <1>1, <1>2, <1>3, <1>4, <1>5, StepCases, RunsArrive, RunsSelect, RunsInsert

\* Every call that has resolved its session's run works with the one row there is.
THEOREM SessionHasOneRun == Spec => []RunsAgree
<1>1. TInv /\ RInv /\ [Next]_vars => (TInv /\ RInv)'
  BY TypesNext, RunsNext
<1>2. RInv => RunsAgree
  BY DEF RInv, HeldOf, RunsAgree
<1> QED
  BY <1>1, <1>2, TypesInit, RunsInit, PTL DEF Spec

\* Neither sweep, nor another session's call, changes a finished run.
THEOREM FinishedRunsStayFinished == Spec => FinishedStayFinished
<1>1. ASSUME TInv, RInv, [Next]_vars PROVE FinishedKept
  <2>1. ASSUME NEW c \in Calls, Resume(c) \/ MarkCompleted(c) \/ MarkFailed(c) \/ Cancel(c) PROVE FinishedKept
    <3>1. at[c] \in {"resume", "markCompleted", "markFailed", "cancel"}
      BY <2>1 DEF Resume, MarkCompleted, MarkFailed, Cancel
    <3>2. \E new : status' = [status EXCEPT ![job[c].session] = new]
      BY <2>1 DEF Resume, MarkCompleted, MarkFailed, Cancel, SetStatus
    <3>3. \A s \in Sessions : s # job[c].session => status'[s] = status[s]
      BY <1>1, <3>2 DEF TInv, TypeOK
    <3> QED
      BY <3>1, <3>3 DEF FinishedKept
  <2>2. ASSUME NEW c \in Calls, Insert(c) PROVE FinishedKept
    <3>1. CASE runId[job[c].session] = None
      <4>1. status' = [status EXCEPT ![job[c].session] = "in_progress"]
        BY <2>2, <3>1 DEF Insert, SetStatus
      <4>2. \A s \in Sessions : status'[s] # status[s] => s = job[c].session
        BY <1>1, <4>1 DEF TInv, TypeOK
      <4>3. \A s \in Sessions : runId[s] = None => status[s] = "none"
        BY <1>1 DEF RInv
      <4> QED
        BY <3>1, <4>2, <4>3 DEF FinishedKept, Terminal
    <3>2. CASE runId[job[c].session] # None
      BY <2>2, <3>2 DEF Insert, runVars, FinishedKept
    <3> QED
      BY <3>1, <3>2
  <2>3. ASSUME NEW c \in Calls, Abandon(c) PROVE FinishedKept
    BY <2>3 DEF Abandon, Terminal, FinishedKept
  <2>4. CASE Sweep
    BY <2>4 DEF Sweep, Stale, Terminal, FinishedKept
  <2>5. ASSUME status' = status PROVE FinishedKept
    BY <2>5 DEF FinishedKept
  <2>6. ASSUME NEW c \in Calls,
               \/ Select(c) \/ Reselect(c) \/ Classify(c) \/ CheckPack(c) \/ AutoPackFails(c) \/ Record(c)
               \/ InsertPack(c) \/ ReadPacks(c) \/ UpgradePack(c) \/ ReadStatus(c) \/ Die(c) \/ Land(c)
        PROVE  status' = status
    BY <2>6 DEF Select, Reselect, Classify, CheckPack, AutoPackFails, Record, InsertPack, ReadPacks, UpgradePack,
                ReadStatus, Die, Land, runVars
  <2>7. CASE Tick \/ UNCHANGED vars
    BY <2>5, <2>7 DEF Tick, vars, runVars
  <2>8. ASSUME NEW c \in Calls, NEW s \in Sessions, NEW k \in Kinds, NEW t \in Texts \cup {Digest}, Arrive(c, s, k, t)
        PROVE  status' = status
    BY <2>8 DEF Arrive, runVars
  <2> QED
    BY <1>1, <2>1, <2>2, <2>3, <2>4, <2>5, <2>6, <2>7, <2>8, StepCases
<1>2. TInv /\ RInv /\ [Next]_vars => (TInv /\ RInv)'
  BY TypesNext, RunsNext
<1>3. TInv /\ RInv /\ [Next]_vars => FinishedKept
  BY <1>1
<1> QED
  BY <1>2, <1>3, TypesInit, RunsInit, PTL DEF Spec, FinishedStayFinished

-----------------------------------------------------------------------------
(* The packs of a run *)

\* Text and author of row r of session s are the ones call c saves.
SavedBy(c, r) ==
  LET p == packs[job[c].session] IN p[r].text = job[c].text /\ p[r].source = "agent"

PacksOf(c) ==
  /\ written[c] # "none" => row[c] \in DOMAIN packs[job[c].session]
  /\ at[c] = "markCompleted" /\ job[c].kind = "save" => written[c] # "none"
  /\ job[c].kind = "save" /\ written[c] = "created" =>
       /\ SavedBy(c, row[c])
       /\ \A d \in Calls :
            at[d] = "upgradePack" /\ job[d].session = job[c].session => row[d] # row[c]

\* What SavesAccountedFor says of one call.
Accounted(c) ==
  job[c].kind = "save" /\ written[c] # "none" =>
    LET p == packs[job[c].session] IN
    /\ row[c] \in DOMAIN p
    /\ \/ p[row[c]].text = job[c].text
       \/ /\ written[c] # "created"
          /\ \E d \in Calls \ {c} :
               /\ job[d].session = job[c].session
               /\ written[d] = "upgraded_from_bridge_auto"
               /\ row[d] = row[c] /\ p[row[c]].text = job[d].text

PInv == \A c \in Calls : PacksOf(c) /\ Accounted(c)

LEMMA PacksInit == Init => PInv
BY DEF Init, PInv, PacksOf, Accounted

\* Steps that neither write a pack nor move a call to or from a pack's row.
LEMMA PacksSame ==
  ASSUME TInv, PInv, packs' = packs, row' = row, written' = written,
         \A c \in Calls : /\ job'[c] = job[c] \/ at[c] = "unborn"
                          /\ at'[c] # at[c] => /\ at'[c] # "upgradePack"
                                               /\ at'[c] = "markCompleted" => job'[c].kind # "save"
  PROVE  PInv'
<1> SUFFICES ASSUME NEW c \in Calls PROVE PacksOf(c)' /\ Accounted(c)'
  BY DEF PInv
<1>1. PacksOf(c) /\ Accounted(c) /\ \A d \in Calls : ShapeOf(d)
  BY DEF PInv, TInv, Shape
<1>2. \A d \in Calls : written[d] # "none" \/ at[d] = "upgradePack" => job'[d] = job[d]
  BY <1>1 DEF ShapeOf
<1>3. PacksOf(c)'
  BY <1>1, <1>2 DEF PacksOf, SavedBy
<1>4. Accounted(c)'
  BY <1>1, <1>2 DEF Accounted
<1> QED
  BY <1>3, <1>4

LEMMA PacksInsert ==
  ASSUME TInv, PInv, NEW c \in Calls, InsertPack(c)
  PROVE  PInv'
<1> DEFINE s == job[c].session
<1>1. /\ s \in Sessions /\ NewPack(c) \in Pack
      /\ at[c] = "insertPack" /\ written[c] = "none" /\ job' = job
  BY NewPackType DEF TInv, Shape, ShapeOf, InsertPack, Jobs
<1>2. /\ row'[c] = Len(packs[s]) + 1 /\ written'[c] = "created" /\ at'[c] # "upgradePack"
      /\ \A d \in Calls : d # c => row'[d] = row[d] /\ written'[d] = written[d] /\ at'[d] = at[d]
  BY DEF TInv, TypeOK, InsertPack, Go
<1>3. /\ \A z \in Sessions : DOMAIN packs[z] \subseteq DOMAIN packs'[z]
      /\ \A z \in Sessions : \A i \in DOMAIN packs[z] : packs'[z][i] = packs[z][i]
      /\ row'[c] \in DOMAIN packs'[s] /\ row'[c] \notin DOMAIN packs[s]
      /\ packs'[s][row'[c]] = NewPack(c)
  <2>1. packs' = [packs EXCEPT ![s] = Append(@, NewPack(c))] /\ TypeOK
    BY DEF TInv, InsertPack
  <2>2. /\ \A z \in Sessions : DOMAIN packs[z] \subseteq DOMAIN packs'[z]
        /\ \A z \in Sessions : \A i \in DOMAIN packs[z] : packs'[z][i] = packs[z][i]
        /\ Len(packs[s]) + 1 \in DOMAIN packs'[s]
        /\ Len(packs[s]) + 1 \notin DOMAIN packs[s]
        /\ packs'[s][Len(packs[s]) + 1] = NewPack(c)
    BY <1>1, <2>1, AppendRow
  <2> QED
    BY <1>2, <2>2
<1>4. \A d \in Calls : written[d] # "none" \/ at[d] = "upgradePack" =>
        job[d].session \in Sessions /\ row[d] \in DOMAIN packs[job[d].session]
  BY DEF TInv, Shape, ShapeOf, PInv, PacksOf, Jobs
<1>5. job[c].kind = "save" => NewPack(c).text = job[c].text /\ NewPack(c).source = "agent"
  BY DEF NewPack
<1>6. ASSUME NEW d \in Calls PROVE PacksOf(d)' /\ Accounted(d)'
  <2>1. CASE d = c
    BY <1>1, <1>2, <1>3, <1>4, <1>5, <2>1 DEF PacksOf, Accounted, SavedBy
  <2>2. CASE d # c
    <3>1. PacksOf(d) /\ Accounted(d)
      BY DEF PInv
    <3>2. PacksOf(d)'
      BY <1>1, <1>2, <1>3, <1>4, <2>2, <3>1 DEF PacksOf, SavedBy
    <3>3. Accounted(d)'
      BY <1>1, <1>2, <1>3, <1>4, <2>2, <3>1 DEF Accounted
    <3> QED
      BY <3>2, <3>3
  <2> QED
    BY <2>1, <2>2
<1> QED
  BY <1>6 DEF PInv

LEMMA PacksRead ==
  ASSUME TInv, PInv, NEW c \in Calls, ReadPacks(c)
  PROVE  PInv'
<1> DEFINE p == packs[job[c].session]
<1>1. packs' = packs /\ job' = job /\ at[c] = "readPacks" /\ written[c] = "none"
  BY DEF TInv, Shape, ShapeOf, ReadPacks
<1>2. \A d \in Calls : d # c => row'[d] = row[d] /\ written'[d] = written[d] /\ at'[d] = at[d]
  BY DEF TInv, TypeOK, ReadPacks, Go
<1>3. \/ /\ row'[c] \in DOMAIN p /\ p[row'[c]].text = job[c].text
         /\ written'[c] = "idempotent_hit" /\ at'[c] = "markCompleted"
      \/ /\ p[row'[c]].source = "bridge_auto"
         /\ written'[c] = "none" /\ at'[c] = "upgradePack"
      \/ written'[c] = "none" /\ at'[c] = "insertPack"
  <2>1. CASE \E i \in DOMAIN p : /\ Matches(c, i)
                                 /\ row' = [row EXCEPT ![c] = i]
                                 /\ written' = [written EXCEPT ![c] = "idempotent_hit"]
                                 /\ Go(c, "markCompleted")
    BY <2>1 DEF TInv, TypeOK, Matches, Go
  <2>2. CASE /\ p[Len(p)].source = "bridge_auto"
             /\ row' = [row EXCEPT ![c] = Len(p)]
             /\ Go(c, "upgradePack") /\ UNCHANGED written
    BY <1>1, <2>2 DEF TInv, TypeOK, Go
  <2>3. CASE Go(c, "insertPack") /\ UNCHANGED <<row, written>>
    BY <1>1, <2>3 DEF TInv, TypeOK, Go
  <2> QED
    BY <2>1, <2>2, <2>3 DEF ReadPacks
<1>4. ASSUME NEW d \in Calls PROVE PacksOf(d)' /\ Accounted(d)'
  <2>1. CASE d = c
    BY <1>1, <1>3, <2>1 DEF PacksOf, Accounted
  <2>2. CASE d # c
    <3>1. PacksOf(d) /\ Accounted(d)
      BY DEF PInv
    <3>2. PacksOf(d)'
      BY <1>1, <1>2, <1>3, <2>2, <3>1 DEF PacksOf, SavedBy
    <3>3. Accounted(d)'
      BY <1>1, <1>2, <2>2, <3>1 DEF Accounted
    <3> QED
      BY <3>2, <3>3
  <2> QED
    BY <2>1, <2>2
<1> QED
  BY <1>4 DEF PInv

LEMMA PacksUpgrade ==
  ASSUME TInv, PInv, NEW c \in Calls, UpgradePack(c)
  PROVE  PInv'
<1> DEFINE s == job[c].session
<1>1. /\ s \in Sessions /\ NewPack(c) \in Pack /\ row[c] \in DOMAIN packs[s]
      /\ job[c].kind = "save" /\ at[c] = "upgradePack" /\ written[c] = "none"
      /\ job' = job /\ row' = row
  BY NewPackType DEF TInv, Shape, ShapeOf, UpgradePack, Jobs
<1>2. /\ written'[c] = "upgraded_from_bridge_auto" /\ at'[c] = "markCompleted"
      /\ \A d \in Calls : d # c => written'[d] = written[d] /\ at'[d] = at[d]
  BY DEF TInv, TypeOK, UpgradePack, Go
<1>3. /\ \A z \in Sessions : DOMAIN packs'[z] = DOMAIN packs[z]
      /\ \A z \in Sessions : \A i \in DOMAIN packs[z] :
           packs'[z][i] = IF z = s /\ i = row[c] THEN NewPack(c) ELSE packs[z][i]
  BY <1>1, ReplaceRow DEF TInv, UpgradePack
<1>4. NewPack(c).text = job[c].text /\ NewPack(c).source = "agent"
  BY <1>1 DEF NewPack
<1>5. \A d \in Calls : written[d] # "none" =>
        job[d].session \in Sessions /\ row[d] \in DOMAIN packs[job[d].session]
  BY DEF TInv, Shape, ShapeOf, PInv, PacksOf, Jobs
<1>6. ASSUME NEW d \in Calls PROVE PacksOf(d)' /\ Accounted(d)'
  <2>1. CASE d = c
    BY <1>1, <1>2, <1>3, <1>4, <2>1 DEF PacksOf, Accounted
  <2>2. CASE d # c
    <3>1. PacksOf(d) /\ Accounted(d)
      BY DEF PInv
    <3>2. PacksOf(d)'
      BY <1>1, <1>2, <1>3, <1>5, <2>2, <3>1 DEF PacksOf, SavedBy
    <3>3. Accounted(d)'
      <4>1. CASE job[d].session = s /\ row[d] = row[c]
        BY <1>1, <1>2, <1>3, <1>4, <1>5, <2>2, <3>1, <4>1 DEF PacksOf, Accounted
      <4>2. CASE job[d].session # s \/ row[d] # row[c]
        <5>1. written[d] # "none" => packs'[job[d].session][row[d]] = packs[job[d].session][row[d]]
          BY <1>3, <1>5, <4>2
        <5> QED
          BY <1>1, <1>2, <1>3, <1>5, <2>2, <3>1, <5>1 DEF Accounted
      <4> QED
        BY <4>1, <4>2
    <3> QED
      BY <3>2, <3>3
  <2> QED
    BY <2>1, <2>2
<1> QED
  BY <1>6 DEF PInv

LEMMA PacksNext ==
  ASSUME TInv, PInv, [Next]_vars
  PROVE  PInv'
<1>1. ASSUME NEW c \in Calls, NEW s \in Sessions, NEW k \in Kinds, NEW t \in Texts \cup {Digest},
             Arrive(c, s, k, t)
      PROVE  PInv'
  <2>1. packs' = packs /\ row' = row /\ written' = written /\ at[c] = "unborn"
    BY <1>1 DEF Arrive, packVars
  <2>2. /\ at'[c] \in {"select", "readPacks", "readStatus"}
        /\ \A d \in Calls : d # c => at'[d] = at[d] /\ job'[d] = job[d]
    BY <1>1 DEF TInv, TypeOK, Arrive, Go, FirstStep
  <2> QED
    BY <2>1, <2>2, PacksSame
<1>2. ASSUME NEW c \in Calls, Select(c) \/ Insert(c) \/ Reselect(c) \/ Resume(c) PROVE PInv'
  <2>1. packs' = packs /\ row' = row /\ written' = written /\ job' = job
    BY <1>2 DEF Select, Insert, Reselect, Resume, packVars
  <2>2. job[c].kind \in HookKinds
    BY <1>2 DEF TInv, Shape, ShapeOf, Select, Insert, Reselect, Resume
  <2>3. \E step \in Steps \ {"upgradePack"} : at' = [at EXCEPT ![c] = step]
    <3>1. Handle(job[c].kind) \in Steps \ {"upgradePack"}
      BY <2>2, HandleType
    <3>2. {"insert", "resume", "reselect"} \subseteq Steps \ {"upgradePack"}
      BY DEF Steps
    <3> QED
      BY <1>2, <3>1, <3>2 DEF Select, Insert, Reselect, Resume, Go
  <2>4. job[c].kind # "save"
    BY <2>2 DEF HookKinds
  <2> QED
    BY <2>1, <2>3, <2>4, PacksSame DEF TInv, TypeOK
<1>3. ASSUME NEW c \in Calls,
             \/ Classify(c) \/ MarkCompleted(c) \/ MarkFailed(c) \/ CheckPack(c) \/ AutoPackFails(c)
             \/ Record(c) \/ Abandon(c) \/ ReadStatus(c) \/ Cancel(c) \/ Die(c) \/ Land(c)
      PROVE  PInv'
  <2>1. packs' = packs /\ row' = row /\ written' = written /\ job' = job
    BY <1>3 DEF Classify, MarkCompleted, MarkFailed, CheckPack, AutoPackFails, Record, Abandon,
                ReadStatus, Cancel, Die, Land, packVars
  <2>2. \/ at' = at
        \/ \E step \in Steps \ {"upgradePack", "markCompleted"} : at' = [at EXCEPT ![c] = step]
    <3>1. {"record", "recordStart", "checkPack", "insertPack", "done", "abandon", "cancel", "dead"}
            \subseteq Steps \ {"upgradePack", "markCompleted"}
      BY DEF Steps
    <3>2. CASE Classify(c) \/ MarkCompleted(c) \/ MarkFailed(c) \/ CheckPack(c) \/ AutoPackFails(c)
      BY <3>1, <3>2 DEF Classify, MarkCompleted, MarkFailed, CheckPack, AutoPackFails, Go
    <3>3. CASE Record(c) \/ Abandon(c) \/ ReadStatus(c) \/ Cancel(c) \/ Die(c) \/ Land(c)
      BY <3>1, <3>3 DEF Record, Abandon, ReadStatus, Cancel, Die, Land, Go
    <3> QED
      BY <1>3, <3>2, <3>3
  <2> QED
    BY <2>1, <2>2, PacksSame DEF TInv, TypeOK
<1>4. CASE Sweep \/ Tick \/ UNCHANGED vars
  <2>1. packs' = packs /\ row' = row /\ written' = written /\ job' = job /\ at' = at
    BY <1>4 DEF Sweep, Tick, vars, packVars
  <2> QED
    BY <2>1, PacksSame
<1> QED
  BY <1>1, <1>2, <1>3, <1>4, StepCases, PacksInsert, PacksRead, PacksUpgrade

\* No save's pack is overwritten, except one it found or upgraded, by a save
\* that had read the same automatic row.
THEOREM SavesAreAccountedFor == Spec => []SavesAccountedFor
<1>1. TInv /\ PInv /\ [Next]_vars => (TInv /\ PInv)'
  BY TypesNext, PacksNext
<1>2. PInv => SavesAccountedFor
  BY DEF PInv, Accounted, SavesAccountedFor
<1> QED
  BY <1>1, <1>2, TypesInit, PacksInit, PTL DEF Spec

\* Where the digest of an ended session is still to come, or was lost.
Owed(s) ==
  \/ s \in packless
  \/ \E c \in Calls : job[c].session = s /\ job[c].kind = "end" /\ at[c] \in {"checkPack", "insertPack"}

\* A step that completes no run, loses no pack and takes no SessionEnd away
\* from its digest.
LEMMA PackStillOwed ==
  ASSUME TInv, CompletedHasPack,
         \A s \in Sessions : /\ status'[s] = "completed" => status[s] = "completed"
                             /\ packs'[s] = <<>> => packs[s] = <<>>,
         packless \subseteq packless',
         \A c \in Calls : at[c] \in {"checkPack", "insertPack"} =>
                            at'[c] = at[c] /\ job'[c] = job[c]
  PROVE  CompletedHasPack'
BY DEF CompletedHasPack

\* A run is completed by a SessionEnd that then looks for a pack, or by a save
\* that has written one.
LEMMA CompletedNext ==
  ASSUME TInv, PInv, CompletedHasPack, [Next]_vars
  PROVE  CompletedHasPack'
<1>1. ASSUME NEW c \in Calls, MarkCompleted(c) PROVE CompletedHasPack'
  <2> DEFINE s == job[c].session
  <2>1. /\ s \in Sessions /\ job[c].kind \in {"end", "save"} /\ at[c] = "markCompleted"
        /\ packs' = packs /\ packless' = packless /\ job' = job
    BY <1>1 DEF TInv, Shape, ShapeOf, MarkCompleted, packVars, Jobs
  <2>2. /\ \A z \in Sessions : z # s => status'[z] = status[z]
        /\ at'[c] = IF job[c].kind = "end" THEN "checkPack" ELSE "done"
        /\ \A d \in Calls : d # c => at'[d] = at[d]
    BY <1>1, <2>1 DEF TInv, TypeOK, MarkCompleted, SetStatus, Go
  <2>3. job[c].kind = "save" => packs[s] # <<>>
    BY <2>1 DEF PInv, PacksOf
  <2>4. ASSUME NEW z \in Sessions, status'[z] = "completed", packs'[z] = <<>> PROVE Owed(z)'
    <3>1. CASE z = s
      BY <2>1, <2>2, <2>3, <2>4, <3>1 DEF Owed
    <3>2. CASE z # s
      <4>1. Owed(z)
        BY <2>1, <2>2, <2>4, <3>2 DEF CompletedHasPack, Owed
      <4> QED
        BY <2>1, <2>2, <4>1 DEF Owed
    <3> QED
      BY <3>1, <3>2
  <2> QED
    BY <2>4 DEF CompletedHasPack, Owed
<1>2. ASSUME NEW c \in Calls, CheckPack(c) \/ InsertPack(c) \/ AutoPackFails(c) \/ Die(c)
      PROVE  CompletedHasPack'
  <2> DEFINE s == job[c].session
  <2>1. status' = status /\ job' = job /\ packless \subseteq packless'
    BY <1>2 DEF CheckPack, InsertPack, AutoPackFails, Die, runVars, packVars
  <2>2. \A d \in Calls : d # c => at'[d] = at[d]
    BY <1>2 DEF TInv, TypeOK, CheckPack, InsertPack, AutoPackFails, Die, Go
  <2>3. \A z \in Sessions : packs'[z] = <<>> => packs[z] = <<>>
    <3>1. CASE InsertPack(c)
      <4>1. s \in Sessions /\ NewPack(c) \in Pack
        BY <3>1, NewPackType DEF TInv, Shape, ShapeOf, InsertPack, Jobs
      <4>2. packs' = [packs EXCEPT ![s] = Append(@, NewPack(c))] /\ TypeOK
        BY <3>1 DEF InsertPack, TInv
      <4>3. packs'[s] # <<>>
        BY <4>1, <4>2, AppendRow
      <4> QED
        BY <4>2, <4>3 DEF TypeOK
    <3>2. CASE CheckPack(c) \/ AutoPackFails(c) \/ Die(c)
      BY <3>2 DEF CheckPack, AutoPackFails, Die, packVars
    <3> QED
      BY <1>2, <3>1, <3>2
  <2>4. job[c].kind = "end" /\ at[c] \in {"checkPack", "insertPack"} /\ s \in Sessions =>
          \/ at'[c] \in {"checkPack", "insertPack"}
          \/ packs'[s] # <<>>
          \/ s \in packless'
    <3>1. CASE CheckPack(c)
      BY <3>1 DEF TInv, TypeOK, CheckPack, Go, packVars
    <3>2. CASE InsertPack(c)
      <4> SUFFICES ASSUME s \in Sessions PROVE packs'[s] # <<>>
        OBVIOUS
      <4>1. NewPack(c) \in Pack
        BY <3>2, NewPackType DEF TInv, Shape, ShapeOf, InsertPack
      <4>2. packs' = [packs EXCEPT ![s] = Append(@, NewPack(c))] /\ TypeOK
        BY <3>2 DEF InsertPack, TInv
      <4> QED
        BY <4>1, <4>2, AppendRow
    <3>3. CASE AutoPackFails(c) \/ Die(c)
      BY <3>3 DEF AutoPackFails, Die
    <3> QED
      BY <1>2, <3>1, <3>2, <3>3
  <2>5. ASSUME NEW z \in Sessions, status'[z] = "completed", packs'[z] = <<>> PROVE Owed(z)'
    <3>1. Owed(z)
      BY <2>1, <2>3, <2>5 DEF CompletedHasPack, Owed
    <3> QED
      BY <2>1, <2>2, <2>4, <2>5, <3>1 DEF Owed
  <2> QED
    BY <2>5 DEF CompletedHasPack, Owed
<1>3. ASSUME NEW c \in Calls, UpgradePack(c) PROVE CompletedHasPack'
  <2>1. /\ job[c].session \in Sessions /\ NewPack(c) \in Pack
        /\ row[c] \in DOMAIN packs[job[c].session]
    BY <1>3, NewPackType DEF TInv, Shape, ShapeOf, UpgradePack, Jobs
  <2>2. packs' = [packs EXCEPT ![job[c].session][row[c]] = NewPack(c)] /\ TypeOK
    BY <1>3 DEF UpgradePack, TInv
  <2>3. \A z \in Sessions : packs[z] # <<>> => packs'[z] # <<>>
    BY <2>1, <2>2, ReplaceRow
  <2>4. status' = status /\ packless' = packless /\ job' = job
    BY <1>3 DEF UpgradePack, runVars
  <2>5. at[c] = "upgradePack" /\ \A d \in Calls : d # c => at'[d] = at[d]
    BY <1>3 DEF TInv, TypeOK, UpgradePack, Go
  <2> QED
    BY <2>3, <2>4, <2>5, PackStillOwed
<1>4. ASSUME NEW c \in Calls, NEW s \in Sessions, NEW k \in Kinds, NEW t \in Texts \cup {Digest},
             Arrive(c, s, k, t)
      PROVE  CompletedHasPack'
  <2>1. status' = status /\ packs' = packs /\ packless' = packless /\ at[c] = "unborn"
    BY <1>4 DEF Arrive, runVars, packVars
  <2>2. \A d \in Calls : d # c => at'[d] = at[d] /\ job'[d] = job[d]
    BY <1>4 DEF TInv, TypeOK, Arrive, Go
  <2> QED
    BY <2>1, <2>2, PackStillOwed
<1>5. ASSUME NEW c \in Calls,
             \/ Select(c) \/ Insert(c) \/ Reselect(c) \/ Resume(c)
             \/ Classify(c) \/ MarkFailed(c) \/ Record(c) \/ Abandon(c)
             \/ ReadPacks(c) \/ ReadStatus(c) \/ Cancel(c) \/ Land(c)
      PROVE  CompletedHasPack'
  <2>1. packs' = packs /\ packless' = packless /\ job' = job
    BY <1>5 DEF Select, Insert, Reselect, Resume, Classify, MarkFailed, Record, Abandon,
                ReadPacks, ReadStatus, Cancel, Land, packVars
  <2>2. at' = at \/ at[c] \notin {"checkPack", "insertPack"}
    BY <1>5 DEF Select, Insert, Reselect, Resume, Classify, MarkFailed, Record, Abandon,
                ReadPacks, ReadStatus, Cancel, Land
  <2>3. \A d \in Calls : d # c => at'[d] = at[d]
    <3>1. \/ at' = at
          \/ \E step : at' = [at EXCEPT ![c] = step]
      BY <1>5 DEF Select, Insert, Reselect, Resume, Classify, MarkFailed, Record, Abandon,
                  ReadPacks, ReadStatus, Cancel, Land, Go
    <3> QED
      BY <3>1 DEF TInv, TypeOK
  <2>4. \A z \in Sessions : status'[z] = "completed" => status[z] = "completed"
    <3>1. CASE Select(c) \/ Reselect(c) \/ Classify(c) \/ Record(c) \/ ReadPacks(c) \/ ReadStatus(c) \/ Land(c)
      BY <3>1 DEF Select, Reselect, Classify, Record, ReadPacks, ReadStatus, Land, runVars
    <3>2. CASE Insert(c) \/ Resume(c) \/ MarkFailed(c) \/ Cancel(c)
      <4>1. status' = status \/ \E new \in {"in_progress", "failed", "cancelled"} :
                                  status' = [status EXCEPT ![job[c].session] = new]
        BY <3>2 DEF Insert, Resume, MarkFailed, Cancel, SetStatus, runVars
      <4> QED
        BY <4>1 DEF TInv, TypeOK
    <3>3. CASE Abandon(c)
      BY <3>3 DEF Abandon
    <3> QED
      BY <1>5, <3>1, <3>2, <3>3
  <2> QED
    BY <2>1, <2>2, <2>3, <2>4, PackStillOwed
<1>6. CASE Sweep \/ Tick \/ UNCHANGED vars
  <2>1. packs' = packs /\ packless' = packless /\ job' = job /\ at' = at
    BY <1>6 DEF Sweep, Tick, vars, packVars
  <2>2. \A z \in Sessions : status'[z] = "completed" => status[z] = "completed"
    BY <1>6 DEF Sweep, Tick, vars, runVars
  <2> QED
    BY <2>1, <2>2, PackStillOwed
<1> QED
  BY <1>1, <1>2, <1>3, <1>4, <1>5, <1>6, StepCases

\* A completed run has a pack, unless its SessionEnd is at work on one or failed.
THEOREM CompletedRunsHavePacks == Spec => []CompletedHasPack
<1>1. TInv /\ PInv /\ CompletedHasPack /\ [Next]_vars => (TInv /\ PInv /\ CompletedHasPack)'
  BY TypesNext, PacksNext, CompletedNext
<1>2. Init => CompletedHasPack
  BY DEF Init, CompletedHasPack
<1> QED
  BY <1>1, <1>2, TypesInit, PacksInit, PTL DEF Spec
-----------------------------------------------------------------------------
(* The refinement of RunBook *)

BookVars == <<status, runId, packs, SavedRows>>

\* What saves created does not change by a write that creates no row.
LEMMA SavedRowsKept ==
  ASSUME UNCHANGED job, NEW c \in Calls,
         written[c] # "created", written'[c] # "created",
         \A d \in Calls : d # c => row'[d] = row[d] /\ written'[d] = written[d]
  PROVE  UNCHANGED SavedRows
BY DEF SavedRows

\* Steps that write neither a run nor a pack leave the run log as it is.
LEMMA BookStutters ==
  ASSUME TInv, UNCHANGED <<status, runId, packs, row, written>>,
         \A c \in Calls : job'[c] = job[c] \/ at[c] = "unborn"
  PROVE  UNCHANGED BookVars
<1>1. \A c \in Calls : at[c] = "unborn" => written[c] = "none"
  BY DEF TInv, Shape, ShapeOf
<1> QED
  BY <1>1 DEF BookVars, SavedRows

\* The row that wins the race for a session is the one entry of its run.
LEMMA InsertRefines ==
  ASSUME TInv, NEW c \in Calls, Insert(c)
  PROVE  Book!BNext \/ UNCHANGED BookVars
<1> DEFINE s == job[c].session
<1>1. s \in Sessions /\ UNCHANGED <<packs, row, written, job>>
  BY DEF TInv, Shape, ShapeOf, Insert, packVars, Jobs
<1>2. UNCHANGED SavedRows
  BY <1>1 DEF SavedRows
<1>3. CASE runId[s] = None
  <2>1. Book!Open(s, c)
    BY <1>1, <1>2, <1>3 DEF Book!Open, Insert, SetStatus
  <2> QED
    BY <1>1, <2>1 DEF Book!BNext
<1>4. CASE runId[s] # None
  BY <1>1, <1>2, <1>4 DEF Insert, runVars, BookVars
<1> QED
  BY <1>3, <1>4

\* A call that writes a status has its run, so the log has the entry.
LEMMA ReportRefines ==
  ASSUME TInv, RInv, NEW c \in Calls, Resume(c) \/ MarkCompleted(c) \/ MarkFailed(c) \/ Cancel(c)
  PROVE  Book!BNext
<1> DEFINE s == job[c].session
<1>1. s \in Sessions /\ at[c] \in Resolved
  BY DEF TInv, Shape, ShapeOf, Resume, MarkCompleted, MarkFailed, Cancel, Jobs, Resolved
<1>2. runId[s] # None
  BY <1>1 DEF RInv, HeldOf
<1>3. UNCHANGED <<packs, row, written, job, runId>>
  BY DEF Resume, MarkCompleted, MarkFailed, Cancel, packVars
<1>4. UNCHANGED SavedRows
  BY <1>3 DEF SavedRows
<1>5. PICK st \in {"in_progress", "completed", "failed", "cancelled"} : SetStatus(s, st)
  BY DEF Resume, MarkCompleted, MarkFailed, Cancel
<1>6. Book!Report(s, st)
  BY <1>2, <1>3, <1>4, <1>5 DEF Book!Report, SetStatus
<1> QED
  BY <1>1, <1>6 DEF Book!BNext

\* Both sweeps close in-progress runs only.
LEMMA SweepRefines ==
  ASSUME Sweep \/ \E c \in Calls : Abandon(c)
  PROVE  Book!BNext
<1>1. UNCHANGED <<packs, row, written, job, runId>>
  BY DEF Sweep, Abandon, packVars
<1>2. UNCHANGED SavedRows
  BY <1>1 DEF SavedRows
<1>3. \E silent \in SUBSET Sessions, st \in {"cancelled", "abandoned"} :
        /\ \A s \in silent : status[s] = "in_progress"
        /\ status' = [s \in Sessions |-> IF s \in silent THEN st ELSE status[s]]
  <2>1. CASE Sweep
    <3> DEFINE silent == {s \in Sessions : Stale(s)}
    <3>1. status' = [s \in Sessions |-> IF s \in silent THEN "cancelled" ELSE status[s]]
      BY <2>1 DEF Sweep
    <3>2. \A s \in silent : status[s] = "in_progress"
      BY DEF Stale
    <3> QED
      BY <3>1, <3>2
  <2>2. ASSUME NEW c \in Calls, Abandon(c)
        PROVE  \E silent \in SUBSET Sessions :
                 /\ \A s \in silent : status[s] = "in_progress"
                 /\ status' = [s \in Sessions |-> IF s \in silent THEN "abandoned" ELSE status[s]]
    <3> DEFINE silent == {s \in Sessions : status[s] = "in_progress" /\ s # job[c].session /\ quiet[s] = Old}
    <3>1. status' = [s \in Sessions |-> IF s \in silent THEN "abandoned" ELSE status[s]]
      BY <2>2 DEF Abandon
    <3> QED
      BY <3>1
  <2> QED
    BY <2>1, <2>2
<1>4. PICK silent \in SUBSET Sessions, st \in {"cancelled", "abandoned"} : Book!Retire(silent, st)
  BY <1>1, <1>2, <1>3 DEF Book!Retire
<1> QED
  BY <1>4 DEF Book!BNext

\* A row is filed, and is the agent's own exactly when a save inserted it.
LEMMA FileRefines ==
  ASSUME TInv, RInv, NEW c \in Calls, InsertPack(c)
  PROVE  Book!BNext
<1> DEFINE s == job[c].session
           n == Len(packs[s]) + 1
<1>1. /\ s \in Sessions /\ NewPack(c) \in Pack /\ at[c] \in Resolved
      /\ job[c].kind \in {"end", "save"} /\ written[c] = "none" /\ job' = job
  BY NewPackType DEF TInv, Shape, ShapeOf, InsertPack, Jobs, Resolved
<1>2. runId[s] # None
  BY <1>1 DEF RInv, HeldOf
<1>3. /\ row'[c] = n /\ written'[c] = "created"
      /\ \A d \in Calls : d # c => row'[d] = row[d] /\ written'[d] = written[d]
  BY DEF TInv, TypeOK, InsertPack
<1>4. NewPack(c).source = "agent" <=> job[c].kind = "save"
  BY DEF NewPack
<1>5. SavedRows' = IF NewPack(c).source = "agent"
                   THEN [SavedRows EXCEPT ![s] = @ \cup {n}] ELSE SavedRows
  <2> DEFINE By(z) == {d \in Calls : job[d].session = z /\ job[d].kind = "save" /\ written[d] = "created"}
  <2>1. SavedRows = [z \in Sessions |-> {row[d] : d \in By(z)}]
    BY DEF SavedRows
  <2>2. SavedRows' = [z \in Sessions |-> {row'[d] : d \in By(z)'}]
    BY DEF SavedRows
  <2>3. CASE job[c].kind # "save"
    <3>1. \A z \in Sessions : c \notin By(z) /\ By(z)' = By(z)
      BY <1>1, <1>3, <2>3
    <3>2. \A z \in Sessions : \A d \in By(z) : row'[d] = row[d]
      BY <1>3, <3>1
    <3>3. \A z \in Sessions : {row'[d] : d \in By(z)'} = {row[d] : d \in By(z)}
      BY <3>1, <3>2
    <3> HIDE DEF By
    <3> QED
      BY <1>4, <2>1, <2>2, <2>3, <3>3
  <2>4. CASE job[c].kind = "save"
    <3>1. By(s)' = By(s) \cup {c} /\ c \notin By(s)
      BY <1>1, <1>3, <2>4
    <3>2. \A z \in Sessions : z # s => By(z)' = By(z) /\ c \notin By(z)
      BY <1>1, <1>3
    <3>3. \A z \in Sessions : \A d \in By(z) : row'[d] = row[d]
      BY <1>3, <3>1, <3>2
    <3> HIDE DEF By, n
    <3>4. {row'[d] : d \in By(s)'} = {row[d] : d \in By(s)} \cup {n}
      BY <1>1, <1>3, <3>1, <3>3
    <3>5. \A z \in Sessions : z # s => {row'[d] : d \in By(z)'} = {row[d] : d \in By(z)}
      BY <3>2, <3>3
    <3>6. [SavedRows EXCEPT ![s] = @ \cup {n}]
            = [z \in Sessions |-> IF z = s THEN SavedRows[s] \cup {n} ELSE SavedRows[z]]
      BY <2>1
    <3> QED
      BY <1>1, <1>4, <2>1, <2>2, <2>4, <3>4, <3>5, <3>6, ZenonT(40)
  <2> QED
    BY <2>3, <2>4
<1>6. Book!File(s, NewPack(c))
  BY <1>2, <1>5 DEF Book!File, InsertPack, runVars
<1> QED
  BY <1>1, <1>6 DEF Book!BNext

\* The row a save decided to overwrite was not created by a save.
LEMMA RewriteRefines ==
  ASSUME TInv, PInv, NEW c \in Calls, UpgradePack(c)
  PROVE  Book!BNext
<1> DEFINE s == job[c].session
<1>1. /\ s \in Sessions /\ NewPack(c) \in Pack /\ row[c] \in DOMAIN packs[s]
      /\ job[c].kind = "save" /\ at[c] = "upgradePack" /\ written[c] = "none" /\ job' = job
  BY NewPackType DEF TInv, Shape, ShapeOf, UpgradePack, Jobs
<1>2. row[c] \notin SavedRows[s]
  BY <1>1 DEF PInv, PacksOf, SavedRows
<1>3. UNCHANGED SavedRows
  <2>1. written'[c] = "upgraded_from_bridge_auto" /\ row' = row
        /\ \A d \in Calls : d # c => written'[d] = written[d]
    BY DEF UpgradePack, TInv, TypeOK
  <2> QED
    BY <1>1, <2>1, SavedRowsKept
<1>4. NewPack(c).source = "agent"
  BY <1>1 DEF NewPack
<1>5. Book!Rewrite(s, row[c], NewPack(c))
  BY <1>1, <1>2, <1>3, <1>4 DEF Book!Rewrite, UpgradePack, runVars
<1> QED
  BY <1>1, <1>5 DEF Book!BNext

\* However the calls, the sweeps and the saves of a project interleave, its run
\* log keeps its promises.
THEOREM CallsKeepTheBook == Spec => ImplementsRunBook
<1>1. Init => Book!BInit
  BY DEF Init, Book!BInit, SavedRows
<1>2. TInv /\ RInv /\ PInv /\ [Next]_vars => [Book!BNext]_(Book!bvars)
  <2> SUFFICES ASSUME TInv, RInv, PInv, [Next]_vars PROVE Book!BNext \/ UNCHANGED BookVars
    BY DEF Book!bvars, BookVars
  <2>1. ASSUME NEW c \in Calls, NEW s \in Sessions, NEW k \in Kinds, NEW t \in Texts \cup {Digest},
               Arrive(c, s, k, t)
        PROVE  UNCHANGED BookVars
    <3>1. /\ at[c] = "unborn" /\ UNCHANGED <<status, runId, packs, row, written>>
          /\ \A d \in Calls : d # c => job'[d] = job[d]
      BY <2>1 DEF Arrive, runVars, packVars, TInv, TypeOK
    <3> QED
      BY <3>1, BookStutters
  <2>2. ASSUME NEW c \in Calls,
               \/ Select(c) \/ Reselect(c) \/ Classify(c) \/ CheckPack(c) \/ AutoPackFails(c)
               \/ Record(c) \/ ReadStatus(c) \/ Die(c) \/ Land(c)
        PROVE  UNCHANGED BookVars
    <3>1. UNCHANGED <<status, runId, packs, row, written, job>>
      BY <2>2 DEF Select, Reselect, Classify, CheckPack, AutoPackFails, Record, ReadStatus, Die, Land,
                  runVars, packVars
    <3> QED
      BY <3>1, BookStutters
  <2>3. ASSUME NEW c \in Calls, ReadPacks(c) PROVE UNCHANGED BookVars
    <3>1. /\ UNCHANGED <<status, runId, packs, job>>
          /\ at[c] = "readPacks" /\ written[c] = "none" /\ written'[c] # "created"
          /\ \A d \in Calls : d # c => row'[d] = row[d] /\ written'[d] = written[d]
      <4>1. UNCHANGED <<status, runId, packs, job>> /\ at[c] = "readPacks"
        BY <2>3 DEF ReadPacks, runVars
      <4>2. written[c] = "none"
        BY <4>1 DEF TInv, Shape, ShapeOf
      <4> QED
        BY <2>3, <4>1, <4>2 DEF ReadPacks, TInv, TypeOK
    <3> QED
      BY <3>1, SavedRowsKept DEF BookVars
  <2>4. CASE Tick \/ UNCHANGED vars
    <3>1. UNCHANGED <<status, runId, packs, row, written, job>>
      BY <2>4 DEF Tick, vars, runVars, packVars
    <3> QED
      BY <3>1, BookStutters
  <2> QED
    BY <2>1, <2>2, <2>3, <2>4, StepCases, InsertRefines, ReportRefines, SweepRefines, FileRefines, RewriteRefines
<1>3. TInv /\ RInv /\ PInv /\ [Next]_vars => (TInv /\ RInv /\ PInv)'
  BY TypesNext, RunsNext, PacksNext
<1> QED
  BY <1>1, <1>2, <1>3, TypesInit, RunsInit, PacksInit, PTL DEF Spec, ImplementsRunBook, Book!BSpec
=============================================================================
