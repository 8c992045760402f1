------------------------- MODULE PolicyEngineProofs -------------------------
(***************************************************************************)
(* What the edits of a policy and the evaluator's cache keep, for every      *)
(* number of administrators, evaluations, rules, exceptions and grants, and  *)
(* every lifetime of the cache.                                             *)
(***************************************************************************)
EXTENDS PolicyEngine, FiniteSetTheorems, TLAPS

USE PolicyAssumption, NoneAssumption DEF Never, Stamps, Seconds, Editions, Maybe

\* An evaluation has what its next read needs, and the bound on the acts bounds the
\* editions.
Shape ==
  /\ edition <= acts
  /\ \A e \in Evals :
       /\ eval[e].at # "idle" => eval[e].call \in Calls
       /\ eval[e].at \in {"rules", "overrides"} => eval[e].rev \in Fingerprints /\ eval[e].revAt \in Stamps
       /\ eval[e].at = "overrides" => eval[e].defs \in LoadedType /\ eval[e].ed \in Editions
  /\ \A p \in Editors : editor[p].at \in {"latest", "retire", "insert"} => editor[p].snap \in ContentType

TInv == TypeOK /\ Shape

-----------------------------------------------------------------------------
(* The operators a decision is made of *)

LEMMA RulesForTyped ==
  ASSUME NEW defs, NEW call, NEW rule \in RulesFor(defs, call), defs \in LoadedType
  PROVE  rule = None \/ (rule \in RuleIds /\ rule # None /\ defs[rule] \in Defs)
BY DEF RulesFor, Matching, LoadedType

LEMMA EffectiveTyped ==
  ASSUME NEW def \in Defs
  PROVE  Effective(def) \in Decisions
BY DEF Effective, Decisions, Modes

\* An answer names an exception or a grant only from the rows it was decided on, and
\* never blames a failed read.
LEMMA VerdictsTyped ==
  ASSUME NEW state \in Entries, NEW call, NEW a \in Verdicts(state, call)
  PROVE  /\ a \in AnswerType
         /\ a.by = None \/ a.by \in state.exc \cup state.grants
         /\ a.why # "policy_check_unavailable"
<1>1. PICK rule \in RulesFor(state.defs, call) : a \in VerdictsBy(state, rule)
  BY DEF Verdicts
<1>2. rule = None \/ (rule \in RuleIds /\ rule # None /\ state.defs[rule] \in Defs)
  BY RulesForTyped DEF Entries, LoadedType
<1>3. CASE \E x \in ExceptionsFor(state.exc, rule, state.version) :
              a = Answer("exception", Override[x], rule, x)
  <2>1. PICK x \in state.exc : a = Answer("exception", Override[x], rule, x)
    BY <1>3 DEF ExceptionsFor
  <2>2. x \in Exceptions /\ Override[x] \in Decisions
    BY <2>1 DEF Entries
  <2>. QED
    BY <1>2, <2>1, <2>2 DEF Answer, AnswerType, Reasons, Decisions
<1>4. CASE a = Answer("no_rule_matched", "allow", None, None)
  BY <1>4 DEF Answer, AnswerType, Reasons, Decisions
<1>5. CASE \E g \in GrantsFor(state.grants, rule, state.defs[rule]) :
              a = Answer("grant", "allow", rule, g)
  <2>1. PICK g \in state.grants : a = Answer("grant", "allow", rule, g)
    BY <1>5 DEF GrantsFor
  <2>2. g \in Grants
    BY <2>1 DEF Entries
  <2>. QED
    BY <1>2, <2>1, <2>2 DEF Answer, AnswerType, Reasons, Decisions
<1>6. CASE rule # None /\ a = Answer("rule_matched", Effective(state.defs[rule]), rule, None)
  <2>1. Effective(state.defs[rule]) \in Decisions
    BY <1>2, <1>6, EffectiveTyped
  <2>. QED
    BY <1>2, <1>6, <2>1 DEF Answer, AnswerType, Reasons, Decisions
<1>. QED
  BY <1>1, <1>3, <1>4, <1>5, <1>6 DEF VerdictsBy

\* A failed read's answer rests on no exception or grant, and denies when every
\* rule of the cached rows that could decide the call denies.
LEMMA FailedTyped ==
  ASSUME TInv, NEW call \in Calls, NEW a \in FailedVerdicts(call)
  PROVE  /\ a \in AnswerType /\ a.by = None
         /\ a.why = "policy_check_unavailable"
         /\ cache # None /\ Denied(cache.defs, call) => a.decision = "deny"
<1>1. CASE cache = None
  BY <1>1 DEF FailedVerdicts, Warm, Unavailable, Answer, AnswerType, Reasons, Decisions
<1>2. CASE cache # None
  <2>1. cache.defs \in LoadedType
    BY <1>2 DEF TInv, TypeOK, Entries, LoadedType
  <2>2. PICK rule \in RulesFor(cache.defs, call) :
          a = Unavailable(IF Enforced(cache.defs, rule) THEN "deny" ELSE "allow", rule)
    BY <1>2 DEF FailedVerdicts, Warm
  <2>3. rule \in Maybe(RuleIds)
    BY <2>1, <2>2, RulesForTyped
  <2>. QED
    BY <2>2, <2>3 DEF Denied, Unavailable, Answer, AnswerType, Reasons, Decisions
<1>. QED
  BY <1>1, <1>2

LEMMA RevisionTyped == TInv => Revision \in Fingerprints
<1> SUFFICES ASSUME TInv PROVE Revision \in Fingerprints
  OBVIOUS
<1>1. /\ Cardinality(Present(rules)) \in Nat
      /\ Cardinality(Present(exc)) \in Nat
      /\ Cardinality(Present(grants)) \in Nat
  <2>1. /\ Present(rules) \subseteq RuleIds
        /\ Present(exc) \subseteq Exceptions
        /\ Present(grants) \subseteq Grants
    BY DEF TInv, TypeOK, Present
  <2>. QED
    BY <2>1, FS_Subset, FS_CardinalityType
<1>2. \A S : Newest(S) \in Newests
  BY DEF Newest, Newests
<1>3. Len(versions) \in Nat /\ retired \in Seconds /\ policy.updated \in Stamps
  BY DEF TInv, TypeOK
<1>. QED
  BY <1>1, <1>2, <1>3 DEF Revision, Fingerprints

LEMMA ContentTyped == TInv => Content \in ContentType /\ LoadedDefs \in LoadedType
BY DEF TInv, TypeOK, Content, ContentType, LoadedDefs, LoadedType, RuleRows

LEMMA EntryTyped ==
  ASSUME TInv, NEW e \in Evals, eval[e].at = "overrides"
  PROVE  Entry(e) \in Entries
BY DEF TInv, TypeOK, Shape, EvalType, Entry, Entries, ActiveExceptions, LiveGrants, Present

-----------------------------------------------------------------------------
(* Type correctness *)

LEMMA InitTInv == Init => TInv
<1> SUFFICES ASSUME Init PROVE TInv
  OBVIOUS
<1>1. rules \in [RuleIds -> Maybe(RuleRows)]
  BY DEF Init, RuleRows
<1>2. versions \in Seq(VersionRows)
  BY <1>1 DEF Init, Content, VersionRows, ContentType, LoadedType, RuleRows
<1>3. Idle \in EditorType /\ Resting \in EvalType
  BY DEF Idle, Resting, EditorType, EvalType
<1>4. until \in [Editions -> Seconds]
  BY DEF Init
<1>. QED
  BY <1>1, <1>2, <1>3, <1>4 DEF Init, TInv, TypeOK, Shape, Idle, Resting

\* The statements of an edit and of a publication.
LEMMA BeginTyped ==
  ASSUME TInv, NEW p \in Editors, BeginPublish(p)
  PROVE  /\ editor' \in [Editors -> EditorType]
         /\ \A q \in Editors : editor'[q].at \in {"latest", "retire", "insert"}
                                => editor'[q].snap \in ContentType
BY DEF TInv, TypeOK, Shape, BeginPublish, Idle, EditorType

LEMMA EditedTyped ==
  ASSUME TInv, Act, Edited
  PROVE  /\ acts' \in 0..MaxActs /\ edition' \in Editions /\ published' \in Editions
         /\ until' \in [Editions -> Seconds] /\ open' \in SUBSET Calls /\ edition' <= acts'
BY DEF TInv, TypeOK, Shape, Act, Edited

LEMMA EditKeepsTInv ==
  ASSUME TInv, NEW p \in Editors, EditRule(p) \/ SetActive(p) \/ PublishByHand(p)
  PROVE  TInv'
<1>1. CASE EditRule(p)
  <2>1. PICK r \in RuleIds, def \in Defs \cup {None} : RuleWrite(r, def)
    BY <1>1 DEF EditRule
  <2>2. rules' \in [RuleIds -> Maybe(RuleRows)]
    BY <2>1, SMTT(20) DEF RuleWrite, RuleRows, TInv, TypeOK
  <2>. QED
    BY <1>1, <2>2, BeginTyped, EditedTyped DEF EditRule, TInv, TypeOK, Shape
<1>2. CASE SetActive(p)
  BY <1>2, BeginTyped, EditedTyped DEF SetActive, TInv, TypeOK, Shape
<1>3. CASE PublishByHand(p)
  <2>1. acts' \in 0..MaxActs /\ edition <= acts'
    BY <1>3 DEF PublishByHand, Act, TInv, TypeOK, Shape
  <2>. QED
    BY <1>3, <2>1, BeginTyped DEF PublishByHand, TInv, TypeOK, Shape, tables
<1>. QED
  BY <1>1, <1>2, <1>3

LEMMA PublishKeepsTInv ==
  ASSUME TInv, NEW p \in Editors,
         Snapshot(p) \/ ReadLatest(p) \/ Retire(p) \/ Insert(p) \/ Crash(p)
  PROVE  TInv'
<1>1. /\ editor' \in [Editors -> EditorType]
      /\ \A q \in Editors : editor'[q].at \in {"latest", "retire", "insert"}
                             => editor'[q].snap \in ContentType
  <2>1. \A q \in Editors : /\ editor[q] \in EditorType
                           /\ editor[q].at \in {"latest", "retire", "insert"}
                                => editor[q].snap \in ContentType
    BY DEF TInv, TypeOK, Shape
  <2>2. Idle \in EditorType /\ Idle.at = "idle"
    BY DEF Idle, EditorType
  <2>3. ASSUME NEW new \in EditorType, editor' = [editor EXCEPT ![p] = new],
               new.at \in {"latest", "retire", "insert"} => new.snap \in ContentType
        PROVE  /\ editor' \in [Editors -> EditorType]
               /\ \A q \in Editors : editor'[q].at \in {"latest", "retire", "insert"}
                                      => editor'[q].snap \in ContentType
    BY <2>1, <2>3 DEF TInv, TypeOK
  <2>4. CASE Snapshot(p)
    <3>1. [editor[p] EXCEPT !.at = "latest", !.snap = Content] \in EditorType
      BY <2>1, ContentTyped DEF EditorType
    <3>. QED
      BY <2>1, <2>3, <2>4, <3>1, ContentTyped DEF Snapshot, EditorType
  <2>5. CASE ReadLatest(p)
    <3>1. Len(versions) \in Nat
      BY DEF TInv, TypeOK
    <3>2. [editor[p] EXCEPT !.at = "retire", !.latest = Len(versions)] \in EditorType
      BY <2>1, <3>1 DEF EditorType
    <3>. QED
      BY <2>1, <2>2, <2>3, <2>5, <3>2 DEF ReadLatest, EditorType
  <2>6. CASE Retire(p)
    <3>1. [editor[p] EXCEPT !.at = "insert"] \in EditorType
      BY <2>1 DEF EditorType
    <3>. QED
      BY <2>1, <2>3, <2>6, <3>1 DEF Retire, EditorType, TInv, TypeOK
  <2>7. CASE Insert(p) \/ Crash(p)
    BY <2>2, <2>3, <2>7 DEF Insert, Crash
  <2>. QED
    BY <2>4, <2>5, <2>6, <2>7
<1>2. CASE Snapshot(p) \/ ReadLatest(p) \/ Crash(p)
  BY <1>1, <1>2 DEF Snapshot, ReadLatest, Crash, TInv, TypeOK, Shape, tables, history
<1>3. CASE Retire(p)
  <2>1. versions \in Seq(VersionRows)
    BY DEF TInv, TypeOK
  <2>2. \A n \in 1..Len(versions) : [versions[n] EXCEPT !.active = FALSE] \in VersionRows
    <3> TAKE n \in 1..Len(versions)
    <3>1. versions[n] \in VersionRows
      BY <2>1
    <3>. QED
      BY <3>1 DEF VersionRows
  <2>3. versions' \in Seq(VersionRows)
    BY <1>3, <2>1, <2>2 DEF Retire
  <2>. QED
    BY <1>1, <1>3, <2>3 DEF Retire, TInv, TypeOK, Shape, history
<1>4. CASE Insert(p)
  <2>1. [active |-> TRUE, snap |-> editor[p].snap] \in VersionRows
    BY <1>4 DEF Insert, TInv, Shape, VersionRows
  <2>2. versions' \in Seq(VersionRows)
    <3>1. versions \in Seq(VersionRows)
      BY DEF TInv, TypeOK
    <3>. QED
      BY <1>4, <2>1, <3>1 DEF Insert
  <2>. QED
    BY <1>1, <1>4, <2>2 DEF Insert, TInv, TypeOK, Shape
<1>. QED
  BY <1>2, <1>3, <1>4

LEMMA ChangeTyped ==
  ASSUME TInv, Change, exc' \in [Exceptions -> Maybe(ExceptionRows)],
         grants' \in [Grants -> Maybe(GrantRows)]
  PROVE  TInv'
BY DEF TInv, TypeOK, Shape, Act, Change

LEMMA OverridesKeepTInv ==
  ASSUME TInv,
         \/ \E x \in Exceptions : CreateException(x) \/ SetException(x)
         \/ \E g \in Grants : CreateGrant(g) \/ RevokeGrant(g)
  PROVE  TInv'
<1>1. /\ exc \in [Exceptions -> Maybe(ExceptionRows)]
      /\ grants \in [Grants -> Maybe(GrantRows)] /\ now \in Stamps
  BY DEF TInv, TypeOK
<1>2. ASSUME NEW x \in Exceptions, CreateException(x) PROVE TInv'
  <2>1. BoundTo \subseteq Nat
    BY DEF BoundTo, ActiveVersions, TInv, TypeOK
  <2>2. exc' \in [Exceptions -> Maybe(ExceptionRows)]
    BY <1>1, <1>2, <2>1 DEF CreateException, ExceptionRows
  <2>. QED
    BY <1>1, <1>2, <2>2, ChangeTyped DEF CreateException
<1>3. ASSUME NEW x \in Exceptions, SetException(x) PROVE TInv'
  <2>1. exc[x] \in ExceptionRows
    BY <1>1, <1>3 DEF SetException
  <2>2. PICK status \in {"active", "revoked", "rejected"} :
          exc' = [exc EXCEPT ![x] =
                   [exc[x] EXCEPT !.status = status, !.updated = now,
                             !.revoked = IF status = "revoked" THEN now ELSE exc[x].revoked]]
    BY <1>1, <1>3 DEF SetException
  <2>3. [exc[x] EXCEPT !.status = status, !.updated = now,
                       !.revoked = IF status = "revoked" THEN now ELSE exc[x].revoked] \in ExceptionRows
    BY <1>1, <2>1, <2>2 DEF ExceptionRows
  <2>4. exc' \in [Exceptions -> Maybe(ExceptionRows)]
    BY <1>1, <2>2, <2>3
  <2>. QED
    BY <1>1, <1>3, <2>4, ChangeTyped DEF SetException
<1>4. ASSUME NEW g \in Grants, CreateGrant(g) \/ RevokeGrant(g) PROVE TInv'
  <2>1. CreateGrant(g) \/ grants[g] \in GrantRows
    BY <1>1, <1>4 DEF RevokeGrant
  <2>2. grants' \in [Grants -> Maybe(GrantRows)]
    BY <1>1, <1>4, <2>1 DEF CreateGrant, RevokeGrant, GrantRows
  <2>. QED
    BY <1>1, <1>4, <2>2, ChangeTyped DEF CreateGrant, RevokeGrant
<1>. QED
  BY <1>2, <1>3, <1>4

\* An evaluation moves on to a place that has what the next read needs.
LEMMA MoveTyped ==
  ASSUME TInv, NEW e \in Evals, NEW new \in EvalType,
         eval' = [eval EXCEPT ![e] = new],
         new.at # "idle" => new.call \in Calls,
         new.at \in {"rules", "overrides"} => new.rev \in Fingerprints /\ new.revAt \in Stamps,
         new.at = "overrides" => new.defs \in LoadedType /\ new.ed \in Editions,
         verdict' \in [Evals -> Maybe(AnswerType)],
         cache' \in Maybe(Entries),
         UNCHANGED <<now, tables, editor, history>>
  PROVE  TInv'
<1>1. eval' \in [Evals -> EvalType]
  BY DEF TInv, TypeOK
<1>2. \A o \in Evals : eval'[o] = IF o = e THEN new ELSE eval[o]
  BY DEF TInv, TypeOK
<1>3. Shape'
  BY <1>2 DEF TInv, Shape, tables, history
<1>. QED
  BY <1>1, <1>3 DEF TInv, TypeOK, tables, history

LEMMA FinishTyped ==
  ASSUME TInv, NEW e \in Evals, NEW answers, answers \subseteq AnswerType, Finish(e, answers),
         cache' \in Maybe(Entries),
         UNCHANGED <<now, tables, editor, history>>
  PROVE  TInv'
<1>1. Resting \in EvalType /\ Resting.at = "idle"
  BY DEF Resting, EvalType
<1>2. verdict' \in [Evals -> Maybe(AnswerType)]
  BY DEF Finish, TInv, TypeOK
<1>. QED
  BY <1>1, <1>2, MoveTyped DEF Finish

LEMMA EvalKeepsTInv ==
  ASSUME TInv, NEW e \in Evals,
         Start(e) \/ ReadRevision(e) \/ ReadRules(e) \/ ReadOverrides(e) \/ Fail(e)
  PROVE  TInv'
<1>0. /\ eval[e] \in EvalType /\ cache \in Maybe(Entries)
      /\ verdict \in [Evals -> Maybe(AnswerType)] /\ now \in Stamps /\ edition \in Editions
  BY DEF TInv, TypeOK
<1>1. CASE Start(e)
  <2>1. PICK c \in Calls :
          eval' = [eval EXCEPT ![e] = [Resting EXCEPT !.at = "revision", !.call = c, !.cached = cache]]
    BY <1>1 DEF Start
  <2>2. [Resting EXCEPT !.at = "revision", !.call = c, !.cached = cache] \in EvalType
    BY <1>0 DEF Resting, EvalType
  <2>3. verdict' \in [Evals -> Maybe(AnswerType)]
    BY <1>0, <1>1 DEF Start
  <2>. QED
    BY <1>0, <1>1, <2>1, <2>2, <2>3, MoveTyped DEF Start, Resting
<1>2. CASE ReadRevision(e)
  <2>1. CASE Usable(eval[e].cached, Revision)
    <3>1. eval[e].cached \in Entries
      BY <1>0, <2>1 DEF Usable, EvalType
    <3>2. Verdicts(eval[e].cached, eval[e].call) \subseteq AnswerType
      BY <3>1, VerdictsTyped
    <3>. QED
      BY <1>0, <1>2, <2>1, <3>2, FinishTyped DEF ReadRevision
  <2>2. CASE ~Usable(eval[e].cached, Revision)
    <3>1. Revision \in Fingerprints
      BY RevisionTyped
    <3> DEFINE new == [eval[e] EXCEPT !.at = "rules", !.cached = None, !.rev = Revision, !.revAt = now]
    <3>2. new \in EvalType /\ new.at = "rules" /\ new.rev = Revision /\ new.revAt = now
          /\ new.call = eval[e].call
      BY <1>0, <3>1 DEF EvalType
    <3>3. eval' = [eval EXCEPT ![e] = new] /\ eval[e].call \in Calls
      BY <1>2, <2>2 DEF ReadRevision, TInv, Shape
    <3> HIDE DEF new
    <3>. QED
      BY <1>0, <1>2, <2>2, <3>1, <3>2, <3>3, MoveTyped DEF ReadRevision
  <2>. QED
    BY <2>1, <2>2
<1>3. CASE ReadRules(e)
  <2>1. LoadedDefs \in LoadedType
    BY ContentTyped
  <2>2. ActiveVersions \in SUBSET Nat
    BY DEF ActiveVersions, TInv, TypeOK
  <2> DEFINE new == [eval[e] EXCEPT !.at = "overrides", !.defs = LoadedDefs,
                                    !.version = ActiveVersions, !.ed = edition]
  <2>3. /\ new \in EvalType /\ new.at = "overrides" /\ new.defs = LoadedDefs /\ new.ed = edition
        /\ new.call = eval[e].call /\ new.rev = eval[e].rev /\ new.revAt = eval[e].revAt
    BY <1>0, <2>1, <2>2 DEF EvalType
  <2>4. /\ eval' = [eval EXCEPT ![e] = new] /\ eval[e].call \in Calls
        /\ eval[e].rev \in Fingerprints /\ eval[e].revAt \in Stamps
    BY <1>3 DEF ReadRules, TInv, Shape
  <2> HIDE DEF new
  <2>. QED
    BY <1>0, <1>3, <2>1, <2>3, <2>4, MoveTyped DEF ReadRules
<1>4. CASE ReadOverrides(e)
  <2>1. Entry(e) \in Entries
    BY <1>4, EntryTyped DEF ReadOverrides
  <2>2. Verdicts(Entry(e), eval[e].call) \subseteq AnswerType
    BY <2>1, VerdictsTyped
  <2>. QED
    BY <1>4, <2>1, <2>2, FinishTyped DEF ReadOverrides
<1>5. CASE Fail(e)
  <2>1. eval[e].call \in Calls
    BY <1>5 DEF Fail, TInv, Shape
  <2>2. FailedVerdicts(eval[e].call) \subseteq AnswerType
    BY <2>1, FailedTyped
  <2>. QED
    BY <1>0, <1>5, <2>2, FinishTyped DEF Fail
<1>. QED
  BY <1>1, <1>2, <1>3, <1>4, <1>5

LEMMA TickKeepsTInv == TInv /\ Tick => TInv'
<1> SUFFICES ASSUME TInv, Tick PROVE TInv'
  OBVIOUS
<1>1. ASSUME NEW e \in Evals
      PROVE  /\ eval'[e] \in EvalType
             /\ eval'[e].at = eval[e].at /\ eval'[e].call = eval[e].call
             /\ eval'[e].rev = eval[e].rev /\ eval'[e].revAt = eval[e].revAt
             /\ eval'[e].defs = eval[e].defs /\ eval'[e].ed = eval[e].ed
  <2>1. eval[e] \in EvalType
    BY DEF TInv, TypeOK
  <2>2. eval'[e] = [eval[e] EXCEPT !.late = (eval[e].at # "idle")]
    BY DEF Tick
  <2>. QED
    BY <2>1, <2>2 DEF EvalType
<1>3. eval' \in [Evals -> EvalType]
  BY <1>1 DEF Tick
<1>4. Shape'
  BY <1>1 DEF TInv, Shape, Tick, history
<1>. QED
  BY <1>3, <1>4 DEF TInv, TypeOK, Tick, tables, history

LEMMA NextTInv == TInv /\ [Next]_vars => TInv'
<1> SUFFICES ASSUME TInv, [Next]_vars PROVE TInv'
  OBVIOUS
<1>1. CASE UNCHANGED vars
  BY <1>1 DEF TInv, TypeOK, Shape, vars, history, tables
<1>. QED
  BY <1>1, EditKeepsTInv, PublishKeepsTInv, OverridesKeepTInv, EvalKeepsTInv, TickKeepsTInv DEF Next

\* Type correctness: every row, every cached entry and every place in a handler is
\* one the code has.
THEOREM TypeCorrect == Spec => []TypeOK
<1>1. TInv => TypeOK
  BY DEF TInv
<1>. QED
  BY InitTInv, NextTInv, <1>1, PTL DEF Spec

-----------------------------------------------------------------------------
(* The fields of a place after a move *)

LEMMA SnapshotFields ==
  ASSUME TInv, NEW p \in Editors, Snapshot(p)
  PROVE  editor'[p].at = "latest" /\ editor'[p].latest = editor[p].latest
<1>1. editor[p] \in EditorType
  BY DEF TInv, TypeOK
<1>2. editor'[p] = [editor[p] EXCEPT !.at = "latest", !.snap = Content]
  BY DEF Snapshot, TInv, TypeOK
<1>. QED
  BY <1>1, <1>2 DEF EditorType

LEMMA ReadLatestFields ==
  ASSUME TInv, NEW p \in Editors, ReadLatest(p)
  PROVE  editor'[p] = Idle \/ (editor'[p].at = "retire" /\ editor'[p].latest = Len(versions))
<1>1. editor[p] \in EditorType
  BY DEF TInv, TypeOK
<1>2. \/ editor'[p] = Idle
      \/ editor'[p] = [editor[p] EXCEPT !.at = "retire", !.latest = Len(versions)]
  BY DEF ReadLatest, TInv, TypeOK
<1>. QED
  BY <1>1, <1>2 DEF EditorType

LEMMA StartFields ==
  ASSUME TInv, NEW e \in Evals, Start(e)
  PROVE  eval'[e].at = "revision" /\ eval'[e].cached = cache
BY DEF Start, Resting, TInv, TypeOK

LEMMA ReadRevisionFields ==
  ASSUME TInv, NEW e \in Evals, ReadRevision(e)
  PROVE  \/ eval'[e] = Resting
         \/ /\ eval'[e].at = "rules" /\ eval'[e].cached = None
            /\ eval'[e].rev = Revision /\ eval'[e].revAt = now
<1>1. eval[e] \in EvalType
  BY DEF TInv, TypeOK
<1>2. \/ eval'[e] = Resting
      \/ eval'[e] = [eval[e] EXCEPT !.at = "rules", !.cached = None, !.rev = Revision, !.revAt = now]
  BY DEF ReadRevision, Finish, TInv, TypeOK
<1>3. CASE eval'[e] = [eval[e] EXCEPT !.at = "rules", !.cached = None, !.rev = Revision, !.revAt = now]
  BY <1>1, <1>3 DEF EvalType
<1>. QED
  BY <1>2, <1>3

LEMMA ReadRulesFields ==
  ASSUME TInv, NEW e \in Evals, ReadRules(e)
  PROVE  /\ eval'[e].at = "overrides" /\ eval'[e].defs = LoadedDefs /\ eval'[e].ed = edition
         /\ eval'[e].rev = eval[e].rev /\ eval'[e].revAt = eval[e].revAt
         /\ eval'[e].cached = eval[e].cached
<1>1. eval[e] \in EvalType
  BY DEF TInv, TypeOK
<1>2. eval'[e] = [eval[e] EXCEPT !.at = "overrides", !.defs = LoadedDefs,
                                !.version = ActiveVersions, !.ed = edition]
  BY DEF ReadRules, TInv, TypeOK
<1>. QED
  BY <1>1, <1>2 DEF EvalType

LEMMA TickFields ==
  ASSUME TInv, Tick, NEW e \in Evals
  PROVE  /\ eval'[e].at = eval[e].at /\ eval'[e].cached = eval[e].cached
         /\ eval'[e].rev = eval[e].rev /\ eval'[e].revAt = eval[e].revAt
         /\ eval'[e].defs = eval[e].defs /\ eval'[e].ed = eval[e].ed
         /\ ~eval[e].late /\ eval'[e].late = (eval[e].at # "idle")
<1>1. eval[e] \in EvalType
  BY DEF TInv, TypeOK
<1>2. eval'[e] = [eval[e] EXCEPT !.late = (eval[e].at # "idle")] /\ ~eval[e].late
  BY DEF Tick
<1>. QED
  BY <1>1, <1>2 DEF EvalType

-----------------------------------------------------------------------------
(* One version in force *)

\* Why AtMostOneActive is kept: who is about to insert the number after the newest
\* has retired every version, and the number is refused once another took it.
Retired ==
  /\ \A p \in Editors :
       /\ editor[p].latest <= Len(versions)
       /\ editor[p].at = "insert" /\ editor[p].latest = Len(versions) => ActiveVersions = {}

OneInForce == AtMostOneActive /\ Retired

LEMMA InitOneInForce == Init => OneInForce
BY DEF Init, OneInForce, AtMostOneActive, ActiveVersions, Retired, Idle

LEMMA NextOneInForce == TInv /\ OneInForce /\ [Next]_vars => OneInForce'
<1> SUFFICES ASSUME TInv, OneInForce, [Next]_vars PROVE OneInForce'
  OBVIOUS
<1> USE DEF OneInForce, AtMostOneActive, ActiveVersions, Retired
<1>1. /\ editor \in [Editors -> EditorType] /\ versions \in Seq(VersionRows)
      /\ Len(versions) \in Nat
  BY DEF TInv, TypeOK
<1>2. \A p \in Editors : editor[p].latest \in Nat
  BY <1>1 DEF EditorType
<1>3. CASE UNCHANGED <<editor, versions>>
  BY <1>3
<1>4. ASSUME NEW p \in Editors, UNCHANGED versions,
             editor'[p].latest <= Len(versions), editor'[p].at # "insert",
             \A q \in Editors \ {p} : editor'[q] = editor[q]
      PROVE  OneInForce'
  BY <1>4
<1>5. ASSUME NEW p \in Editors, EditRule(p) \/ SetActive(p) \/ PublishByHand(p)
      PROVE  OneInForce'
  BY <1>1, <1>4, <1>5 DEF EditRule, SetActive, PublishByHand, BeginPublish, Idle, tables
<1>6. ASSUME NEW p \in Editors, Snapshot(p) \/ ReadLatest(p) \/ Crash(p)
      PROVE  OneInForce'
  <2>1. editor'[p].latest <= Len(versions) /\ editor'[p].at # "insert"
    <3>1. CASE Snapshot(p) \/ Crash(p)
      BY <1>1, <1>2, <3>1, SnapshotFields DEF Crash, Idle
    <3>2. CASE ReadLatest(p)
      BY <1>1, <3>2, ReadLatestFields DEF Idle
    <3>. QED
      BY <1>6, <3>1, <3>2
  <2>2. UNCHANGED versions /\ \A q \in Editors \ {p} : editor'[q] = editor[q]
    BY <1>1, <1>6 DEF Snapshot, ReadLatest, Crash, tables
  <2>. QED
    BY <1>4, <2>1, <2>2
<1>7. ASSUME NEW p \in Editors, Retire(p) PROVE OneInForce'
  <2>1. Len(versions') = Len(versions) /\ \A n \in 1..Len(versions) : ~versions'[n].active
    <3>1. \A n \in 1..Len(versions) : versions[n] \in VersionRows
      BY <1>1
    <3>2. versions' = [n \in 1..Len(versions) |-> [versions[n] EXCEPT !.active = FALSE]]
      BY <1>7 DEF Retire
    <3>3. Len(versions') = Len(versions)
      BY <1>1, <3>2
    <3>. QED
      BY <3>1, <3>2, <3>3 DEF VersionRows
  <2>2. \A q \in Editors : editor'[q].latest = editor[q].latest
    BY <1>1, <1>7 DEF Retire, EditorType
  <2>. QED
    BY <2>1, <2>2
<1>8. ASSUME NEW p \in Editors, Insert(p) PROVE OneInForce'
  <2>1. editor'[p].latest = 0 /\ editor'[p].at = "idle"
        /\ \A q \in Editors \ {p} : editor'[q] = editor[q]
    BY <1>1, <1>8 DEF Insert, Idle
  <2>2. CASE ~NumberFree(p)
    BY <1>1, <1>4, <1>8, <2>1, <2>2 DEF Insert
  <2>3. CASE NumberFree(p)
    <3>1. /\ Len(versions') = Len(versions) + 1
          /\ \A n \in 1..Len(versions) : versions'[n] = versions[n]
      BY <1>1, <1>8, <2>3 DEF Insert
    <3>2. \A n \in 1..Len(versions) : ~versions[n].active
      BY <1>8, <2>3 DEF Insert, NumberFree
    <3>3. ActiveVersions' \subseteq {Len(versions) + 1}
      BY <1>1, <3>1, <3>2
    <3>4. \A q \in Editors : editor'[q].latest < Len(versions')
      BY <1>1, <1>2, <2>1, <3>1
    <3>5. \A q \in Editors : editor'[q].latest <= Len(versions') /\ editor'[q].latest # Len(versions')
      BY <1>1, <1>2, <2>1, <3>1, <3>4
    <3>. QED
      BY <3>3, <3>5
  <2>. QED
    BY <2>2, <2>3
<1>9. CASE \/ \E x \in Exceptions : CreateException(x) \/ SetException(x)
           \/ \E g \in Grants : CreateGrant(g) \/ RevokeGrant(g)
  BY <1>3, <1>9 DEF CreateException, SetException, CreateGrant, RevokeGrant, Change
<1>10. CASE Tick \/ \E e \in Evals : \/ Start(e) \/ ReadRevision(e) \/ ReadRules(e)
                                     \/ ReadOverrides(e) \/ Fail(e)
  BY <1>3, <1>10 DEF Tick, Start, ReadRevision, ReadRules, ReadOverrides, Fail, tables
<1>. QED
  BY <1>3, <1>5, <1>6, <1>7, <1>8, <1>9, <1>10 DEF Next, vars, tables

\* However the statements of two publications interleave, and wherever one of them
\* stops, a policy never has two versions in force.
THEOREM AtMostOneActiveAlways == Spec => []AtMostOneActive
<1>1. OneInForce => AtMostOneActive
  BY DEF OneInForce
<1>. QED
  BY InitTInv, NextTInv, InitOneInForce, NextOneInForce, <1>1, PTL DEF Spec

-----------------------------------------------------------------------------
(* What is known of cached rows *)

\* The entry of the cache, and the entries evaluations have taken from it.
Cached == ({cache} \cup {eval[e].cached : e \in Evals}) \ {None}

LEMMA CachedTyped == TInv => Cached \subseteq Entries
BY DEF TInv, TypeOK, Cached, EvalType

\* A step caches nothing but what an evaluation has just loaded.
LEMMA CachedNext ==
  ASSUME TInv, [Next]_vars, NEW E \in Cached'
  PROVE  E \in Cached \/ \E e \in Evals : ReadOverrides(e) /\ E = Entry(e)
<1> USE DEF Cached
<1>1. eval \in [Evals -> EvalType]
  BY DEF TInv, TypeOK
<1>2. CASE UNCHANGED <<cache, eval>>
  BY <1>2
<1>3. ASSUME NEW e \in Evals, Start(e)
      PROVE  E \in Cached
  BY <1>1, <1>3 DEF Start, Resting
<1>4. ASSUME NEW e \in Evals, ReadRevision(e) \/ ReadRules(e) \/ Fail(e)
      PROVE  E \in Cached
  <2>1. eval'[e].cached \in {None, eval[e].cached} /\ cache' = cache
    <3>1. eval'[e] = Resting \/ ReadRevision(e) \/ ReadRules(e)
      BY <1>1, <1>4 DEF Fail, Finish
    <3>2. cache' = cache
      BY <1>4 DEF ReadRevision, ReadRules, Fail
    <3>. QED
      BY <3>1, <3>2, ReadRevisionFields, ReadRulesFields DEF Resting
  <2>2. \A o \in Evals \ {e} : eval'[o] = eval[o]
    BY <1>1, <1>4 DEF ReadRevision, ReadRules, Fail, Finish
  <2>. QED
    BY <2>1, <2>2
<1>5. ASSUME NEW e \in Evals, ReadOverrides(e)
      PROVE  E \in Cached \/ E = Entry(e)
  BY <1>1, <1>5 DEF ReadOverrides, Finish, Resting
<1>6. CASE Tick
  <2>1. \A e \in Evals : eval'[e].cached = eval[e].cached
    BY <1>6, TickFields
  <2>. QED
    BY <1>6, <2>1 DEF Tick
<1>7. CASE \E p \in Editors : \/ EditRule(p) \/ SetActive(p) \/ PublishByHand(p) \/ Snapshot(p)
                              \/ ReadLatest(p) \/ Retire(p) \/ Insert(p) \/ Crash(p)
  BY <1>2, <1>7 DEF EditRule, SetActive, PublishByHand, Snapshot, ReadLatest, Retire, Insert, Crash
<1>8. CASE \/ \E x \in Exceptions : CreateException(x) \/ SetException(x)
           \/ \E g \in Grants : CreateGrant(g) \/ RevokeGrant(g)
  BY <1>2, <1>8 DEF CreateException, SetException, CreateGrant, RevokeGrant, Change
<1>. QED
  BY <1>2, <1>3, <1>4, <1>5, <1>6, <1>7, <1>8 DEF Next, vars

\* What an evaluation has read is what it had read, or is read in this step.
LEMMA ReadNext ==
  ASSUME TInv, [Next]_vars, NEW e \in Evals, eval'[e].at \in {"rules", "overrides"}
  PROVE  \/ ReadRevision(e) /\ eval'[e].at = "rules" /\ eval'[e].rev = Revision /\ eval'[e].revAt = now
         \/ /\ eval[e].at \in {"rules", "overrides"}
            /\ eval'[e].rev = eval[e].rev /\ eval'[e].revAt = eval[e].revAt
            /\ eval'[e].at = "overrides" =>
                 \/ ReadRules(e) /\ eval'[e].ed = edition /\ eval'[e].defs = LoadedDefs
                 \/ /\ eval[e].at = "overrides" 
                    /\ eval'[e].ed = eval[e].ed /\ eval'[e].defs = eval[e].defs
                    /\ \/ eval'[e].late = eval[e].late /\ now' = now
                       \/ ~eval[e].late /\ eval'[e].late /\ now' = now + 1
<1>1. eval \in [Evals -> EvalType] /\ eval[e] \in EvalType
  BY DEF TInv, TypeOK
<1> DEFINE Kept == eval'[e] = eval[e] /\ now' = now
<1>2. CASE ReadRevision(e)
  BY <1>2, ReadRevisionFields DEF Resting
<1>3. CASE ReadRules(e)
  BY <1>3, ReadRulesFields DEF ReadRules
<1>4. CASE Start(e) \/ ReadOverrides(e) \/ Fail(e)
  <2>1. eval'[e].at \in {"idle", "revision"}
    BY <1>1, <1>4, StartFields DEF ReadOverrides, Fail, Finish, Resting
  <2>. QED
    BY <2>1
<1>5. CASE Tick
  BY <1>5, TickFields DEF Tick
<1>6. ASSUME NEW o \in Evals \ {e}, \/ Start(o) \/ ReadRevision(o) \/ ReadRules(o)
                                    \/ ReadOverrides(o) \/ Fail(o)
      PROVE  Kept
  BY <1>1, <1>6 DEF Start, ReadRevision, ReadRules, ReadOverrides, Fail, Finish
<1>7. CASE \E p \in Editors : \/ EditRule(p) \/ SetActive(p) \/ PublishByHand(p) \/ Snapshot(p)
                              \/ ReadLatest(p) \/ Retire(p) \/ Insert(p) \/ Crash(p)
  <2>. Kept
    BY <1>7 DEF EditRule, SetActive, PublishByHand, Snapshot, ReadLatest, Retire, Insert, Crash
  <2>. QED
    OBVIOUS
<1>8. CASE \/ \E x \in Exceptions : CreateException(x) \/ SetException(x)
           \/ \E g \in Grants : CreateGrant(g) \/ RevokeGrant(g)
  <2>. Kept
    BY <1>8 DEF CreateException, SetException, CreateGrant, RevokeGrant, Change
  <2>. QED
    OBVIOUS
<1>9. CASE UNCHANGED vars
  BY <1>9 DEF vars
<1>. QED
  BY <1>2, <1>3, <1>4, <1>5, <1>6, <1>7, <1>8, <1>9 DEF Next

-----------------------------------------------------------------------------
(* Published edits *)

\* Why PublishedEditSeen is kept: rows whose fingerprint counts every version were
\* read after the last of them was inserted.
Fresh ==
  /\ published <= edition
  /\ \A E \in Cached : /\ E.rev.versions[1] <= Len(versions)
                       /\ E.rev.versions[1] = Len(versions) => published <= E.ed
  /\ \A e \in Evals :
       /\ eval[e].at \in {"rules", "overrides"} => eval[e].rev.versions[1] <= Len(versions)
       /\ eval[e].at = "overrides" /\ eval[e].rev.versions[1] = Len(versions)
            => published <= eval[e].ed

LEMMA InitFresh == Init => Fresh
BY DEF Init, Fresh, Cached, Resting

\* How a step changes what Fresh is about.
LEMMA PublishedNext ==
  ASSUME TInv, [Next]_vars
  PROVE  /\ edition <= edition'
         /\ \/ Len(versions') = Len(versions) /\ published' = published
            \/ Len(versions') = Len(versions) + 1 /\ published' = edition
<1>1. versions \in Seq(VersionRows) /\ edition \in Nat
  BY DEF TInv, TypeOK
<1>2. CASE UNCHANGED <<versions, published, edition>>
  BY <1>1, <1>2
<1>3. ASSUME NEW p \in Editors, EditRule(p) \/ SetActive(p)
      PROVE  edition' = edition + 1 /\ UNCHANGED <<versions, published>>
  BY <1>3 DEF EditRule, SetActive, Edited
<1>4. ASSUME NEW p \in Editors, Retire(p)
      PROVE  Len(versions') = Len(versions) /\ UNCHANGED <<published, edition>>
  BY <1>1, <1>4 DEF Retire, history
<1>5. ASSUME NEW p \in Editors, Insert(p)
      PROVE  /\ edition' = edition
             /\ \/ UNCHANGED <<versions, published>>
                \/ Len(versions') = Len(versions) + 1 /\ published' = edition
  BY <1>1, <1>5 DEF Insert
<1>6. CASE \E p \in Editors : PublishByHand(p) \/ Snapshot(p) \/ ReadLatest(p) \/ Crash(p)
  BY <1>2, <1>6 DEF PublishByHand, Snapshot, ReadLatest, Crash, tables, history
<1>7. CASE \/ \E x \in Exceptions : CreateException(x) \/ SetException(x)
           \/ \E g \in Grants : CreateGrant(g) \/ RevokeGrant(g)
  BY <1>2, <1>7 DEF CreateException, SetException, CreateGrant, RevokeGrant, Change
<1>8. CASE Tick \/ \E e \in Evals : \/ Start(e) \/ ReadRevision(e) \/ ReadRules(e)
                                    \/ ReadOverrides(e) \/ Fail(e)
  BY <1>2, <1>8 DEF Tick, Start, ReadRevision, ReadRules, ReadOverrides, Fail, tables, history
<1>. QED
  BY <1>1, <1>2, <1>3, <1>4, <1>5, <1>6, <1>7, <1>8 DEF Next, vars, tables, history

\* The first read of an evaluation and the second leave the tables.
LEMMA ReadsLeaveTables ==
  ASSUME NEW e \in Evals, ReadRevision(e) \/ ReadRules(e) \/ ReadOverrides(e)
  PROVE  UNCHANGED <<now, tables, history>>
BY DEF ReadRevision, ReadRules, ReadOverrides

LEMMA NextFresh == TInv /\ Fresh /\ [Next]_vars => Fresh'
<1> SUFFICES ASSUME TInv, Fresh, [Next]_vars PROVE Fresh'
  OBVIOUS
<1>1. /\ Len(versions) \in Nat /\ edition \in Nat /\ published \in Nat
      /\ published <= edition
  BY DEF TInv, TypeOK, Fresh
<1>2. published' <= edition'
  <2>1. edition' \in Nat /\ published' \in Nat
    BY NextTInv DEF TInv, TypeOK
  <2>. QED
    BY <1>1, <2>1, PublishedNext
<1>3. ASSUME NEW E \in Cached'
      PROVE  /\ E.rev.versions[1] <= Len(versions')
             /\ E.rev.versions[1] = Len(versions') => published' <= E.ed
  <2>1. CASE E \in Cached
    <3>1. E.rev.versions[1] \in Nat
      BY <2>1, CachedTyped DEF Entries, Fingerprints
    <3>. QED
      BY <1>1, <2>1, <3>1, PublishedNext DEF Fresh
  <2>2. ASSUME NEW e \in Evals, ReadOverrides(e), E = Entry(e)
        PROVE  /\ E.rev.versions[1] <= Len(versions')
               /\ E.rev.versions[1] = Len(versions') => published' <= E.ed
    <3>1. UNCHANGED <<versions, published>>
      BY <2>2, ReadsLeaveTables DEF tables, history
    <3>2. E.rev = eval[e].rev /\ E.ed = eval[e].ed /\ eval[e].at = "overrides"
      BY <2>2 DEF Entry, ReadOverrides
    <3>. QED
      BY <3>1, <3>2 DEF Fresh
  <2>. QED
    BY <2>1, <2>2, CachedNext
<1>4. ASSUME NEW e \in Evals, eval'[e].at \in {"rules", "overrides"}
      PROVE  /\ eval'[e].rev.versions[1] <= Len(versions')
             /\ eval'[e].at = "overrides" /\ eval'[e].rev.versions[1] = Len(versions')
                  => published' <= eval'[e].ed
  <2>1. CASE ReadRevision(e) /\ eval'[e].at = "rules" /\ eval'[e].rev = Revision
    <3>1. Len(versions') = Len(versions)
      BY <2>1, ReadsLeaveTables DEF tables
    <3>2. eval'[e].rev.versions[1] = Len(versions)
      BY <2>1 DEF Revision
    <3>. QED
      BY <1>1, <2>1, <3>1, <3>2
  <2>2. CASE eval[e].at \in {"rules", "overrides"} /\ eval'[e].rev = eval[e].rev
    <3>1. eval[e].rev.versions[1] \in Nat /\ eval[e].rev.versions[1] <= Len(versions)
      BY <2>2 DEF Fresh, TInv, Shape, Fingerprints
    <3>2. CASE eval[e].at = "overrides" /\ eval'[e].ed = eval[e].ed
      BY <1>1, <2>2, <3>1, <3>2, PublishedNext DEF Fresh
    <3>3. CASE ReadRules(e) /\ eval'[e].ed = edition
      <4>1. UNCHANGED <<versions, published>>
        BY <3>3, ReadsLeaveTables DEF tables, history
      <4>. QED
        BY <1>1, <2>2, <3>1, <3>3, <4>1
    <3>4. CASE eval'[e].at = "rules"
      BY <1>1, <2>2, <3>1, <3>4, PublishedNext
    <3>. QED
      BY <1>4, <3>2, <3>3, <3>4, ReadNext, <2>2, <2>1
  <2>. QED
    BY <1>4, <2>1, <2>2, ReadNext
<1>. QED
  BY <1>2, <1>3, <1>4 DEF Fresh

-----------------------------------------------------------------------------
(* Replaced editions *)

\* Why StaleBounded is kept: an edition is replaced no earlier than in the second
\* its rows were read in, the second of the entry or the one before.
Bounded ==
  /\ \A n \in edition..MaxActs : until[n] = Never
  /\ \A E \in Cached : /\ E.ed <= edition /\ E.at <= now
                       /\ until[E.ed] # Never => E.at - 1 <= until[E.ed]
  /\ \A e \in Evals :
       eval[e].at = "overrides" =>
         /\ eval[e].ed <= edition
         /\ until[eval[e].ed] # Never
              => (IF eval[e].late THEN now - 1 ELSE now) <= until[eval[e].ed]

LEMMA InitBounded == Init => Bounded
BY DEF Init, Bounded, Cached, Resting

\* How a step changes what Bounded is about.
LEMMA ReplacedNext ==
  ASSUME TInv, Bounded, [Next]_vars
  PROVE  \/ UNCHANGED <<edition, until>> /\ now' \in {now, now + 1}
         \/ /\ edition < MaxActs /\ edition' = edition + 1 /\ now' = now
            /\ until' = [until EXCEPT ![edition] = now]
<1>1. edition \in Nat /\ acts \in 0..MaxActs /\ edition <= acts
  BY DEF TInv, TypeOK, Shape
<1>2. CASE UNCHANGED <<now, edition, until>>
  BY <1>2
<1>3. ASSUME NEW p \in Editors, EditRule(p) \/ SetActive(p)
      PROVE  /\ edition < MaxActs /\ edition' = edition + 1 /\ now' = now
             /\ until' = [until EXCEPT ![edition] = now]
  BY <1>1, <1>3 DEF EditRule, SetActive, Edited, Act
<1>4. CASE \E p \in Editors : \/ PublishByHand(p) \/ Snapshot(p) \/ ReadLatest(p)
                              \/ Retire(p) \/ Insert(p) \/ Crash(p)
  BY <1>2, <1>4 DEF PublishByHand, Snapshot, ReadLatest, Retire, Insert, Crash, history
<1>5. CASE \/ \E x \in Exceptions : CreateException(x) \/ SetException(x)
           \/ \E g \in Grants : CreateGrant(g) \/ RevokeGrant(g)
  BY <1>2, <1>5 DEF CreateException, SetException, CreateGrant, RevokeGrant, Change
<1>6. CASE \E e \in Evals : \/ Start(e) \/ ReadRevision(e) \/ ReadRules(e)
                            \/ ReadOverrides(e) \/ Fail(e)
  BY <1>2, <1>6 DEF Start, ReadRevision, ReadRules, ReadOverrides, Fail, history
<1>7. CASE Tick
  BY <1>7 DEF Tick, history
<1>. QED
  BY <1>2, <1>3, <1>4, <1>5, <1>6, <1>7 DEF Next, vars, history

LEMMA NextBounded == TInv /\ Bounded /\ [Next]_vars => Bounded'
<1> SUFFICES ASSUME TInv, Bounded, [Next]_vars PROVE Bounded'
  OBVIOUS
<1>1. /\ edition \in Editions /\ now \in Nat /\ until \in [Editions -> Seconds]
      /\ \A n \in edition..MaxActs : until[n] = Never
  BY DEF TInv, TypeOK, Bounded
<1>2. \A n \in edition'..MaxActs : until'[n] = Never
  BY <1>1, ReplacedNext
\* An edition read is replaced now, or was replaced as it had been.
<1>3. ASSUME NEW n \in Editions, n <= edition
      PROVE  /\ n <= edition' /\ now <= now'
             /\ until'[n] = until[n] \/ (until[n] = Never /\ until'[n] = now /\ now' = now)
  <2>1. CASE UNCHANGED <<edition, until>> /\ now' \in {now, now + 1}
    BY <1>1, <1>3, <2>1
  <2>2. CASE edition' = edition + 1 /\ now' = now /\ until' = [until EXCEPT ![edition] = now]
    BY <1>1, <1>3, <2>2
  <2>. QED
    BY <2>1, <2>2, ReplacedNext
<1>4. ASSUME NEW E \in Cached'
      PROVE  /\ E.ed <= edition' /\ E.at <= now'
             /\ until'[E.ed] # Never => E.at - 1 <= until'[E.ed]
  <2>1. CASE E \in Cached
    <3>1. E.ed \in Editions /\ E.at \in Nat
      BY <2>1, CachedTyped DEF Entries
    <3>2. E.ed <= edition /\ E.at <= now /\ (until[E.ed] # Never => E.at - 1 <= until[E.ed])
      BY <2>1 DEF Bounded
    <3>3. /\ E.ed <= edition' /\ now <= now'
          /\ until'[E.ed] = until[E.ed] \/ (until'[E.ed] = now /\ now' = now)
      BY <1>3, <3>1, <3>2
    <3>4. now \in Int /\ now' \in Int
      BY <1>1, NextTInv DEF TInv, TypeOK, Seconds
    <3>5. E.at <= now' /\ E.at - 1 <= now
      BY <3>1, <3>2, <3>3, <3>4
    <3>. QED
      BY <3>2, <3>3, <3>5
  <2>2. ASSUME NEW e \in Evals, ReadOverrides(e), E = Entry(e)
        PROVE  /\ E.ed <= edition' /\ E.at <= now'
               /\ until'[E.ed] # Never => E.at - 1 <= until'[E.ed]
    <3>1. UNCHANGED <<now, edition, until>>
      BY <2>2, ReadsLeaveTables DEF history
    <3>2. E.ed = eval[e].ed /\ E.at = now /\ eval[e].at = "overrides" /\ E.ed \in Editions
      BY <2>2 DEF Entry, ReadOverrides, TInv, Shape
    <3>3. until[E.ed] \in Seconds
      BY <1>1, <3>2
    <3>4. /\ E.ed <= edition
          /\ until[E.ed] # Never => (IF eval[e].late THEN now - 1 ELSE now) <= until[E.ed]
      BY <3>2 DEF Bounded
    <3>5. E.at - 1 <= (IF eval[e].late THEN now - 1 ELSE now) /\ E.at <= now'
      BY <1>1, <3>1, <3>2
    <3>. QED
      BY <1>1, <3>1, <3>2, <3>3, <3>4, <3>5
  <2>. QED
    BY <2>1, <2>2, CachedNext
<1>5. ASSUME NEW e \in Evals, eval'[e].at = "overrides"
      PROVE  /\ eval'[e].ed <= edition'
             /\ until'[eval'[e].ed] # Never
                  => (IF eval'[e].late THEN now' - 1 ELSE now') <= until'[eval'[e].ed]
  <2>1. CASE ReadRules(e) /\ eval'[e].ed = edition
    BY <1>1, <2>1, ReadsLeaveTables DEF history
  <2>2. CASE /\ eval[e].at = "overrides" /\ eval'[e].ed = eval[e].ed
             /\ \/ eval'[e].late = eval[e].late /\ now' = now
                \/ ~eval[e].late /\ eval'[e].late /\ now' = now + 1
    <3>1. eval[e].ed \in Editions
      BY <2>2 DEF TInv, Shape
    <3>2. until[eval[e].ed] \in Seconds
      BY <1>1, <3>1
    <3>3. /\ eval[e].ed <= edition
          /\ until[eval[e].ed] # Never
               => (IF eval[e].late THEN now - 1 ELSE now) <= until[eval[e].ed]
      BY <2>2 DEF Bounded
    <3>. QED
      BY <1>1, <1>3, <2>2, <3>1, <3>2, <3>3
  <2>. QED
    BY <1>5, <2>1, <2>2, ReadNext
<1>. QED
  BY <1>2, <1>4, <1>5 DEF Bounded

-----------------------------------------------------------------------------
(* Withdrawn exceptions and grants *)

\* Why HiddenOnlyWithinASecond is kept: no timestamp of a fingerprint is past the
\* second it was read in, and what was withdrawn of the rows loaded after it was
\* withdrawn in that second or later.
Dated ==
  /\ \A x \in Exceptions : exc[x] # None => exc[x].updated <= now
  /\ \A g \in Grants : grants[g] # None => grants[g].revoked <= now
  /\ \A E \in Cached :
       /\ E.revAt <= now
       /\ \A t \in E.rev.exceptions[3] \cup E.rev.grants[3] : t <= E.revAt
       /\ \A x \in E.exc : /\ exc[x] # None
                           /\ exc[x].status # "active" => E.revAt <= exc[x].updated
       /\ \A g \in E.grants : /\ grants[g] # None
                              /\ grants[g].revoked # Never => E.revAt <= grants[g].revoked
  /\ \A e \in Evals :
       eval[e].at \in {"rules", "overrides"} =>
         /\ eval[e].revAt <= now
         /\ \A t \in eval[e].rev.exceptions[3] \cup eval[e].rev.grants[3] : t <= eval[e].revAt

LEMMA InitDated == Init => Dated
BY DEF Init, Dated, Cached, Resting

\* How a step changes the rows: none is deleted, and what is written is dated now.
LEMMA RowsNext ==
  ASSUME TInv, [Next]_vars
  PROVE  /\ now <= now'
         /\ \A x \in Exceptions :
              \/ exc'[x] = exc[x]
              \/ exc'[x] \in ExceptionRows /\ exc'[x].updated = now /\ now' = now
         /\ \A g \in Grants :
              \/ grants'[g] = grants[g]
              \/ grants'[g] \in GrantRows /\ grants'[g].revoked = now /\ now' = now
              \/ grants'[g] \in GrantRows /\ grants'[g].revoked = Never /\ grants[g] = None
<1>1. /\ now \in Stamps /\ now \in Nat /\ exc \in [Exceptions -> Maybe(ExceptionRows)]
      /\ grants \in [Grants -> Maybe(GrantRows)]
  BY DEF TInv, TypeOK
<1> DEFINE Still == now' \in {now, now + 1} /\ UNCHANGED <<exc, grants>>
<1>2. Still => /\ now <= now'
               /\ \A x \in Exceptions : exc'[x] = exc[x]
               /\ \A g \in Grants : grants'[g] = grants[g]
  BY <1>1
<1>3. ASSUME NEW x \in Exceptions, CreateException(x)
      PROVE  /\ exc'[x] \in ExceptionRows /\ exc'[x].updated = now
             /\ \A y \in Exceptions \ {x} : exc'[y] = exc[y]
             /\ UNCHANGED <<now, grants>>
  <2>1. BoundTo \subseteq Nat
    BY DEF BoundTo, ActiveVersions, TInv, TypeOK
  <2>. QED
    BY <1>1, <1>3, <2>1 DEF CreateException, Change, ExceptionRows
<1>4. ASSUME NEW x \in Exceptions, SetException(x)
      PROVE  /\ exc'[x] \in ExceptionRows /\ exc'[x].updated = now
             /\ \A y \in Exceptions \ {x} : exc'[y] = exc[y]
             /\ UNCHANGED <<now, grants>>
  <2>1. exc[x] \in ExceptionRows
    BY <1>1, <1>4 DEF SetException
  <2>2. PICK status \in {"active", "revoked", "rejected"} :
          exc' = [exc EXCEPT ![x] =
                   [exc[x] EXCEPT !.status = status, !.updated = now,
                             !.revoked = IF status = "revoked" THEN now ELSE exc[x].revoked]]
    BY <1>4 DEF SetException
  <2>3. exc'[x] = [exc[x] EXCEPT !.status = status, !.updated = now,
                             !.revoked = IF status = "revoked" THEN now ELSE exc[x].revoked]
    BY <1>1, <2>2
  <2>4. exc'[x] \in ExceptionRows /\ exc'[x].updated = now
    BY <1>1, <2>1, <2>3 DEF ExceptionRows
  <2>. QED
    BY <1>1, <1>4, <2>2, <2>4 DEF SetException, Change
<1>5. ASSUME NEW g \in Grants, CreateGrant(g)
      PROVE  /\ grants'[g] \in GrantRows /\ grants[g] = None /\ grants'[g].revoked = Never
             /\ \A h \in Grants \ {g} : grants'[h] = grants[h]
             /\ UNCHANGED <<now, exc>>
  BY <1>1, <1>5 DEF CreateGrant, Change, GrantRows
<1>6. ASSUME NEW g \in Grants, RevokeGrant(g)
      PROVE  /\ grants'[g] \in GrantRows /\ grants'[g].revoked = now
             /\ \A h \in Grants \ {g} : grants'[h] = grants[h]
             /\ UNCHANGED <<now, exc>>
  <2>1. grants[g] \in GrantRows
    BY <1>1, <1>6 DEF RevokeGrant
  <2>2. grants'[g] = [grants[g] EXCEPT !.revoked = now]
    BY <1>1, <1>6 DEF RevokeGrant
  <2>. QED
    BY <1>1, <1>6, <2>1, <2>2 DEF RevokeGrant, Change, GrantRows
<1>7. ASSUME NEW p \in Editors, \/ EditRule(p) \/ SetActive(p) \/ PublishByHand(p) \/ Snapshot(p)
                                \/ ReadLatest(p) \/ Retire(p) \/ Insert(p) \/ Crash(p)
      PROVE  Still
  BY <1>7 DEF EditRule, SetActive, PublishByHand, Snapshot, ReadLatest, Retire, Insert, Crash, tables
<1>8. ASSUME NEW e \in Evals, \/ Start(e) \/ ReadRevision(e) \/ ReadRules(e)
                              \/ ReadOverrides(e) \/ Fail(e)
      PROVE  Still
  BY <1>8 DEF Start, ReadRevision, ReadRules, ReadOverrides, Fail, tables
<1>9. ASSUME Tick \/ UNCHANGED vars
      PROVE  Still
  BY <1>9 DEF Tick, vars, tables
<1> HIDE DEF Still
<1>10. CASE Still
  BY <1>2, <1>10
<1>11. ASSUME NEW x \in Exceptions, CreateException(x) \/ SetException(x)
       PROVE  now' = now /\ \A y \in Exceptions : exc'[y] = exc[y] \/ (exc'[y] \in ExceptionRows /\ exc'[y].updated = now)
  BY <1>3, <1>4, <1>11
<1>12. CASE \E x \in Exceptions : CreateException(x) \/ SetException(x)
  <2>1. grants' = grants /\ now <= now'
    BY <1>1, <1>3, <1>4, <1>12
  <2>. QED
    BY <1>11, <1>12, <2>1
<1>13. CASE \E g \in Grants : CreateGrant(g) \/ RevokeGrant(g)
  <2>1. exc' = exc /\ now <= now' /\ now' = now
    BY <1>1, <1>5, <1>6, <1>13
  <2>. QED
    BY <1>5, <1>6, <1>13, <2>1
<1>. QED
  BY <1>7, <1>8, <1>9, <1>10, <1>12, <1>13 DEF Next

LEMMA NextDated == TInv /\ Dated /\ [Next]_vars => Dated'
<1> SUFFICES ASSUME TInv, Dated, [Next]_vars PROVE Dated'
  OBVIOUS
<1>1. /\ now \in Nat /\ exc \in [Exceptions -> Maybe(ExceptionRows)]
      /\ grants \in [Grants -> Maybe(GrantRows)] /\ now' \in Nat
  BY NextTInv DEF TInv, TypeOK
<1>2. /\ \A x \in Exceptions : exc'[x] # None => exc'[x].updated <= now'
      /\ \A g \in Grants : grants'[g] # None => grants'[g].revoked <= now'
  <2>1. /\ \A x \in Exceptions : exc[x] # None => exc[x].updated \in Int /\ exc[x].updated <= now
        /\ \A g \in Grants : grants[g] # None => grants[g].revoked \in Int /\ grants[g].revoked <= now
    BY <1>1 DEF Dated, ExceptionRows, GrantRows
  <2>. QED
    BY <1>1, <2>1, RowsNext
<1>3. ASSUME NEW E \in Cached'
      PROVE  /\ E.revAt <= now'
             /\ \A t \in E.rev.exceptions[3] \cup E.rev.grants[3] : t <= E.revAt
             /\ \A x \in E.exc : /\ exc'[x] # None
                                 /\ exc'[x].status # "active" => E.revAt <= exc'[x].updated
             /\ \A g \in E.grants : /\ grants'[g] # None
                                    /\ grants'[g].revoked # Never => E.revAt <= grants'[g].revoked
  <2>1. CASE E \in Cached
    <3>1. E.revAt \in Nat /\ E.exc \subseteq Exceptions /\ E.grants \subseteq Grants
      BY <2>1, CachedTyped DEF Entries
    <3>2. /\ E.revAt <= now
          /\ \A t \in E.rev.exceptions[3] \cup E.rev.grants[3] : t <= E.revAt
          /\ \A x \in E.exc : /\ exc[x] # None
                              /\ exc[x].status # "active" => E.revAt <= exc[x].updated
          /\ \A g \in E.grants : /\ grants[g] # None
                                 /\ grants[g].revoked # Never => E.revAt <= grants[g].revoked
      BY <2>1 DEF Dated
    <3>. QED
      BY <1>1, <3>1, <3>2, RowsNext
  <2>2. ASSUME NEW e \in Evals, ReadOverrides(e), E = Entry(e)
        PROVE  /\ E.revAt <= now'
               /\ \A t \in E.rev.exceptions[3] \cup E.rev.grants[3] : t <= E.revAt
               /\ \A x \in E.exc : exc'[x] # None /\ exc'[x].status = "active"
               /\ \A g \in E.grants : grants'[g] # None /\ grants'[g].revoked = Never
    <3>1. UNCHANGED <<now, exc, grants>>
      BY <2>2, ReadsLeaveTables DEF tables
    <3>2. /\ E.rev = eval[e].rev /\ E.revAt = eval[e].revAt /\ eval[e].at = "overrides"
          /\ E.exc = ActiveExceptions /\ E.grants = LiveGrants
      BY <2>2 DEF Entry, ReadOverrides
    <3>3. /\ \A x \in ActiveExceptions : exc[x] # None /\ exc[x].status = "active"
          /\ \A g \in LiveGrants : grants[g] # None /\ grants[g].revoked = Never
      BY DEF ActiveExceptions, LiveGrants, Present
    <3>. QED
      BY <3>1, <3>2, <3>3 DEF Dated
  <2>. QED
    BY <2>1, <2>2, CachedNext
<1>4. ASSUME NEW e \in Evals, eval'[e].at \in {"rules", "overrides"}
      PROVE  /\ eval'[e].revAt <= now'
             /\ \A t \in eval'[e].rev.exceptions[3] \cup eval'[e].rev.grants[3] : t <= eval'[e].revAt
  <2>1. CASE ReadRevision(e) /\ eval'[e].rev = Revision /\ eval'[e].revAt = now
    <3>1. now' = now
      BY <2>1, ReadsLeaveTables
    <3>2. \A t \in Newest({exc[x].updated : x \in Present(exc)}) : t <= now
      BY <1>1 DEF Newest, Present, Dated, ExceptionRows
    <3>3. \A t \in Newest({grants[g].revoked : g \in Present(grants)}) : t <= now
      BY <1>1 DEF Newest, Present, Dated, GrantRows
    <3>4. /\ Revision.exceptions[3] = Newest({exc[x].updated : x \in Present(exc)})
          /\ Revision.grants[3] = Newest({grants[g].revoked : g \in Present(grants)})
      BY DEF Revision
    <3>. QED
      BY <1>1, <2>1, <3>1, <3>2, <3>3, <3>4
  <2>2. CASE /\ eval[e].at \in {"rules", "overrides"}
             /\ eval'[e].rev = eval[e].rev /\ eval'[e].revAt = eval[e].revAt
    <3>1. eval[e].revAt \in Nat
      BY <2>2 DEF TInv, Shape
    <3>. QED
      BY <1>1, <2>2, <3>1, RowsNext DEF Dated
  <2>. QED
    BY <1>4, <2>1, <2>2, ReadNext
<1>. QED
  BY <1>2, <1>3, <1>4 DEF Dated

-----------------------------------------------------------------------------
(* Failing closed *)

\* Why FailsClosed is kept: rows that were read are those of some edition.
Closed ==
  \A c \in Calls \ open :
    /\ Denied(LoadedDefs, c)
    /\ cache # None => Denied(cache.defs, c)
    /\ \A e \in Evals : eval[e].at = "overrides" => Denied(eval[e].defs, c)

LEMMA InitClosed == Init => Closed
BY DEF Init, Closed, Resting

\* A step that changes the rules opens the calls the new edition does not deny.
LEMMA RulesNext ==
  ASSUME TInv, [Next]_vars, NEW c \in Calls
  PROVE  /\ c \notin open' => c \notin open
         /\ LoadedDefs' = LoadedDefs \/ (c \notin open' => Denied(LoadedDefs', c))
<1>1. ASSUME UNCHANGED <<rules, policy, open>>
      PROVE  LoadedDefs' = LoadedDefs /\ open' = open
  BY <1>1 DEF LoadedDefs
<1>2. ASSUME NEW p \in Editors, EditRule(p) \/ SetActive(p)
      PROVE  /\ open \subseteq open'
             /\ c \notin open' => Denied(LoadedDefs', c)
  <2>1. open' = open \cup {d \in Calls : ~Denied(LoadedDefs', d)}
    BY <1>2 DEF EditRule, SetActive, Edited
  <2>. QED
    BY <2>1
<1>3. CASE \E p \in Editors : \/ PublishByHand(p) \/ Snapshot(p) \/ ReadLatest(p)
                              \/ Retire(p) \/ Insert(p) \/ Crash(p)
  BY <1>1, <1>3 DEF PublishByHand, Snapshot, ReadLatest, Retire, Insert, Crash, tables, history
<1>4. CASE \/ \E x \in Exceptions : CreateException(x) \/ SetException(x)
           \/ \E g \in Grants : CreateGrant(g) \/ RevokeGrant(g)
  BY <1>1, <1>4 DEF CreateException, SetException, CreateGrant, RevokeGrant, Change
<1>5. CASE Tick \/ \E e \in Evals : \/ Start(e) \/ ReadRevision(e) \/ ReadRules(e)
                                    \/ ReadOverrides(e) \/ Fail(e)
  BY <1>1, <1>5 DEF Tick, Start, ReadRevision, ReadRules, ReadOverrides, Fail, tables, history
<1>6. CASE UNCHANGED vars
  BY <1>1, <1>6 DEF vars, tables, history
<1>. QED
  BY <1>2, <1>3, <1>4, <1>5, <1>6 DEF Next

LEMMA NextClosed == TInv /\ Closed /\ [Next]_vars => Closed'
<1> SUFFICES ASSUME TInv, Closed, [Next]_vars, NEW c \in Calls, c \notin open'
             PROVE  /\ Denied(LoadedDefs', c)
                    /\ cache' # None => Denied(cache'.defs, c)
                    /\ \A e \in Evals : eval'[e].at = "overrides" => Denied(eval'[e].defs, c)
  BY DEF Closed
<1>1. /\ Denied(LoadedDefs, c)
      /\ cache # None => Denied(cache.defs, c)
      /\ \A e \in Evals : eval[e].at = "overrides" => Denied(eval[e].defs, c)
  BY RulesNext DEF Closed
<1>2. Denied(LoadedDefs', c)
  BY <1>1, RulesNext
<1>3. cache' # None => Denied(cache'.defs, c)
  <2>1. cache' = cache \/ \E e \in Evals : ReadOverrides(e)
    BY DEF Next, vars, EditRule, SetActive, PublishByHand, Snapshot, ReadLatest, Retire, Insert,
           Crash, CreateException, SetException, CreateGrant, RevokeGrant, Change, Start,
           ReadRevision, ReadRules, Fail, Tick
  <2>2. ASSUME NEW e \in Evals, ReadOverrides(e)
        PROVE  cache'.defs = eval[e].defs /\ eval[e].at = "overrides"
    BY <2>2 DEF ReadOverrides, Entry
  <2>. QED
    BY <1>1, <2>1, <2>2
<1>4. ASSUME NEW e \in Evals, eval'[e].at = "overrides"
      PROVE  Denied(eval'[e].defs, c)
  BY <1>1, <1>4, ReadNext
<1>. QED
  BY <1>2, <1>3, <1>4

-----------------------------------------------------------------------------
(* What an evaluation answers with *)

\* An evaluation that ends in a step has decided on rows, or failed, in that step.
LEMMA Ends ==
  ASSUME TInv, [Next]_vars, NEW e \in Evals, eval[e].at # "idle", eval'[e].at = "idle"
  PROVE  ReadRevision(e) \/ ReadOverrides(e) \/ Fail(e)
<1>1. eval \in [Evals -> EvalType]
  BY DEF TInv, TypeOK
<1>2. ~ReadRules(e) /\ ~Tick
  BY ReadRulesFields, TickFields
<1>3. ASSUME NEW o \in Evals \ {e}, \/ Start(o) \/ ReadRevision(o) \/ ReadRules(o)
                                    \/ ReadOverrides(o) \/ Fail(o)
      PROVE  eval'[e] = eval[e]
  BY <1>1, <1>3 DEF Start, ReadRevision, ReadRules, ReadOverrides, Fail, Finish
<1>4. CASE \E p \in Editors : \/ EditRule(p) \/ SetActive(p) \/ PublishByHand(p) \/ Snapshot(p)
                              \/ ReadLatest(p) \/ Retire(p) \/ Insert(p) \/ Crash(p)
  BY <1>4 DEF EditRule, SetActive, PublishByHand, Snapshot, ReadLatest, Retire, Insert, Crash
<1>5. CASE \/ \E x \in Exceptions : CreateException(x) \/ SetException(x)
           \/ \E g \in Grants : CreateGrant(g) \/ RevokeGrant(g)
  BY <1>5 DEF CreateException, SetException, CreateGrant, RevokeGrant, Change
<1>6. ~Start(e) /\ ~UNCHANGED vars
  BY DEF Start, vars
<1>. QED
  BY <1>2, <1>3, <1>4, <1>5, <1>6 DEF Next

\* A hit decides on the entry the evaluation took, whose fingerprint is the one now.
LEMMA HitFields ==
  ASSUME TInv, [Next]_vars, NEW e \in Evals, Hit(e)
  PROVE  /\ eval[e].cached \in Cached /\ eval[e].cached \in Entries
         /\ Usable(eval[e].cached, Revision)
         /\ verdict'[e] \in Verdicts(eval[e].cached, eval[e].call)
<1>1. /\ eval[e].at = "revision" /\ eval'[e].at = "idle"
      /\ verdict'[e].why # "policy_check_unavailable"
  BY DEF Hit
<1>2. ~ReadOverrides(e)
  BY <1>1 DEF ReadOverrides
<1>3. ~Fail(e)
  <2>1. SUFFICES ASSUME Fail(e) PROVE verdict'[e].why = "policy_check_unavailable"
    BY <1>1
  <2>2. verdict'[e] \in FailedVerdicts(eval[e].call) /\ eval[e].call \in Calls
    BY <2>1 DEF Fail, Finish, TInv, TypeOK, Shape
  <2>. QED
    BY <2>2, FailedTyped
<1>4. ReadRevision(e)
  BY <1>1, <1>2, <1>3, Ends
<1>5. Usable(eval[e].cached, Revision)
  <2>1. SUFFICES ASSUME ~Usable(eval[e].cached, Revision) PROVE FALSE
    OBVIOUS
  <2>2. eval'[e] = [eval[e] EXCEPT !.at = "rules", !.cached = None, !.rev = Revision, !.revAt = now]
    BY <1>4, <2>1 DEF ReadRevision, TInv, TypeOK
  <2>3. eval[e] \in EvalType
    BY DEF TInv, TypeOK
  <2>. QED
    BY <1>1, <2>2, <2>3 DEF EvalType
<1>6. verdict'[e] \in Verdicts(eval[e].cached, eval[e].call)
  BY <1>4, <1>5 DEF ReadRevision, Finish, TInv, TypeOK
<1>7. eval[e].cached \in Cached
  BY <1>5 DEF Usable, Cached
<1>. QED
  BY <1>5, <1>6, <1>7, CachedTyped

LEMMA HitFresh ==
  ASSUME TInv, Fresh, [Next]_vars, NEW e \in Evals, Hit(e)
  PROVE  eval[e].cached.ed >= published
<1>1. eval[e].cached.rev.versions[1] = Len(versions)
  <2>1. eval[e].cached.rev = Revision
    BY HitFields DEF Usable
  <2>2. Revision.versions[1] = Len(versions)
    BY DEF Revision
  <2>. QED
    BY <2>1, <2>2
<1>2. eval[e].cached.ed \in Nat /\ published \in Nat
  BY HitFields DEF Entries, TInv, TypeOK
<1>. QED
  BY <1>1, <1>2, HitFields DEF Fresh

\* An edit is in force in every process from the moment its publication has
\* succeeded: no evaluation decides on cached rules older than the newest version's.
THEOREM PublishedEditSeenAlways == Spec => PublishedEditSeen
<1>1. TInv /\ Fresh /\ [Next]_vars => [\A e \in Evals : Hit(e) => eval[e].cached.ed >= published]_vars
  BY HitFresh
<1>. QED
  BY InitTInv, NextTInv, InitFresh, NextFresh, <1>1, PTL DEF Spec, PublishedEditSeen

LEMMA HitBounded ==
  ASSUME TInv, Bounded, [Next]_vars, NEW e \in Evals, Hit(e), until[eval[e].cached.ed] # Never
  PROVE  now - until[eval[e].cached.ed] <= TTL
<1>1. eval[e].cached \in Cached /\ now - eval[e].cached.at < TTL
  BY HitFields DEF Usable
<1>2. eval[e].cached.at \in Nat /\ until[eval[e].cached.ed] \in Int /\ now \in Nat
  BY HitFields DEF Entries, TInv, TypeOK
<1>3. eval[e].cached.at - 1 <= until[eval[e].cached.ed]
  BY <1>1 DEF Bounded
<1>. QED
  BY <1>1, <1>2, <1>3

\* Rules that were replaced more than the cache's lifetime ago decide no call, unless
\* the tables cannot be read, whatever became of the edit's publication.
THEOREM StaleBoundedAlways == Spec => StaleBounded
<1>1. TInv /\ Bounded /\ [Next]_vars =>
        [\A e \in Evals : Hit(e) /\ until[eval[e].cached.ed] # Never
                            => now - until[eval[e].cached.ed] <= TTL]_vars
  BY HitBounded
<1>. QED
  BY InitTInv, NextTInv, InitBounded, NextBounded, <1>1, PTL DEF Spec, StaleBounded

LEMMA InNewest ==
  ASSUME NEW S, NEW t \in S, t \in Stamps
  PROVE  t \in Newest(S)
BY DEF Newest

LEMMA HitDated ==
  ASSUME TInv, Dated, [Next]_vars, NEW e \in Evals, Hit(e),
         verdict'[e].by # None, Withdrawn(verdict'[e].by)
  PROVE  Touched(verdict'[e].by) = eval[e].cached.revAt
<1> DEFINE E == eval[e].cached
           o == verdict'[e].by
<1>1. E \in Cached /\ E \in Entries /\ E.rev = Revision
  BY HitFields DEF Usable
<1>2. o \in E.exc \cup E.grants
  BY HitFields, VerdictsTyped
<1>3. /\ E.revAt \in Nat /\ E.exc \subseteq Exceptions /\ E.grants \subseteq Grants
  BY <1>1 DEF Entries
<1>4. /\ Revision.exceptions[3] = Newest({exc[x].updated : x \in Present(exc)})
      /\ Revision.grants[3] = Newest({grants[g].revoked : g \in Present(grants)})
  BY DEF Revision
<1>5. CASE o \in E.exc
  <2>1. o \in Exceptions /\ exc[o] # None /\ (exc[o].status # "active" => E.revAt <= exc[o].updated)
    BY <1>1, <1>3, <1>5 DEF Dated
  <2>2. o \in Present(exc) /\ exc[o].updated \in Stamps
    BY <2>1 DEF Present, TInv, TypeOK, ExceptionRows
  <2>3. exc[o].updated \in Newest({exc[x].updated : x \in Present(exc)})
    <3>1. exc[o].updated \in {exc[x].updated : x \in Present(exc)}
      BY <2>2
    <3>. QED
      BY <2>2, <3>1, InNewest
  <2>4. exc[o].updated <= E.revAt
    BY <1>1, <1>4, <2>3 DEF Dated
  <2>5. exc[o].status # "active"
    BY <2>2 DEF Withdrawn, ActiveExceptions
  <2>. QED
    BY <1>3, <2>1, <2>2, <2>4, <2>5 DEF Touched
<1>6. CASE o \in E.grants
  <2>1. o \in Grants /\ grants[o] # None /\ (grants[o].revoked # Never => E.revAt <= grants[o].revoked)
    BY <1>1, <1>3, <1>6 DEF Dated
  <2>2. o \in Present(grants) /\ grants[o].revoked \in Seconds
    BY <2>1 DEF Present, TInv, TypeOK, GrantRows
  <2>3. grants[o].revoked # Never
    BY <2>2 DEF Withdrawn, LiveGrants
  <2>4. grants[o].revoked \in Newest({grants[g].revoked : g \in Present(grants)})
    <3>1. grants[o].revoked \in {grants[g].revoked : g \in Present(grants)}
      BY <2>2
    <3>2. grants[o].revoked \in Stamps
      BY <2>2, <2>3
    <3>. QED
      BY <3>1, <3>2, InNewest
  <2>5. grants[o].revoked <= E.revAt
    BY <1>1, <1>4, <2>4 DEF Dated
  <2>6. o \notin Exceptions
    BY <2>1
  <2>. QED
    BY <1>3, <2>1, <2>2, <2>3, <2>5, <2>6 DEF Touched
<1>. QED
  BY <1>2, <1>5, <1>6

\* A withdrawn exception or grant decides a call only when it was withdrawn in the
\* second in which the fingerprint of the cached rows had been read.
THEOREM HiddenOnlyWithinASecondAlways == Spec => HiddenOnlyWithinASecond
<1>1. TInv /\ Dated /\ [Next]_vars =>
        [\A e \in Evals : Hit(e) /\ verdict'[e].by # None /\ Withdrawn(verdict'[e].by)
                            => Touched(verdict'[e].by) = eval[e].cached.revAt]_vars
  BY HitDated
<1>. QED
  BY InitTInv, NextTInv, InitDated, NextDated, <1>1, PTL DEF Spec, HiddenOnlyWithinASecond

\* What is decided on rows, cached or just loaded, does not blame a failed read.
LEMMA HitDecides ==
  ASSUME TInv, NEW e \in Evals, ReadRevision(e) \/ ReadOverrides(e), eval'[e].at = "idle"
  PROVE  verdict'[e].why # "policy_check_unavailable"
<1>1. CASE ReadOverrides(e)
  <2>1. Entry(e) \in Entries
    BY <1>1, EntryTyped DEF ReadOverrides
  <2>2. verdict'[e] \in Verdicts(Entry(e), eval[e].call)
    BY <1>1 DEF ReadOverrides, Finish, TInv, TypeOK
  <2>. QED
    BY <2>1, <2>2, VerdictsTyped
<1>2. CASE ReadRevision(e)
  <2>1. Usable(eval[e].cached, Revision)
    <3>1. SUFFICES ASSUME ~Usable(eval[e].cached, Revision) PROVE FALSE
      OBVIOUS
    <3>2. eval'[e] = [eval[e] EXCEPT !.at = "rules", !.cached = None, !.rev = Revision, !.revAt = now]
      BY <1>2, <3>1 DEF ReadRevision, TInv, TypeOK
    <3>3. eval[e] \in EvalType
      BY DEF TInv, TypeOK
    <3>. QED
      BY <3>2, <3>3 DEF EvalType
  <2>2. verdict'[e] \in Verdicts(eval[e].cached, eval[e].call)
    BY <1>2, <2>1 DEF ReadRevision, Finish, TInv, TypeOK
  <2>3. eval[e].cached \in Entries
    BY <2>1 DEF Usable, TInv, TypeOK, EvalType
  <2>. QED
    BY <2>2, <2>3, VerdictsTyped
<1>. QED
  BY <1>1, <1>2

LEMMA FailedClosed ==
  ASSUME TInv, Closed, [Next]_vars, NEW e \in Evals, Failed(e), cache # None, eval[e].call \notin open
  PROVE  verdict'[e].decision = "deny"
<1>1. eval[e].at # "idle" /\ eval'[e].at = "idle" /\ verdict'[e].why = "policy_check_unavailable"
  BY DEF Failed
<1>2. eval[e].call \in Calls
  BY <1>1 DEF TInv, Shape
<1>3. ~ReadRevision(e)
  BY <1>1, HitDecides
<1>4. ~ReadOverrides(e)
  BY <1>1, HitDecides
<1>5. Fail(e)
  BY <1>1, <1>3, <1>4, Ends
<1>6. verdict'[e] \in FailedVerdicts(eval[e].call)
  BY <1>5 DEF Fail, Finish, TInv, TypeOK
<1>7. Denied(cache.defs, eval[e].call)
  BY <1>2 DEF Closed
<1>. QED
  BY <1>2, <1>6, <1>7, FailedTyped

\* A policy that denies on error keeps denying, while its tables cannot be read, a
\* call that every edition of its rules denied.
THEOREM FailsClosedAlways == Spec => FailsClosed
<1>1. TInv /\ Closed /\ [Next]_vars =>
        [\A e \in Evals : Failed(e) /\ cache # None /\ eval[e].call \notin open
                            => verdict'[e].decision = "deny"]_vars
  BY FailedClosed
<1>. QED
  BY InitTInv, NextTInv, InitClosed, NextClosed, <1>1, PTL DEF Spec, FailsClosed
=============================================================================
