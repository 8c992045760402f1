---------------------------- MODULE PolicyEngine ----------------------------
(***************************************************************************)
(* The policy engine: the tables an administrator edits (rules, versions,   *)
(* exceptions and grants of one policy of one project) and the evaluator    *)
(* every tool call goes through.                                            *)
(*                                                                           *)
(* An edit of a rule is several statements without a transaction: the write,*)
(* then publishPolicyVersion, which snapshots the policy, reads the newest  *)
(* version, retires every version and inserts the next.  Two administrators *)
(* interleave at each of them, and a process may end between two.           *)
(*                                                                           *)
(* An evaluation reads a fingerprint of the five tables (counts and newest  *)
(* timestamps, in whole seconds), uses the cached rows when the fingerprint *)
(* is the cached one and the rows are young enough, and otherwise loads     *)
(* rules, exceptions and grants in three reads.  Any read may fail (the     *)
(* breaker, the timeout or the database): the verdict then comes from the   *)
(* rows of the cache, whatever their age, or is an allow.                   *)
(*                                                                           *)
(* The evaluations of one process share a cache; several are in flight.     *)
(* A tick is a second, and the timeout of 100 ms on each read lets an       *)
(* evaluation see at most one.  Not here: the counting of the breaker (a    *)
(* read fails whenever it likes), several policies, the text of matchers.   *)
(***************************************************************************)
EXTENDS Integers, Sequences, FiniteSets

CONSTANTS
  Evals,          \* evaluations in flight
  Editors,        \* administrators, each in a request or a command
  Calls,          \* the tool calls evaluated
  RuleIds,        \* rows of policy_rules
  Defs,           \* what a row may say: [priority, mode, decision, calls]
  Exceptions,     \* rows of policy_exceptions
  Grants,         \* rows of policy_grants
  Target,         \* the rule an exception or a grant names, or None for any
  Override,       \* the decision an exception puts in place
  DenyOnError,    \* the policy's deny_on_policy_error
  TTL,            \* CACHE_TTL_MS, in ticks
  MaxTime,        \* bound: the last second
  MaxActs,        \* bound: acts of the administrators
  None

Decisions == {"allow", "ask", "deny"}
Modes == {"preventive", "approval", "detective", "advisory", "disabled"}

ASSUME PolicyAssumption ==
  /\ TTL \in Nat /\ MaxTime \in Nat /\ MaxActs \in Nat
  /\ DenyOnError \in BOOLEAN
  /\ Defs \subseteq [priority : Nat, mode : Modes, decision : Decisions, calls : SUBSET Calls]
  /\ Target \in [Exceptions \cup Grants -> RuleIds \cup {None}]
  /\ Override \in [Exceptions -> Decisions]
  /\ None \notin Defs \cup RuleIds \cup Exceptions \cup Grants
  /\ Exceptions \cap Grants = {}
  /\ IsFiniteSet(RuleIds) /\ IsFiniteSet(Exceptions) /\ IsFiniteSet(Grants)

-----------------------------------------------------------------------------
(* The rows, what is loaded of them and the places in the handlers.          *)

Never == -1            \* SQL NULL among timestamps
Stamps == 0..MaxTime
Seconds == Stamps \cup {Never}
Editions == 0..MaxActs
Maybe(S) == S \cup {None}

RuleRows == [def : Defs, created : Stamps]
ExceptionRows ==
  [status : {"requested", "active", "revoked", "rejected"}, created : Stamps, updated : Stamps,
   revoked : Seconds, version : Nat]
GrantRows == [created : Stamps, revoked : Seconds]
LoadedType == [RuleIds -> Maybe(Defs)]
ContentType == [defs : LoadedType, active : BOOLEAN]
VersionRows == [active : BOOLEAN, snap : ContentType]

Newests == SUBSET Stamps
Fingerprints ==
  [policy : Stamps, rules : Nat \X Newests, versions : Nat \X Seconds,
   exceptions : Nat \X Newests \X Newests \X Newests, grants : Nat \X Newests \X Newests]
Entries ==
  [defs : LoadedType, version : SUBSET Nat, exc : SUBSET Exceptions,
   grants : SUBSET Grants, rev : Fingerprints, at : Stamps, ed : Editions, revAt : Stamps]

EditorType == [at : {"idle", "snapshot", "latest", "retire", "insert"},
               snap : Maybe(ContentType), latest : Nat]
EvalType ==
  [at : {"idle", "revision", "rules", "overrides"}, call : Maybe(Calls),
   cached : Maybe(Entries), rev : Maybe(Fingerprints), defs : Maybe(LoadedType),
   version : SUBSET Nat, ed : Editions \cup {Never}, revAt : Seconds, late : BOOLEAN]
Reasons == {"exception", "grant", "rule_matched", "no_rule_matched", "policy_check_unavailable"}
AnswerType == [why : Reasons, decision : Decisions, rule : Maybe(RuleIds),
               by : Maybe(Exceptions \cup Grants)]

\* None stands for no row.
ASSUME NoneAssumption == None \notin ExceptionRows \cup GrantRows

-----------------------------------------------------------------------------
VARIABLES
  now,        \* the second
  rules,      \* policy_rules: [def, created] or None
  policy,     \* policies: is_active and updated_at
  versions,   \* policy_versions by number: is it active, and its snapshot
  retired,    \* MAX(retired_at) of policy_versions
  exc,        \* policy_exceptions rows, or None
  grants,     \* policy_grants rows, or None
  editor,     \* each administrator's place in the edit
  cache,      \* the evaluator's entry for the project, or None
  eval,       \* each evaluation's place and what it has read
  verdict,    \* each evaluation's last answer, or None
  acts,       \* bound: how many edits, publications by hand and changes of overrides
  edition,    \* history: how many edits of the rules there were
  published,  \* history: the edition at the newest version's INSERT
  until,      \* history: the second in which an edition was replaced
  open        \* history: calls that some edition did not deny

tables == <<rules, policy, versions, retired, exc, grants>>
history == <<acts, edition, published, until, open>>
vars == <<now, tables, editor, cache, eval, verdict, history>>

\* MAX() of a column of stamps, as the seconds up to it: two columns have the same
\* newest stamp exactly when these sets are equal, and NULL is the empty set.
Newest(S) == {t \in Stamps : \E s \in S : t <= s}

-----------------------------------------------------------------------------
(* Rows and what the evaluator loads of them.                                *)

Present(table) == {x \in DOMAIN table : table[x] # None}

\* The rules of the policy as loaded: none unless the policy is active, and
\* joined with the versions whose status is 'active' (none or one).
ActiveVersions == {n \in 1..Len(versions) : versions[n].active}
LoadedDefs == [r \in RuleIds |-> IF policy.active /\ rules[r] # None THEN rules[r].def ELSE None]

ActiveExceptions == {x \in Present(exc) : exc[x].status = "active"}
LiveGrants == {g \in Present(grants) : grants[g].revoked = Never}

\* As if withdrawals left no trace in the fingerprint.
BugRevision ==
  [policy |-> policy.updated,
   rules |-> <<Cardinality(Present(rules)), Newest({rules[r].created : r \in Present(rules)})>>,
   versions |-> <<Len(versions), retired>>,
   exceptions |-> <<Cardinality(Present(exc)), Newest({exc[x].created : x \in Present(exc)}), {}, {}>>,
   grants |-> <<Cardinality(Present(grants)), Newest({grants[g].created : g \in Present(grants)}), {}>>]

Revision ==
  [policy |-> policy.updated,
   rules |-> <<Cardinality(Present(rules)), Newest({rules[r].created : r \in Present(rules)})>>,
   versions |-> <<Len(versions), retired>>,
   exceptions |-> <<Cardinality(Present(exc)), Newest({exc[x].created : x \in Present(exc)}),
                    Newest({exc[x].updated : x \in Present(exc)}),
                    Newest({exc[x].revoked : x \in Present(exc)})>>,
   grants |-> <<Cardinality(Present(grants)), Newest({grants[g].created : g \in Present(grants)}),
                Newest({grants[g].revoked : g \in Present(grants)})>>]

-----------------------------------------------------------------------------
(* The decision on a call, of the rows loaded.                               *)

Matching(defs, call) ==
  {r \in RuleIds : defs[r] # None /\ defs[r].mode # "disabled" /\ call \in defs[r].calls}

\* The matching rule of least priority, any of them when several have it, or None.
RulesFor(defs, call) ==
  LET fit == Matching(defs, call)
  IN  IF fit = {} THEN {None}
      ELSE {r \in fit : \A q \in fit : defs[r].priority <= defs[q].priority}

Effective(def) ==
  CASE def.mode \in {"detective", "advisory"}               -> "allow"
    [] def.mode = "approval" /\ def.decision = "deny"       -> "ask"
    [] OTHER                                                -> def.decision

\* The newest exception that matches: any of them when no rule does, one of the
\* rule's version otherwise.  Exceptions of one second come in any order.
ExceptionMatches(x, rule, version) ==
  rule # None => /\ Target[x] \in {None, rule}
                 /\ exc[x].version \in {0} \cup version
ExceptionsFor(loaded, rule, version) ==
  LET fit == {x \in loaded : ExceptionMatches(x, rule, version)}
  IN  {x \in fit : \A y \in fit : exc[y].created <= exc[x].created}

\* A grant answers an ask, or an approval rule that allows; never a deny.
GrantsFor(loaded, rule, def) ==
  IF Effective(def) = "ask" \/ (Effective(def) = "allow" /\ def.mode = "approval")
  THEN {g \in loaded : Target[g] \in {None, rule}} ELSE {}

Answer(why, decision, rule, by) == [why |-> why, decision |-> decision, rule |-> rule, by |-> by]

VerdictsBy(state, rule) ==
  LET xs == ExceptionsFor(state.exc, rule, state.version)
      gs == GrantsFor(state.grants, rule, state.defs[rule])
  IN  IF xs # {} THEN {Answer("exception", Override[x], rule, x) : x \in xs}
      ELSE IF rule = None THEN {Answer("no_rule_matched", "allow", None, None)}
      ELSE IF gs # {} THEN {Answer("grant", "allow", rule, g) : g \in gs}
      ELSE {Answer("rule_matched", Effective(state.defs[rule]), rule, None)}

Verdicts(state, call) == UNION {VerdictsBy(state, rule) : rule \in RulesFor(state.defs, call)}

\* Whether a rule denies when no table can be read, and a call so denied.
Enforced(defs, rule) == rule # None /\ DenyOnError /\ Effective(defs[rule]) = "deny"
Denied(defs, call) == \A rule \in RulesFor(defs, call) : Enforced(defs, rule)

-----------------------------------------------------------------------------
(* Administrators.                                                           *)

Idle == [at |-> "idle", snap |-> None, latest |-> 0]
Content ==
  [defs |-> [r \in RuleIds |-> IF rules[r] # None THEN rules[r].def ELSE None],
   active |-> policy.active]

Act == acts < MaxActs /\ acts' = acts + 1

\* What every edit does to the history.
Edited ==
  /\ edition' = edition + 1
  /\ until' = [until EXCEPT ![edition] = now]
  /\ open' = open \cup {c \in Calls : ~Denied(LoadedDefs, c)'}
  /\ UNCHANGED published

BeginPublish(p) == editor' = [editor EXCEPT ![p] = [Idle EXCEPT !.at = "snapshot"]]

\* As if an update cleared created_at.
BugRuleWrite(r, def) ==
  /\ def # None /\ \A q \in Present(rules) : rules[q].def # def
  /\ rules' = [rules EXCEPT ![r] =
                 [def |-> def, created |-> IF rules[r] = None THEN now ELSE Never]]

\* addPolicyRule, updatePolicyRule and deletePolicyRule: the write.  An UPDATE
\* leaves created_at, and sets no updated_at; a row that is referred to is not
\* deleted; the unique index keeps two rows from one priority and matcher.
RuleWrite(r, def) ==
  IF def = None
  THEN /\ rules[r] # None
       /\ \A o \in Present(exc) \cup Present(grants) : Target[o] # r
       /\ rules' = [rules EXCEPT ![r] = None]
  ELSE /\ \A q \in Present(rules) : rules[q].def # def
       /\ rules' = [rules EXCEPT ![r] =
                      [def |-> def, created |-> IF rules[r] = None THEN now ELSE rules[r].created]]

EditRule(p) ==
  /\ editor[p].at = "idle"
  /\ Act
  /\ \E r \in RuleIds, def \in Defs \cup {None} : RuleWrite(r, def)
  /\ UNCHANGED policy
  /\ Edited
  /\ BeginPublish(p)
  /\ UNCHANGED <<now, versions, retired, exc, grants, cache, eval, verdict>>

\* setPolicyActive, of a policy that is not already so.
SetActive(p) ==
  /\ editor[p].at = "idle"
  /\ Act
  /\ policy' = [active |-> ~policy.active, updated |-> now]
  /\ UNCHANGED rules
  /\ Edited
  /\ BeginPublish(p)
  /\ UNCHANGED <<now, versions, retired, exc, grants, cache, eval, verdict>>

\* publishPolicyVersion asked for on the policies page, without an edit.
PublishByHand(p) ==
  /\ editor[p].at = "idle"
  /\ Act
  /\ BeginPublish(p)
  /\ UNCHANGED <<now, tables, cache, eval, verdict, edition, published, until, open>>

Snapshot(p) ==
  /\ editor[p].at = "snapshot"
  /\ editor' = [editor EXCEPT ![p] = [@ EXCEPT !.at = "latest", !.snap = Content]]
  /\ UNCHANGED <<now, tables, cache, eval, verdict, history>>

ReadLatest(p) ==
  /\ editor[p].at = "latest"
  /\ LET n == Len(versions)
         same == n > 0 /\ versions[n].snap = editor[p].snap
     IN  editor' = [editor EXCEPT ![p] =
                      IF same THEN Idle ELSE [@ EXCEPT !.at = "retire", !.latest = n]]
  /\ UNCHANGED <<now, tables, cache, eval, verdict, history>>

\* UPDATE every version of the policy to 'retired'; retired_at is the second the
\* publication began in, taken here for that of its UPDATE.
Retire(p) ==
  /\ editor[p].at = "retire"
  /\ editor' = [editor EXCEPT ![p].at = "insert"]
  /\ versions' = [n \in 1..Len(versions) |-> [versions[n] EXCEPT !.active = FALSE]]
  /\ retired' = IF versions = <<>> THEN retired ELSE now
  /\ UNCHANGED <<now, rules, policy, exc, grants, cache, eval, verdict, history>>

\* As if the version number were taken from the row count at the INSERT.
BugNumberFree(p) == TRUE
\* INSERT the next version; the unique (policy, number) refuses a number taken
\* since the newest was read, and the edit ends with the error.
NumberFree(p) == editor[p].latest = Len(versions)
Insert(p) ==
  /\ editor[p].at = "insert"
  /\ editor' = [editor EXCEPT ![p] = Idle]
  /\ IF NumberFree(p)
     THEN /\ versions' = Append(versions, [active |-> TRUE, snap |-> editor[p].snap])
          /\ published' = edition
     ELSE UNCHANGED <<versions, published>>
  /\ UNCHANGED <<now, rules, policy, retired, exc, grants, cache, eval, verdict, acts, edition, until, open>>

\* The process of an administrator ends between two statements.
Crash(p) ==
  /\ editor[p].at # "idle"
  /\ editor' = [editor EXCEPT ![p] = Idle]
  /\ UNCHANGED <<now, tables, cache, eval, verdict, history>>

\* A change of an exception or a grant is one statement.
Change ==
  /\ Act
  /\ UNCHANGED <<now, rules, policy, versions, retired, editor, cache, eval, verdict,
                 edition, published, until, open>>

\* A new exception is bound to the active version, or the newest, if any (0 is NULL):
\* a publication in between leaves the row it would have left just before it.
BoundTo == IF ActiveVersions # {} THEN ActiveVersions ELSE {Len(versions)}
CreateException(x) ==
  /\ exc[x] = None /\ Target[x] \in Present(rules) \cup {None}
  /\ \E status \in {"requested", "active"}, v \in BoundTo :
       exc' = [exc EXCEPT ![x] = [status |-> status, created |-> now, updated |-> now,
                                  revoked |-> Never, version |-> v]]
  /\ UNCHANGED grants
  /\ Change

SetException(x) ==
  /\ exc[x] # None
  /\ \E status \in {"active", "revoked", "rejected"} :
       exc' = [exc EXCEPT ![x] =
                [exc[x] EXCEPT !.status = status, !.updated = now,
                               !.revoked = IF status = "revoked" THEN now ELSE exc[x].revoked]]
  /\ UNCHANGED grants
  /\ Change

CreateGrant(g) ==
  /\ grants[g] = None /\ Target[g] \in Present(rules) \cup {None}
  /\ grants' = [grants EXCEPT ![g] = [created |-> now, revoked |-> Never]]
  /\ UNCHANGED exc
  /\ Change

RevokeGrant(g) ==
  /\ grants[g] # None
  /\ grants' = [grants EXCEPT ![g].revoked = now]
  /\ UNCHANGED exc
  /\ Change

-----------------------------------------------------------------------------
(* Evaluations.                                                              *)

Resting == [at |-> "idle", call |-> None, cached |-> None, rev |-> None, defs |-> None,
            version |-> {}, ed |-> Never, revAt |-> Never, late |-> FALSE]

\* evaluate: the cache is looked up before the first read is awaited.
Start(e) ==
  /\ eval[e].at = "idle"
  /\ \E c \in Calls :
       eval' = [eval EXCEPT ![e] = [Resting EXCEPT !.at = "revision", !.call = c, !.cached = cache]]
  /\ verdict' = [verdict EXCEPT ![e] = None]
  /\ UNCHANGED <<now, tables, editor, cache, history>>

Finish(e, answers) ==
  /\ \E a \in answers : verdict' = [verdict EXCEPT ![e] = a]
  /\ eval' = [eval EXCEPT ![e] = Resting]
\* As if an unchanged fingerprint were enough.
BugUsable(cached, revision) == cached # None /\ cached.rev = revision

Usable(cached, revision) == /\ cached # None
                            /\ cached.rev = revision
                            /\ now - cached.at < TTL

ReadRevision(e) ==
  /\ eval[e].at = "revision"
  /\ IF Usable(eval[e].cached, Revision)
     THEN Finish(e, Verdicts(eval[e].cached, eval[e].call))
     ELSE /\ eval' = [eval EXCEPT ![e] =
                        [@ EXCEPT !.at = "rules", !.cached = None, !.rev = Revision, !.revAt = now]]
          /\ UNCHANGED verdict
  /\ UNCHANGED <<now, tables, editor, cache, history>>

ReadRules(e) ==
  /\ eval[e].at = "rules"
  /\ eval' = [eval EXCEPT ![e] =
                [@ EXCEPT !.at = "overrides", !.defs = LoadedDefs,
                          !.version = ActiveVersions, !.ed = edition]]
  /\ UNCHANGED <<now, tables, editor, cache, verdict, history>>

\* As if the fingerprint were read after the rows it stands for.
BugEntry(e) ==
  [defs |-> eval[e].defs, version |-> eval[e].version, exc |-> ActiveExceptions,
   grants |-> LiveGrants, rev |-> Revision, at |-> now, ed |-> eval[e].ed, revAt |-> now]

Entry(e) ==
  [defs |-> eval[e].defs, version |-> eval[e].version, exc |-> ActiveExceptions,
   grants |-> LiveGrants, rev |-> eval[e].rev, at |-> now, ed |-> eval[e].ed, revAt |-> eval[e].revAt]

\* The last two reads, of exceptions and of grants; the entry is cached under the
\* fingerprint read before the rows.
ReadOverrides(e) ==
  /\ eval[e].at = "overrides"
  /\ cache' = Entry(e)
  /\ Finish(e, Verdicts(Entry(e), eval[e].call))
  /\ UNCHANGED <<now, tables, editor, history>>

\* As if only rows young enough to decide on were kept for a failure.
BugWarm == IF cache # None /\ now - cache.at < TTL THEN cache ELSE None

\* What is cached decides when a read fails, however old it is.
Warm == cache
Unavailable(decision, rule) == Answer("policy_check_unavailable", decision, rule, None)
FailedVerdicts(call) ==
  IF Warm = None THEN {Unavailable("allow", None)}
  ELSE {Unavailable(IF Enforced(Warm.defs, rule) THEN "deny" ELSE "allow", rule)
          : rule \in RulesFor(Warm.defs, call)}

Fail(e) ==
  /\ eval[e].at # "idle"
  /\ Finish(e, FailedVerdicts(eval[e].call))
  /\ UNCHANGED <<now, tables, editor, cache, history>>

\* A read lasts 100 ms at most, so a second changes at most once under it.
Tick ==
  /\ now < MaxTime
  /\ \A e \in Evals : ~eval[e].late
  /\ now' = now + 1
  /\ eval' = [e \in Evals |-> [eval[e] EXCEPT !.late = eval[e].at # "idle"]]
  /\ UNCHANGED <<tables, editor, cache, verdict, history>>

-----------------------------------------------------------------------------
Init ==
  /\ now = 0
  /\ \E defs \in [RuleIds -> Defs \cup {None}] :
       /\ \A r, q \in RuleIds : defs[r] = defs[q] /\ defs[r] # None => r = q
       /\ rules = [r \in RuleIds |-> IF defs[r] = None THEN None ELSE [def |-> defs[r], created |-> 0]]
  /\ policy = [active |-> TRUE, updated |-> 0]
  /\ versions = <<[active |-> TRUE, snap |-> Content]>>
  /\ retired = Never
  /\ exc = [x \in Exceptions |-> None] /\ grants = [g \in Grants |-> None]
  /\ editor = [p \in Editors |-> Idle]
  /\ cache = None
  /\ eval = [e \in Evals |-> Resting] /\ verdict = [e \in Evals |-> None]
  /\ acts = 0 /\ edition = 0 /\ published = 0 /\ until = [n \in 0..MaxActs |-> Never]
  /\ open = {c \in Calls : ~Denied(LoadedDefs, c)}

Next ==
  \/ \E p \in Editors : \/ EditRule(p) \/ SetActive(p) \/ PublishByHand(p) \/ Snapshot(p)
                        \/ ReadLatest(p) \/ Retire(p) \/ Insert(p) \/ Crash(p)
  \/ \E x \in Exceptions : CreateException(x) \/ SetException(x)
  \/ \E g \in Grants : CreateGrant(g) \/ RevokeGrant(g)
  \/ \E e \in Evals : \/ Start(e) \/ ReadRevision(e) \/ ReadRules(e)
                      \/ ReadOverrides(e) \/ Fail(e)
  \/ Tick

Spec == Init /\ [][Next]_vars

-----------------------------------------------------------------------------
(* Properties.                                                               *)

\* Every row and every place in a handler is one the code has.
TypeOK ==
  /\ now \in Stamps
  /\ rules \in [RuleIds -> Maybe(RuleRows)]
  /\ policy \in [active : BOOLEAN, updated : Stamps]
  /\ versions \in Seq(VersionRows)
  /\ retired \in Seconds
  /\ exc \in [Exceptions -> Maybe(ExceptionRows)]
  /\ grants \in [Grants -> Maybe(GrantRows)]
  /\ editor \in [Editors -> EditorType]
  /\ cache \in Maybe(Entries)
  /\ eval \in [Evals -> EvalType]
  /\ verdict \in [Evals -> Maybe(AnswerType)]
  /\ acts \in 0..MaxActs /\ edition \in Editions /\ published \in Editions
  /\ until \in [Editions -> Seconds]
  /\ open \in SUBSET Calls

\* A policy has at most one version in force, however the statements of two
\* publications interleave: the rules of a policy with two would be loaded twice,
\* and a decision recorded with either (policy.ts:689-695, "leftJoin").
AtMostOneActive == \A m, n \in ActiveVersions : m = n

\* An evaluation that decides on cached rows.
Hit(e) == /\ eval[e].at = "revision" /\ eval'[e].at = "idle"
          /\ verdict'[e].why # "policy_check_unavailable"

\* Cached rules are never older than the last version published: an edit is in
\* force, in every process, from the moment its publication has succeeded, although
\* the UPDATE of a rule touches no column the fingerprint reads.
PublishedEditSeen == [][\A e \in Evals : Hit(e) => eval[e].cached.ed >= published]_vars

\* An edit whose publication failed, or was not needed because another edit undid
\* it, still reaches every evaluation within the cache's lifetime.
StaleBounded ==
  [][\A e \in Evals : Hit(e) /\ until[eval[e].cached.ed] # Never
                        => now - until[eval[e].cached.ed] <= TTL]_vars

\* The override a decision rests on, and the newest timestamp of its row.
Touched(o) == IF o \in Exceptions THEN exc[o].updated ELSE grants[o].revoked
Withdrawn(o) == o \notin ActiveExceptions \cup LiveGrants

\* A withdrawn exception or grant decides a call only if it was withdrawn in the
\* very second in which the fingerprint of the cached rows had been read: seconds
\* are all the fingerprint tells apart.
HiddenOnlyWithinASecond ==
  [][\A e \in Evals : Hit(e) /\ verdict'[e].by # None /\ Withdrawn(verdict'[e].by)
                        => Touched(verdict'[e].by) = eval[e].cached.revAt]_vars

\* Once an evaluation has completed, a policy that denies on error keeps denying
\* while its tables cannot be read: a call that every edition of the rules denied
\* is not let through by a failing read, however long ago the rows were cached.
Failed(e) == /\ eval[e].at # "idle" /\ eval'[e].at = "idle"
             /\ verdict'[e].why = "policy_check_unavailable"
FailsClosed ==
  [][\A e \in Evals : Failed(e) /\ cache # None /\ eval[e].call \notin open
                        => verdict'[e].decision = "deny"]_vars
=============================================================================
