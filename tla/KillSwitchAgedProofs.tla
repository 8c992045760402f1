------------------------- MODULE KillSwitchAgedProofs -------------------------
(***************************************************************************)
(* Proofs about the evaluator's cache in KillSwitchAged, for any switches,  *)
(* lifetimes, clock resolution and cache TTL.                               *)
(***************************************************************************)
EXTENDS KillSwitchAged, KillSwitchProofs, WellFoundedInduction

USE KillSwitchAssumption

\* An entry was filled at the latest now, and if it no longer says what the
\* machine's table says, then it was filled before the table last changed.
CacheDated ==
  \A m \in Evaluators :
    /\ changed[m] \in 0..now
    /\ cache[m].until <= now + CacheTTL
    /\ cache[m].until <= changed[m] + CacheTTL \/ cache[m].active = ActiveOn(m)

LEMMA DatedInit == AgedInit => CacheDated
<1> SUFFICES ASSUME AgedInit, NEW m \in Evaluators
             PROVE  /\ changed[m] \in 0..now
                    /\ cache[m].until <= now + CacheTTL
                    /\ cache[m].until <= changed[m] + CacheTTL
  BY DEF CacheDated
<1>1. now = 0 /\ changed[m] = 0 /\ cache[m].until = 0
  BY DEF AgedInit, Init
<1> QED
  BY <1>1

\* Only a lookup writes the cache, and it takes what is active now.
LEMMA CacheStep ==
  ASSUME IInv, [Next]_vars, NEW m \in Evaluators
  PROVE  \/ cache'[m] = cache[m]
         \/ cache'[m] = [active |-> ActiveOn(m), until |-> now + CacheTTL] /\ ActiveOn(m)' = ActiveOn(m)
<1>1. ASSUME NEW n \in Evaluators, Lookup(n)
      PROVE  \/ cache'[m] = cache[m]
             \/ /\ cache'[m] = [active |-> ActiveOn(m), until |-> now + CacheTTL]
                /\ ActiveOn(m)' = ActiveOn(m)
  <2>1. UNCHANGED <<now, stamp, row>>
    BY <1>1 DEF Lookup
  <2>2. ActiveOn(m)' = ActiveOn(m)
    BY <2>1 DEF ActiveOn, Expired
  <2>3. cache'[m] = cache[m] \/ cache'[m] = [active |-> ActiveOn(m), until |-> now + CacheTTL]
    BY <1>1 DEF Lookup, IInv, TypeOK
  <2> QED
    BY <2>2, <2>3
<1>2. CASE Commands
  BY <1>2 DEF Commands, HostedPause, HostedResume, CliResumeAll, Pause, CliResume, WebResume
<1>3. ASSUME NEW n \in Machines, Push(n) \/ Pull(n) \/ DaemonRestarts(n) PROVE cache' = cache
  BY <1>3 DEF Push, PushRead, PushDies, PushWrite, PushWriteUnconfirmed, Upsert,
              Pull, PullAsk, PullFetch, PullApply, PullApplyPartly, Apply, DaemonRestarts
<1>4. CASE Tick \/ UNCHANGED vars
  BY <1>4 DEF Tick, vars
<1> QED
  BY <1>1, <1>2, <1>3, <1>4 DEF Next

LEMMA TimeGrows ==
  ASSUME IInv, [Next]_vars
  PROVE  now' \in {now, now + 1}
<1>1. CASE Commands
  BY <1>1 DEF Commands, HostedPause, HostedResume, CliResumeAll, Pause, CliResume, WebResume
<1>2. ASSUME NEW n \in Machines, Push(n) \/ Pull(n) \/ DaemonRestarts(n) PROVE now' = now
  BY <1>2 DEF Push, PushRead, PushDies, PushWrite, PushWriteUnconfirmed, Upsert,
              Pull, PullAsk, PullFetch, PullApply, PullApplyPartly, Apply, DaemonRestarts
<1>3. ASSUME NEW n \in Evaluators, Lookup(n) PROVE now' = now
  BY <1>3 DEF Lookup
<1>4. CASE Tick \/ UNCHANGED vars
  BY <1>4 DEF Tick, vars
<1> QED
  BY <1>1, <1>2, <1>3, <1>4 DEF Next

LEMMA DatedNext ==
  ASSUME IInv, CacheDated, [AgedNext]_<<vars, changed>>
  PROVE  CacheDated'
<1>1. CASE UNCHANGED <<vars, changed>>
  BY <1>1 DEF vars, CacheDated, ActiveOn, Expired
<1>2. CASE AgedNext
  <2> SUFFICES ASSUME NEW m \in Evaluators
               PROVE  /\ changed'[m] \in 0..now'
                      /\ cache'[m].until <= now' + CacheTTL
                      /\ cache'[m].until <= changed'[m] + CacheTTL \/ cache'[m].active = ActiveOn(m)'
    BY DEF CacheDated
  <2>1. Next /\ changed'[m] = IF ActiveOn(m)' # ActiveOn(m) THEN now' ELSE changed[m]
    BY <1>2 DEF AgedNext
  <2>2. now' \in {now, now + 1} /\ now \in Nat /\ CacheTTL \in Nat
    BY <2>1, TimeGrows DEF IInv, TypeOK
  <2>3. changed[m] \in 0..now /\ cache[m].until \in Nat
    BY DEF CacheDated, IInv, TypeOK
  <2>4. CASE cache'[m] = [active |-> ActiveOn(m), until |-> now + CacheTTL] /\ ActiveOn(m)' = ActiveOn(m)
    BY <2>1, <2>2, <2>3, <2>4
  <2>5. CASE cache'[m] = cache[m]
    <3>1. cache[m].until <= now' + CacheTTL
      BY <2>2, <2>3 DEF CacheDated
    <3>2. CASE ActiveOn(m)' = ActiveOn(m)
      BY <2>1, <2>2, <2>3, <2>5, <3>1, <3>2 DEF CacheDated
    <3>3. CASE ActiveOn(m)' # ActiveOn(m)
      BY <2>1, <2>2, <2>5, <3>1, <3>3
    <3> QED
      BY <3>2, <3>3
  <2> QED
    BY <2>1, <2>4, <2>5, CacheStep
<1> QED
  BY <1>1, <1>2

LEMMA AgedInvariant == AgedSpec => [](IInv /\ CacheDated)
<1>1. AgedInit => IInv /\ CacheDated
  BY InvInit, DatedInit DEF AgedInit, IInv
<1>2. [AgedNext]_<<vars, changed>> => [Next]_vars
  BY DEF AgedNext
<1>3. IInv /\ CacheDated /\ [AgedNext]_<<vars, changed>> => (IInv /\ CacheDated)'
  BY <1>2, InvNext, DatedNext
<1> QED
  BY <1>1, <1>3, PTL DEF AgedSpec

\* While an entry is alive, a table that has been still for the TTL has been
\* still since the entry was filled.
LEMMA AnswersFresh ==
  ASSUME IInv, CacheDated, NEW m \in Evaluators, Settled(m), NEW e \in Events
  PROVE  Answers(m, e) = Verdicts(ActiveOn(m), e)
<1>1. CASE cache[m].until > now
  <2>1. /\ changed[m] \in Nat /\ now \in Nat /\ CacheTTL \in Nat /\ cache[m].until \in Nat
        /\ now - changed[m] >= CacheTTL
    BY DEF CacheDated, Settled, IInv, TypeOK
  <2>2. ~(cache[m].until <= changed[m] + CacheTTL)
    BY <1>1, <2>1
  <2>3. cache[m].active = ActiveOn(m)
    BY <2>2 DEF CacheDated
  <2> QED
    BY <2>3 DEF Answers
<1>2. CASE ~(cache[m].until > now)
  BY <1>2 DEF Answers
<1> QED
  BY <1>1, <1>2

\* kill-switch-evaluator.ts: the cache keeps an answer that the table no longer
\* gives for less than its lifetime.
THEOREM StaleAnswersExpire == AgedSpec => []StaleNoLongerThanTTL
<1>1. IInv /\ CacheDated => StaleNoLongerThanTTL
  BY AnswersFresh DEF StaleNoLongerThanTTL
<1> QED
  BY <1>1, AgedInvariant, PTL

-------------------------------------------------------------------------------
(* Which pause governs *)

LEMMA LeastNatural ==
  ASSUME NEW T, T \subseteq Nat, T # {}
  PROVE  \E x \in T : \A y \in T : x <= y
<1>1. PICK x \in T : \A y \in T : ~ (<<y, x>> \in OpToRel(<, Nat))
  BY NatLessThanWellFounded, WFMin
<1>2. \A y \in T : ~ (y < x)
  BY <1>1 DEF OpToRel
<1> QED
  BY <1>2

\* Some pause that covers the event is the oldest, to the second.
LEMMA SomePauseGoverns ==
  ASSUME IInv, NEW active \in SUBSET Switches, NEW e, NEW s \in active, e \in Covers[s]
  PROVE  Governing(active, e) # {}
<1> DEFINE matching == {t \in active : e \in Covers[t]}
           Age(t) == Sec(stamp[t]) + TicksPerSecond
           ages == {Age(t) : t \in matching}
<1>1. \A t \in Switches : Sec(stamp[t]) \in Int /\ Age(t) \in Nat
  <2> SUFFICES ASSUME NEW t \in Switches PROVE Sec(stamp[t]) \in Int /\ Age(t) \in Nat
    OBVIOUS
  <2>1. stamp[t] \in Int /\ stamp[t] >= -1
    BY DEF IInv, TypeOK, NotYet
  <2>2. CASE stamp[t] >= 0
    <3>1. stamp[t] \in 0..MaxNow
      BY <2>1, <2>2 DEF IInv, TypeOK, NotYet
    <3> QED
      BY <3>1, SecBound
  <2>3. CASE stamp[t] = -1
    <3>1. stamp[t] % TicksPerSecond \in 0..(TicksPerSecond - 1)
      BY <2>1
    <3> QED
      BY <2>3, <3>1 DEF Sec
  <2> QED
    BY <2>1, <2>2, <2>3
<1>2. ages \subseteq Nat /\ Age(s) \in ages
  BY <1>1
<1>3. PICK least \in ages : \A n \in ages : least <= n
  BY <1>2, LeastNatural
<1>4. PICK t \in matching : least = Age(t)
  BY <1>3
<1>5. \A u \in matching : Sec(stamp[t]) <= Sec(stamp[u])
  <2> SUFFICES ASSUME NEW u \in matching PROVE Sec(stamp[t]) <= Sec(stamp[u])
    OBVIOUS
  <2>1. Age(t) <= Age(u)
    BY <1>3, <1>4
  <2> QED
    BY <1>1, <2>1
<1> QED
  BY <1>4, <1>5 DEF Governing

\* kill-switch-evaluator.ts: a hard pause that is in force for the TTL denies,
\* whichever of the pauses of its second comes first, unless a soft one is as old.
THEOREM HardPausesDeny == AgedSpec => []HardPauseDenies
<1>1. ASSUME IInv, CacheDated PROVE HardPauseDenies
  <2> SUFFICES ASSUME NEW m \in Evaluators, NEW s \in Hard, NEW e \in Events,
                      Settled(m), s \in ActiveOn(m), e \in Covers[s],
                      ~ \E t \in ActiveOn(m) \ Hard : e \in Covers[t] /\ Sec(stamp[t]) <= Sec(stamp[s])
               PROVE  Answers(m, e) = {"deny"}
    BY DEF HardPauseDenies
  <2>1. Answers(m, e) = Verdicts(ActiveOn(m), e)
    BY <1>1, AnswersFresh
  <2>2. ActiveOn(m) \in SUBSET Switches
    BY DEF ActiveOn
  <2>3. Governing(ActiveOn(m), e) # {}
    BY <1>1, <2>2, SomePauseGoverns
  <2>4. Governing(ActiveOn(m), e) \subseteq Hard
    BY DEF Governing
  <2> QED
    BY <2>1, <2>3, <2>4 DEF Verdicts
<1>2. IInv /\ CacheDated => HardPauseDenies
  BY <1>1
<1> QED
  BY <1>2, AgedInvariant, PTL
===============================================================================
