--------------------------- MODULE KillSwitchAged ---------------------------
(***************************************************************************)
(* KillSwitch with a history variable: when the set of switches active on   *)
(* each machine last changed, whether by a command, a pull or an expiry.    *)
(***************************************************************************)
EXTENDS KillSwitch

VARIABLE changed

AgedInit == Init /\ changed = [m \in Evaluators |-> 0]
AgedNext ==
  /\ Next
  /\ changed' = [m \in Evaluators |-> IF ActiveOn(m)' # ActiveOn(m) THEN now' ELSE changed[m]]
AgedSpec == AgedInit /\ [][AgedNext]_<<vars, changed>>

Settled(m) == now - changed[m] >= CacheTTL

\* What check() on machine m may answer: from a live cache entry, else fresh.
Answers(m, e) ==
  IF cache[m].until > now THEN Verdicts(cache[m].active, e) ELSE Verdicts(ActiveOn(m), e)

\* kill-switch-evaluator.ts: "Cache hit on stale data is acceptable (5s
\* window)": a machine whose switches have not changed for the cache TTL
\* answers as its table says, after pauses, resumes and expiries alike.
StaleNoLongerThanTTL ==
  \A m \in Evaluators : Settled(m) =>
    \A e \in Events : Answers(m, e) = Verdicts(ActiveOn(m), e)

\* A hard pause in force for the cache TTL denies every event it covers,
\* unless a soft pause at least as old covers the event too.
HardPauseDenies ==
  \A m \in Evaluators, s \in Hard, e \in Events :
    Settled(m) /\ s \in ActiveOn(m) /\ e \in Covers[s] =>
      \/ Answers(m, e) = {"deny"}
      \/ \E t \in ActiveOn(m) \ Hard : e \in Covers[t] /\ Sec(stamp[t]) <= Sec(stamp[s])
=============================================================================
