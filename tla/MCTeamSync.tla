----------------------------- MODULE MCTeamSync -----------------------------
(***************************************************************************)
(* Small instances of TeamSync: two machines, one project.                   *)
(***************************************************************************)
EXTENDS TeamSync, TLC

CONSTANTS m1, m2, p1, s1, s2

\* One session on each machine, both in the one project.
OneEach  == s1 :> m1 @@ s2 :> m2
OneProject == [s \in {s1, s2} |-> p1]

\* A reset gives a session a second run: two ids let it, or both sessions, have one.
Ids == 1..2
=============================================================================
