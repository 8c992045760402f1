--------------------------- MODULE MCRunLifecycle ---------------------------
(***************************************************************************)
(* Small instances of RunLifecycle.                                          *)
(***************************************************************************)
EXTENDS RunLifecycle, FiniteSets, TLC

\* Sessions, calls and texts are told apart by nothing.
FullSymmetry == Permutations(Sessions) \cup Permutations(Calls) \cup Permutations(Texts)
=============================================================================
