---------------------------- MODULE MCKillSwitch ----------------------------
(***************************************************************************)
(* Small instances of KillSwitch.                                            *)
(***************************************************************************)
EXTENDS KillSwitch, FiniteSets, TLC

CONSTANTS s1, s2, e1, e2

\* s1 is a global pause, s2 pauses one tool.
GlobalAndTool == [s \in Switches |-> IF s = s1 THEN {e1, e2} ELSE {e1}]
NoExpiry == [s \in Switches |-> 0]
=============================================================================
