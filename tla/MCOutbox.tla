------------------------------ MODULE MCOutbox ------------------------------
(***************************************************************************)
(* Small instances of Outbox.                                                *)
(***************************************************************************)
EXTENDS Outbox, TLC

CONSTANTS c1, c2, e1, e2

\* Two calls for one tool invocation: the agent repeated it, the row id is the same.
RepeatedEvent == c1 :> e1 @@ c2 :> e1
\* Two unrelated calls.
DistinctEvents == c1 :> e1 @@ c2 :> e2
=============================================================================
