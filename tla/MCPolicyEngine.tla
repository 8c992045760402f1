--------------------------- MODULE MCPolicyEngine ---------------------------
(***************************************************************************)
(* Small instances of PolicyEngine.                                          *)
(***************************************************************************)
EXTENDS PolicyEngine, TLC

CONSTANTS c1, r1, x1, g1

Rule(priority, mode, decision, calls) ==
  [priority |-> priority, mode |-> mode, decision |-> decision, calls |-> calls]

\* One call, denied by one rule and asked about by another.
DenyOrAsk == {Rule(1, "preventive", "deny", {c1}), Rule(2, "approval", "ask", {c1})}
AnyRule == [o \in Exceptions \cup Grants |-> None]
Allows == [x \in Exceptions |-> "allow"]
\* One rule, which denies the call.
OnlyDeny == {Rule(1, "preventive", "deny", {c1})}

Symmetry == Permutations(Editors)
=============================================================================
