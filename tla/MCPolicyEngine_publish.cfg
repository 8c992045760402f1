CONSTANTS
  c1 = c1
  r1 = r1
  x1 = x1
  g1 = g1
  Evals = {e1}
  Editors = {a1, a2}
  Calls = {c1}
  RuleIds = {r1}
  Defs <- DenyOrAsk
  Exceptions = {x1}
  Grants = {g1}
  Target <- AnyRule
  Override <- Allows
  DenyOnError = TRUE
  TTL = 1
  MaxTime = 0
  MaxActs = 2
  None = None
SPECIFICATION Spec
SYMMETRY Symmetry
INVARIANTS
  TypeOK
  AtMostOneActive
PROPERTIES
  PublishedEditSeen
CHECK_DEADLOCK FALSE
