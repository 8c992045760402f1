CONSTANTS
  c1 = c1
  r1 = r1
  x1 = x1
  g1 = g1
  Evals = {e1}
  Editors = {a1}
  Calls = {c1}
  RuleIds = {r1}
  Defs <- OnlyDeny
  Exceptions = {x1}
  Grants = {g1}
  Target <- AnyRule
  Override <- Allows
  DenyOnError = TRUE
  TTL = 1
  MaxTime = 2
  MaxActs = 2
  None = None
SPECIFICATION Spec
PROPERTIES
  StaleBounded
  HiddenOnlyWithinASecond
  FailsClosed
CHECK_DEADLOCK FALSE
