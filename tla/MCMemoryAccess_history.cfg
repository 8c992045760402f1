CONSTANTS
  r1 = r1
  p1 = p1
  i1 = i1
  Runs = {r1}
  Projects = {p1}
  ProjectOf <- OneRun
  Items = {i1}
  PullArgs <- TwoPulls
  Retention = 1
  TeamMode = TRUE
  LastDay = 2
  MaxGen = 1
  MaxAccesses = 2
  MaxFaults = 1
  None = None
SPECIFICATION Spec
INVARIANT
  CohortHistoryKept
CHECK_DEADLOCK FALSE
