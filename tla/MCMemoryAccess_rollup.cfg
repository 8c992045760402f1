CONSTANTS
  r1 = r1
  p1 = p1
  i1 = i1
  Runs = {r1}
  Projects = {p1}
  ProjectOf <- OneRun
  Items = {i1}
  PullArgs <- TwoPulls
  Retention = 0
  TeamMode = TRUE
  LastDay = 1
  MaxGen = 1
  MaxAccesses = 2
  MaxFaults = 1
  None = None
SPECIFICATION Spec
INVARIANTS
  TypeOK
  NothingLost
  NoPartialDay
  ReseededUnlessTaught
  CloudCurrentOrQueued
CHECK_DEADLOCK FALSE
