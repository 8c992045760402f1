SPECIFICATION FairSpec
CONSTANTS
  s1 = s1
  s2 = s2
  e1 = e1
  e2 = e2
  Machines = {m1, m2}
  Evaluators = {}
  Cloud = cloud
  Switches = {s1}
  Events = {e1, e2}
  Covers <- GlobalAndTool
  Hard = {s1}
  LocalOnly = {}
  LifeOf <- NoExpiry
  CacheTTL = 1
  TicksPerSecond = 2
  MaxNow = 2
  MaxJobs = 2
  MaxFaults = 2
  NoSwitch = NoSwitch
CHECK_DEADLOCK FALSE
INVARIANTS
  TypeOK
  LiftedOnlyOnRequest
  PauseIsOwed
PROPERTIES
  FirstPauseSpreads
