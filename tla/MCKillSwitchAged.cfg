SPECIFICATION AgedSpec
CONSTANTS
  s1 = s1
  s2 = s2
  e1 = e1
  e2 = e2
  Machines = {m1}
  Evaluators = {m1}
  Cloud = cloud
  Switches = {s1, s2}
  Events = {e1, e2}
  Covers <- GlobalAndTool
  Hard = {s1}
  LocalOnly = {s2}
  LifeOf <- ShortLived
  CacheTTL = 1
  TicksPerSecond = 2
  MaxNow = 3
  MaxJobs = 1
  MaxFaults = 0
  NoSwitch = NoSwitch
CHECK_DEADLOCK FALSE
INVARIANTS
  StaleNoLongerThanTTL
  HardPauseDenies
