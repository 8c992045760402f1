SPECIFICATION FairSpec
CONSTANTS
  c1 = c1
  c2 = c2
  e1 = e1
  e2 = e2
  Calls = {c1, c2}
  Events = {e1}
  EventOf <- RepeatedEvent
  Malformed = {c2}
  TeamMode = TRUE
  AuditWorkers = {a1}
  SyncWorkers = {s1}
  MaxAttempts = 2
  MaxInterruptions = 1
  MaxRetries = 0
  NoJob = NoJob
CHECK_DEADLOCK FALSE
INVARIANTS
  NothingLost
PROPERTIES
  QueueDrains
