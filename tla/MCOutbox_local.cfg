SPECIFICATION Spec
CONSTANTS
  c1 = c1
  c2 = c2
  e1 = e1
  e2 = e2
  Calls = {c1, c2}
  Events = {e1, e2}
  EventOf <- DistinctEvents
  Malformed = {c2}
  TeamMode = FALSE
  AuditWorkers = {a1, a2}
  SyncWorkers = {s1}
  MaxAttempts = 2
  MaxInterruptions = 2
  MaxRetries = 1
  NoJob = NoJob
CHECK_DEADLOCK FALSE
INVARIANTS
  TypeOK
  NothingLost
  DeadIsJustified
  ExclusiveUntilInterrupted
  ClaimsBounded
PROPERTIES
  ImplementsDelivery
