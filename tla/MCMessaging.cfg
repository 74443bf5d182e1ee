SPECIFICATION FairSpec
CONSTANTS
  w1 = w1
  w2 = w2
  r1 = r1
  m1 = m1
  r2 = r2
  None = None
  Messages = {m1}
  Rows = {1, 2, 3}
  Undeliverable = {1}
  Crids = {"k"}
  Templates = {"t"}
  Requests = {r1, r2}
  Workers = {w1, w2}
  Reports = {"failed", "unsubscribed"}
  Batch = 2
  MaxMishaps = 1
  MaxRequests = 3
  Schemas = {"migrated", "queried"}
INVARIANTS MsgTypeOK WaitingIsInOutbox TakenOncePerRow
PROPERTIES QueuedWithConsent OutboxDrains
CHECK_DEADLOCK FALSE
