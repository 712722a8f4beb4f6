\* The outbox and the host's cache at limits smaller than the number of writes,
\* with reconnects, stalls, relaunches and failed saves.
SPECIFICATION Spec
CONSTANTS
  Slow = {2}
  OutboxLimit = 2
  QueueLimit = 1
  CacheLimit = 2
  Prompt = FALSE
  MaxWrites = 3
  MaxFaults = 2
INVARIANTS TypeOK SentIsPrefix OutboxIsStored OnceInWindow NothingIsLost
CHECK_DEADLOCK FALSE
