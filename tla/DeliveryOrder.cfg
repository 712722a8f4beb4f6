\* Order and liveness where the link hears of the transport's news in time.
SPECIFICATION FairSpec
CONSTANTS
  Slow = {}
  OutboxLimit = 2
  QueueLimit = 1
  CacheLimit = 3
  Prompt = TRUE
  MaxWrites = 3
  MaxFaults = 2
PROPERTIES Refines EveryWriteSettles
CHECK_DEADLOCK FALSE
