\* A write made between the transport's hang-up and the link's hearing of it.
SPECIFICATION Spec
CONSTANTS
  Slow = {}
  OutboxLimit = 2
  QueueLimit = 2
  CacheLimit = 2
  Prompt = FALSE
  MaxWrites = 2
  MaxFaults = 1
INVARIANTS ExecutedInOrder
CHECK_DEADLOCK FALSE
