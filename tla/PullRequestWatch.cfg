SPECIFICATION Spec
CONSTANTS
  Threads = {t1}
  Checks = {c1}
  Required = {c1}
  None = None
  WakeLimit = 2
  ReadFailureLimit = 2
  MaxChanges = 3
  MaxUpsets = 1
INVARIANTS TypeOK KnownIsTold ToldOnce CacheIsCurrent
PROPERTIES EndsAreTold
CHECK_DEADLOCK FALSE
