\* Two clients, three selections or departures, two records and one upset.  A window
\* has room for one row, so that a replica of two is caught up in two windows.
CONSTANTS
  Clients = {c1, c2}
  None = None
  WindowRows = 1
  MaxRecords = 2
  MaxAsks = 3
  MaxUpsets = 1
  Upsets = {"loss", "refuse", "misread", "forget", "load", "archive"}
SPECIFICATION FairSpec
INVARIANTS TypeOK ReplicaIsTheLog SubscriberIsServed NothingIsLeftOn
PROPERTIES ReplicaOnlyGrows EveryoneCatchesUp
CHECK_DEADLOCK FALSE
