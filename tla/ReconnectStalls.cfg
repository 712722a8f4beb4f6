\* One client, whose connection is lost once, and whose store may be behind.
CONSTANTS
  Clients = {c1}
  None = None
  WindowRows = 2
  MaxRecords = 2
  MaxAsks = 1
  MaxUpsets = 1
  Upsets = {"loss", "lag"}
SPECIFICATION FairSpec
PROPERTIES ReconnectReplays
CHECK_DEADLOCK FALSE
