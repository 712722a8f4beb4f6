\* Two machines that found, join, leave and refresh groups while up to two requests
\* or answers are under way; the device opens no connection and visits no space.
CONSTANTS
  Machines = {1, 2}
  Devices = {d1}
  MaxGroupMachines = 8
  MaxGroupDevices = 8
  Groups = {g1}
  None = None
  NoDevice = NoDevice
  Local <- NoLocals
  Screens = {}
  Guests = {}
  Owners = {1, 2}
  Movers = {2}
  Switches = {}
  Reaches = {}
  MaxMints = 1
  MaxCounter = 2
  MaxInFlight = 2
SPECIFICATION Spec
INVARIANTS KnowsItself
PROPERTIES EntriesOnlyRise OneWayIn
CHECK_DEADLOCK FALSE
