\* Two machines in one group, no invitation: machine 1 removes machine 2, which
\* moves twice.
CONSTANTS
  Machines = {1, 2}
  Devices = {d1}
  MaxGroupMachines = 8
  MaxGroupDevices = 8
  Groups = {g1}
  None = None
  NoDevice = NoDevice
  Local <- NoLocals
  Screens = {}
  Guests = {}
  Owners = {1}
  Movers = {2}
  Switches = {}
  Reaches = {}
  MaxMints = 0
  MaxCounter = 3
  MaxInFlight = 1
SPECIFICATION GroupedSpec
PROPERTIES RemovalNeedsInvitation
CHECK_DEADLOCK FALSE
