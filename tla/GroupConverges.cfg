\* Three machines in one group, started in mid-life: machine 1's owner changes
\* the group, machine 2 moves, machine 3 runs beside a device of its own.
CONSTANTS
  Machines = {1, 2, 3}
  Devices = {d1}
  MaxGroupMachines = 8
  MaxGroupDevices = 8
  Groups = {g1}
  None = None
  NoDevice = NoDevice
  Local <- LocalAtThree
  Screens = {}
  Guests = {}
  Owners = {1}
  Movers = {2}
  Switches = {}
  Reaches <- Ring
  MaxMints = 0
  MaxCounter = 2
  MaxInFlight = 1
SPECIFICATION GroupedFairSpec
PROPERTIES GroupConverges
CHECK_DEADLOCK FALSE
