\* Two machines and a device that has paired with machine 2: every operation of a
\* machine, its group and the device's connections, but for a change of its name
\* (run GroupRaces); machine 1 uses the switch.
CONSTANTS
  Machines = {1, 2}
  Devices = {d1}
  MaxGroupMachines = 8
  MaxGroupDevices = 8
  Groups = {g1}
  None = None
  NoDevice = NoDevice
  Local <- NoLocals
  Screens <- AtOne
  Guests <- AtOne
  Owners = {1, 2}
  Movers = {}
  Switches = {1}
  Reaches = {}
  MaxMints = 1
  MaxCounter = 3
  MaxInFlight = 1
SPECIFICATION PairedSpec
INVARIANTS TypeOK LiveIsAdmitted RemovedIsRefused DeclinedIsPending
PROPERTIES SpaceIsKept SwitchGovernsAdmission
CHECK_DEADLOCK FALSE
