---------------------------- MODULE MCMachineGroup ----------------------------
(***************************************************************************)
(* Instances of MachineGroup for TLC.                                      *)
(***************************************************************************)
EXTENDS MachineGroup

\* No machine runs beside a device of its own.
NoLocals == [m \in Machines |-> NoDevice]

\* Machine 3 runs beside the only device.
LocalAtThree == [m \in Machines |-> IF m = 3 THEN CHOOSE d \in Devices : TRUE ELSE NoDevice]

\* Devices open connections and visit spaces at machine 1 only.
AtOne == {1} \X Devices

\* Dials that succeed now and then: any two of the three machines are connected,
\* each by dials of one of them.
Ring == {<<1, 2>>, <<2, 3>>, <<3, 1>>}

\* A start in mid-life: the machines have joined one group at machine 1, brought
\* every device, and all have heard of it.
Founded(g) ==
  [NoGroup EXCEPT !.id = g,
                  !.machines = [n \in Machines |-> NextEntry(NoEntry, TRUE, 1)],
                  !.devices = [d \in Devices |-> NextEntry(NoEntry, TRUE, 1)]]

GroupedInit ==
  /\ \E g \in Groups : group = [m \in Machines |-> Founded(g)] /\ created = {g}
  /\ allow = [m \in Machines |-> [d \in Devices |-> IF d = Local[m] THEN "none" ELSE "full"]]
  /\ accepting = [m \in Machines |-> TRUE]
  /\ invitation = [m \in Machines |-> 0]
  /\ minted = [m \in Machines |-> 0]
  /\ live = [m \in Machines |-> [d \in Devices |-> "none"]]
  /\ task = [m \in Machines |-> {}]
  /\ net = {}

\* A start in mid-life: the devices have paired with machine 2.
PairedInit ==
  /\ group = [m \in Machines |-> NoGroup] /\ created = {}
  /\ allow = [m \in Machines |-> [d \in Devices |-> IF m = 2 THEN "full" ELSE "none"]]
  /\ accepting = [m \in Machines |-> TRUE]
  /\ invitation = [m \in Machines |-> 0]
  /\ minted = [m \in Machines |-> 0]
  /\ live = [m \in Machines |-> [d \in Devices |-> "none"]]
  /\ task = [m \in Machines |-> {}]
  /\ net = {}

PairedSpec == PairedInit /\ [][Next]_vars

GroupedSpec == GroupedInit /\ [][Next]_vars
GroupedFairSpec == GroupedSpec /\ Fairness

===============================================================================
