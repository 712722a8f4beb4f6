------------------------------ MODULE GroupState ------------------------------
(***************************************************************************)
(* The state that the machines of a group replicate, and the operators     *)
(* that change and merge it (src/crates/traverse/src/group.rs).            *)
(*                                                                         *)
(* A group lists machines and devices.  Each listed id carries an entry:   *)
(* member or removed, a counter, and the machine that made the change.     *)
(* Entries are ordered by rank and the higher one wins, so the state is a  *)
(* register per id that only rises.  Names, routing hints and the time of  *)
(* a change are payload and are left out.                                  *)
(***************************************************************************)
EXTENDS Integers, FiniteSets

CONSTANTS
  Machines,          \* machine ids; numbers, in the order of the id strings
  Devices,           \* device ids
  MaxGroupMachines,  \* machines a state sent to another member may list
  MaxGroupDevices    \* devices a state sent to another member may list

ASSUME MachinesAssumption == Machines \subseteq Nat \ {0}
ASSUME LimitsAssumption ==
  MaxGroupMachines \in Nat \ {0} /\ MaxGroupDevices \in Nat \ {0}

\* An id the state does not list.  Counters of listed ids start at 1, so every
\* listed entry outranks it.
NoEntry == [member |-> FALSE, counter |-> 0, by |-> 0]

Entries == [member : BOOLEAN, counter : Nat \ {0}, by : Machines] \union {NoEntry}

Listed(e)  == e.counter # 0
Removed(e) == Listed(e) /\ ~e.member

\* The order of Entry::rank: (counter, removed, by), compared in this order.
OutranksMutant(e, f) ==  \* a removal does not beat an admission
  e.counter > f.counter

Outranks(e, f) ==
  \/ e.counter > f.counter
  \/ e.counter = f.counter /\ ~e.member /\ f.member
  \/ e.counter = f.counter /\ e.member = f.member /\ e.by > f.by

HigherMutant(e, f) ==  \* a late entry with the same counter wins
  IF f.counter >= e.counter THEN f ELSE e

Higher(e, f) == IF Outranks(f, e) THEN f ELSE e

\* The entry machine m writes over e.
NextEntryMutant(e, member, m) ==  \* a removal does not count
  [member |-> member, counter |-> IF member THEN e.counter + 1 ELSE 0, by |-> m]

NextEntry(e, member, m) ==
  [member |-> member, counter |-> e.counter + 1, by |-> m]

\* Merging another machine's entries into ours: an id both list keeps the higher
\* entry, an id only they list is taken while the limit leaves room.  Which ids
\* are dropped beyond it depends on the order of their list, which is left open:
\* the result is one of a set.
ListedIds(entries) == {i \in DOMAIN entries : Listed(entries[i])}

NewIds(ours, theirs) == ListedIds(theirs) \ ListedIds(ours)

DroppedSets(ours, theirs, limit) ==
  LET new  == NewIds(ours, theirs)
      room == limit - Cardinality(ListedIds(ours))
      over == Cardinality(new) - (IF room > 0 THEN room ELSE 0)
  IN  IF over <= 0 THEN {{}} ELSE {s \in SUBSET new : Cardinality(s) = over}

MergeEntries(ours, theirs, limit) ==
  { [i \in DOMAIN ours |->
       IF i \in dropped THEN ours[i] ELSE Higher(ours[i], theirs[i])] :
      dropped \in DroppedSets(ours, theirs, limit) }

\* States are records with the fields id, machines and devices; a machine's own
\* record of its group has one more field, which merging leaves alone.
Merge(ours, theirs) ==
  { [ours EXCEPT !.machines = both[1], !.devices = both[2]] :
      both \in MergeEntries(ours.machines, theirs.machines, MaxGroupMachines)
               \X MergeEntries(ours.devices, theirs.devices, MaxGroupDevices) }

MemberMachines(state) == {m \in Machines : state.machines[m].member}

\* Whether another member takes a state: the limits of GroupState::is_valid.
IsValid(state) ==
  /\ Cardinality(ListedIds(state.machines)) <= MaxGroupMachines
  /\ Cardinality(ListedIds(state.devices)) <= MaxGroupDevices

SetMachine(state, n, member, by) ==
  [state EXCEPT !.machines[n] = NextEntry(@, member, by)]

SetDevice(state, d, member, by) ==
  [state EXCEPT !.devices[d] = NextEntry(@, member, by)]

SetDevices(state, ds, member, by) ==
  [state EXCEPT !.devices = [d \in DOMAIN @ |->
     IF d \in ds THEN NextEntry(@[d], member, by) ELSE @[d]]]

===============================================================================
