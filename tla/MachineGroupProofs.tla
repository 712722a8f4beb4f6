-------------------------- MODULE MachineGroupProofs --------------------------
(***************************************************************************)
(* The invariants of MachineGroup, proved for any set of machines, devices *)
(* and groups and any bounds.                                              *)
(*                                                                         *)
(* The invariants hold each other up: which devices a machine declines, or *)
(* may keep connected, depends on what its list and its group's entries    *)
(* say, so they are proved together, as IInv.  All of them are about what  *)
(* Commit writes; lemma CommitKeepsInv shows once that it keeps them, from *)
(* four conditions each action that commits has to meet (Ready).           *)
(*                                                                         *)
(* Who gets into a group and onto a list (OneWayIn,                        *)
(* SwitchGovernsAdmission) is about what one step writes: each action that *)
(* commits is shown to meet two conditions on the record and the list it   *)
(* commits, Known and Governed; CommitAdmits shows that they are enough.   *)
(***************************************************************************)
EXTENDS MachineGroup, GroupStateProofs

\* A machine in no group keeps nothing of one.
NoGroupIsEmpty == \A m \in Machines : ~InGroup(m) => group[m] = NoGroup

GroupInv ==
  /\ group \in [Machines -> Records]
  /\ allow \in [Machines -> Lists]
  /\ live \in [Machines -> [Devices -> {"none", "admitted", "full", "space"}]]
  /\ LiveIsAdmitted
  /\ RemovedIsRefused
  /\ KnowsItself
  /\ DeclinedIsPending
  /\ NoGroupIsEmpty

\* The variables that are no part of a commit.
PlainTypes ==
  /\ accepting \in [Machines -> BOOLEAN]
  /\ invitation \in [Machines -> Nat]
  /\ minted \in [Machines -> Nat]
  /\ task \in [Machines -> SUBSET {"joining", "leaving"}]
  /\ created \subseteq Groups

NetType == net \subseteq SyncRequests \union JoinRequests \union Answers

IInv == GroupInv /\ PlainTypes /\ NetType

\* What m may commit.
Ready(m, record, list) ==
  /\ record \in Records
  /\ list \in Lists
  /\ record.id # None => record.machines[m].member
  /\ record.id = None => record = NoGroup
  /\ \A d \in Devices : live[m][d] # "none" => list[d] = allow[m][d]
  /\ \A d \in Devices :
       record.devices[d].member /\ record.declined[d] = record.devices[d].counter
         => list[d] # "full"

-------------------------------------------------------------------------------
LEMMA NoEntryIsEntry == NoEntry \in Entries
BY DEF Entries

LEMMA NoGroupIsRecord == NoGroup \in Records
BY NoEntryIsEntry DEF NoGroup, Records

LEMMA MemberIsCounted ==
  ASSUME NEW e \in Entries, e.member
  PROVE  e.counter \in Nat \ {0}
BY DEF Entries, NoEntry

LEMMA CommitKeepsInv ==
  ASSUME GroupInv, accepting \in [Machines -> BOOLEAN],
         NEW m \in Machines, NEW record, NEW list,
         Ready(m, record, list), Commit(m, record, list)
  PROVE  GroupInv'
<1> DEFINE applied == AppliedList(m, record, list)
           declined == AppliedDeclined(m, record, list)
<1>1. /\ group' = [group EXCEPT ![m] = [record EXCEPT !.declined = declined]]
      /\ allow' = [allow EXCEPT ![m] = applied]
      /\ live' = [live EXCEPT ![m] = SurvivingLive(m, record, list)]
  BY DEF Commit
<1>2. /\ record \in Records /\ list \in Lists
      /\ \A d \in Devices : record.devices[d] \in Entries /\ record.devices[d].counter \in Nat
  BY EntryTypes DEF Ready, Records
<1>3. declined \in [Devices -> Nat]
  BY <1>2 DEF AppliedDeclined
<1>4. applied \in Lists
  BY <1>2 DEF AppliedList, Lists
<1>5. [record EXCEPT !.declined = declined] \in Records
  BY <1>2, <1>3 DEF Records
<1>6. SurvivingLive(m, record, list) \in [Devices -> {"none", "admitted", "full", "space"}]
  BY DEF SurvivingLive, GroupInv
<1>7. /\ group' \in [Machines -> Records]
      /\ allow' \in [Machines -> Lists]
      /\ live' \in [Machines -> [Devices -> {"none", "admitted", "full", "space"}]]
  BY <1>1, <1>4, <1>5, <1>6 DEF GroupInv
<1>8. /\ group'[m].id = record.id /\ group'[m].machines = record.machines
      /\ group'[m].devices = record.devices /\ group'[m].declined = declined
      /\ allow'[m] = applied /\ live'[m] = SurvivingLive(m, record, list)
  BY <1>1, <1>2 DEF GroupInv, Records
<1>9. \A n \in Machines \ {m} :
        group'[n] = group[n] /\ allow'[n] = allow[n] /\ live'[n] = live[n]
  BY <1>1 DEF GroupInv
<1>10. LiveIsAdmitted'
  <2>1. ASSUME NEW d \in Devices, live'[m][d] # "none"
        PROVE  allow'[m][d] # "none" /\ live'[m][d] \in {"admitted", allow'[m][d]}
    <3>1. /\ live'[m][d] = live[m][d] /\ live[m][d] # "none"
          /\ ~(list[d] # "none" /\ applied[d] = "none")
      BY <1>8, <2>1 DEF SurvivingLive
    <3>2. /\ list[d] = allow[m][d] /\ list[d] # "none"
          /\ live[m][d] \in {"admitted", list[d]}
      BY <3>1 DEF Ready, GroupInv, LiveIsAdmitted
    <3>3. applied[d] = list[d]
      BY <3>1, <3>2 DEF AppliedList, Unlisted
    <3> QED BY <1>8, <3>1, <3>2, <3>3
  <2> QED BY <1>9, <2>1 DEF LiveIsAdmitted, GroupInv
<1>11. RemovedIsRefused'
  <2>1. ASSUME NEW d \in Devices, Removed(record.devices[d]), d # Local[m]
        PROVE  applied[d] # "full"
    BY <2>1 DEF AppliedList
  <2> QED BY <1>8, <1>9, <2>1 DEF RemovedIsRefused, GroupInv
<1>12. KnowsItself'
  BY <1>8, <1>9 DEF KnowsItself, InGroup, Ready, GroupInv
<1>13. DeclinedIsPending'
  <2>1. ASSUME NEW d \in Devices, declined[d] # 0
        PROVE  /\ applied[d] # "full" /\ record.devices[d].member
               /\ record.devices[d].counter = declined[d]
    <3>1. /\ record.devices[d].member /\ record.devices[d].counter = declined[d]
          /\ \/ record.declined[d] = record.devices[d].counter
             \/ Unlisted(m, record, list, d) /\ ~accepting[m]
      BY <2>1 DEF AppliedDeclined
    <3>2. ~Removed(record.devices[d])
      BY <3>1 DEF Removed
    <3>3. CASE Unlisted(m, record, list, d)
      BY <3>1, <3>2, <3>3 DEF AppliedList, Unlisted
    <3>4. CASE ~Unlisted(m, record, list, d)
      BY <3>1, <3>2, <3>4 DEF AppliedList, Ready
    <3> QED BY <3>1, <3>3, <3>4
  <2> QED BY <1>8, <1>9, <2>1 DEF DeclinedIsPending, GroupInv
<1>14. NoGroupIsEmpty'
  <2>1. ASSUME record.id = None
        PROVE  group'[m] = NoGroup
    <3>1. record = NoGroup
      BY <2>1 DEF Ready
    <3>2. declined = [d \in Devices |-> 0]
      BY <3>1 DEF AppliedDeclined, NoGroup, NoEntry
    <3> QED BY <1>1, <3>1, <3>2 DEF NoGroup, GroupInv
  <2> QED BY <1>8, <1>9, <2>1 DEF NoGroupIsEmpty, InGroup, GroupInv
<1> QED BY <1>7, <1>10, <1>11, <1>12, <1>13, <1>14 DEF GroupInv

-------------------------------------------------------------------------------
(* What the actions commit is a record, and what they send a state *)

LEMMA SetMachineType ==
  ASSUME NEW record \in Records, NEW n \in Machines, NEW by \in Machines,
         NEW member \in BOOLEAN
  PROVE  /\ SetMachine(record, n, member, by) \in Records
         /\ SetMachine(record, n, member, by).id = record.id
         /\ SetMachine(record, n, member, by).devices = record.devices
         /\ SetMachine(record, n, member, by).declined = record.declined
<1>1. record.machines[n] \in Entries
  BY DEF Records
<1>2. NextEntry(record.machines[n], member, by) \in Entries
  BY <1>1, NextEntryOutranks
<1> QED BY <1>2 DEF SetMachine, Records

LEMMA SetMachineAdmits ==
  ASSUME NEW record \in Records, NEW n \in Machines, NEW by \in Machines
  PROVE  SetMachine(record, n, TRUE, by).machines[n].member
BY DEF SetMachine, NextEntry, Records

LEMMA SetMachineOthers ==
  ASSUME NEW record \in Records, NEW n \in Machines, NEW by \in Machines,
         NEW member \in BOOLEAN, NEW other \in Machines, other # n
  PROVE  SetMachine(record, n, member, by).machines[other] = record.machines[other]
BY DEF SetMachine, Records

LEMMA SetDevicesType ==
  ASSUME NEW record \in Records, NEW ds \in SUBSET Devices, NEW by \in Machines,
         NEW member \in BOOLEAN
  PROVE  /\ SetDevices(record, ds, member, by) \in Records
         /\ SetDevices(record, ds, member, by).id = record.id
         /\ SetDevices(record, ds, member, by).machines = record.machines
         /\ SetDevices(record, ds, member, by).declined = record.declined
<1>1. \A d \in Devices : NextEntry(record.devices[d], member, by) \in Entries
  BY NextEntryOutranks DEF Records
<1>2. DOMAIN record.devices = Devices
  BY DEF Records
<1> QED BY <1>1, <1>2 DEF SetDevices, Records

LEMMA SetDeviceType ==
  ASSUME NEW record \in Records, NEW d \in Devices, NEW by \in Machines,
         NEW member \in BOOLEAN
  PROVE  /\ SetDevice(record, d, member, by) \in Records
         /\ SetDevice(record, d, member, by).id = record.id
         /\ SetDevice(record, d, member, by).machines = record.machines
         /\ SetDevice(record, d, member, by).declined = record.declined
         /\ SetDevice(record, d, member, by).devices[d]
              = NextEntry(record.devices[d], member, by)
         /\ \A e \in Devices \ {d} :
              SetDevice(record, d, member, by).devices[e] = record.devices[e]
<1>1. NextEntry(record.devices[d], member, by) \in Entries
  BY NextEntryOutranks DEF Records
<1> QED BY <1>1 DEF SetDevice, Records

LEMMA StateOfType ==
  ASSUME NEW record \in Records, record.id # None
  PROVE  StateOf(record) \in States
BY DEF StateOf, States, Records

\* Merging keeps the type, the id and the declined devices.
LEMMA MergeType ==
  ASSUME NEW record \in Records, NEW state \in States, NEW merged \in Merge(record, state)
  PROVE  /\ merged \in Records
         /\ merged.id = record.id /\ merged.declined = record.declined
         /\ \A n \in Machines : \/ merged.machines[n] = record.machines[n]
                               \/ Outranks(merged.machines[n], record.machines[n])
         /\ \A d \in Devices : \/ merged.devices[d] = record.devices[d]
                              \/ Outranks(merged.devices[d], record.devices[d])
<1>1. PICK ms \in MergeEntries(record.machines, state.machines, MaxGroupMachines),
           ds \in MergeEntries(record.devices, state.devices, MaxGroupDevices) :
        merged = [record EXCEPT !.machines = ms, !.devices = ds]
  BY DEF Merge
<1>2. /\ record.machines \in [Machines -> Entries] /\ state.machines \in [Machines -> Entries]
      /\ record.devices \in [Devices -> Entries] /\ state.devices \in [Devices -> Entries]
  BY DEF Records, States
<1>3. /\ ms \in [Machines -> Entries]
      /\ \A n \in Machines : ms[n] = record.machines[n] \/ Outranks(ms[n], record.machines[n])
  BY <1>1, <1>2, MergeEntriesRises
<1>4. /\ ds \in [Devices -> Entries]
      /\ \A d \in Devices : ds[d] = record.devices[d] \/ Outranks(ds[d], record.devices[d])
  BY <1>1, <1>2, MergeEntriesRises
<1> QED BY <1>1, <1>3, <1>4 DEF Records

\* m's own record and list may be committed, with entries of machines changed so
\* that m stays a member and a counter of a device changed or a list entry raised
\* where nothing is declined.
LEMMA OwnRecordReady ==
  ASSUME GroupInv, NEW m \in Machines, InGroup(m), NEW record \in Records,
         record.id = group[m].id, record.declined = group[m].declined,
         record.machines[m].member,
         NEW list \in Lists,
         \A d \in Devices : live[m][d] # "none" => list[d] = allow[m][d],
         \A d \in Devices : list[d] = allow[m][d] \/ group[m].declined[d] = 0
                              \/ record.devices[d].counter # group[m].declined[d]
  PROVE  Ready(m, record, list)
<1>1. ASSUME NEW d \in Devices, record.devices[d].member,
             record.declined[d] = record.devices[d].counter
      PROVE  list[d] # "full"
  <2>1. record.devices[d].counter # 0
    BY <1>1, MemberIsCounted DEF Records
  <2>2. group[m].declined[d] # 0 /\ list[d] = allow[m][d]
    BY <1>1, <2>1
  <2> QED BY <2>2 DEF GroupInv, DeclinedIsPending
<1> QED BY <1>1 DEF Ready, InGroup

LEMMA LeavingReady ==
  ASSUME GroupInv, NEW m \in Machines
  PROVE  Ready(m, NoGroup, allow[m])
BY NoGroupIsRecord DEF Ready, NoGroup, NoEntry, GroupInv

LEMMA AbsorbKeepsInv ==
  ASSUME GroupInv, accepting \in [Machines -> BOOLEAN],
         NEW m \in Machines, NEW state \in States, Absorb(m, state)
  PROVE  GroupInv'
<1>1. CASE UNCHANGED <<group, allow, live>>
  BY <1>1 DEF GroupInv, LiveIsAdmitted, RemovedIsRefused, KnowsItself, InGroup,
              DeclinedIsPending, NoGroupIsEmpty
<1>2. CASE ~UNCHANGED <<group, allow, live>>
  <2>1. state.id = group[m].id
    BY <1>2 DEF Absorb
  <2>2. PICK merged \in Merge(group[m], state) :
          IF ~merged.machines[m].member
          THEN Commit(m, NoGroup, allow[m])
          ELSE IF merged = group[m]
          THEN UNCHANGED <<group, allow, live>>
          ELSE Commit(m, merged, allow[m])
    BY <1>2 DEF Absorb
  <2>3. group[m] \in Records /\ allow[m] \in Lists
    BY DEF GroupInv
  <2>4. CASE ~merged.machines[m].member
    BY <2>2, <2>4, LeavingReady, CommitKeepsInv
  <2>5. CASE merged.machines[m].member
    <3>1. Commit(m, merged, allow[m])
      BY <1>2, <2>2, <2>5
    <3>2. InGroup(m)
      BY <2>1, GroupsAssumption DEF InGroup, States
    <3>3. Ready(m, merged, allow[m])
      <4>1. merged \in Records /\ merged.id = group[m].id
            /\ merged.declined = group[m].declined
        BY <2>3, MergeType
      <4> QED BY <2>3, <2>5, <3>2, <4>1, OwnRecordReady
    <3> QED BY <3>1, <3>3, CommitKeepsInv
  <2> QED BY <2>4, <2>5
<1> QED BY <1>1, <1>2

-------------------------------------------------------------------------------
(* Each step keeps the invariant *)

LEMMA MessageTypes ==
  ASSUME NetType, NEW msg \in net
  PROVE  /\ msg.from \in Machines /\ msg.to \in Machines
         /\ msg.kind \in {"sync", "join", "synced", "joined"}
         /\ msg.kind = "sync" => msg \in SyncRequests
         /\ msg.kind = "join" => msg \in JoinRequests
         /\ msg.kind \in {"synced", "joined"} => msg \in Answers
<1>1. CASE msg \in SyncRequests
  BY <1>1 DEF SyncRequests
<1>2. CASE msg \in JoinRequests
  BY <1>2 DEF JoinRequests
<1>3. CASE msg \in Answers
  BY <1>3 DEF Answers
<1> QED BY <1>1, <1>2, <1>3 DEF NetType

\* A step that leaves the groups alone and gives nobody full access.
LEMMA ListStepKeepsInv ==
  ASSUME GroupInv, UNCHANGED group,
         allow' \in [Machines -> Lists],
         live' \in [Machines -> [Devices -> {"none", "admitted", "full", "space"}]],
         \A m \in Machines, d \in Devices :
           allow'[m][d] = allow[m][d] \/ allow'[m][d] # "full",
         LiveIsAdmitted'
  PROVE  GroupInv'
BY DEF GroupInv, RemovedIsRefused, KnowsItself, InGroup, DeclinedIsPending, NoGroupIsEmpty

LEMMA StutterKeepsInv ==
  ASSUME GroupInv, UNCHANGED <<group, allow, live>>
  PROVE  GroupInv'
BY DEF GroupInv, LiveIsAdmitted, RemovedIsRefused, KnowsItself, InGroup,
       DeclinedIsPending, NoGroupIsEmpty

LEMMA InitInv == Init => IInv
<1> SUFFICES ASSUME Init PROVE IInv
  OBVIOUS
<1>1. /\ group \in [Machines -> Records]
      /\ allow \in [Machines -> Lists]
      /\ live \in [Machines -> [Devices -> {"none", "admitted", "full", "space"}]]
  BY NoGroupIsRecord DEF Init, Lists
<1>2. PlainTypes /\ NetType
  BY DEF Init, PlainTypes, NetType
<1>3. LiveIsAdmitted
  BY DEF Init, LiveIsAdmitted
<1>4. RemovedIsRefused /\ KnowsItself /\ DeclinedIsPending /\ NoGroupIsEmpty
  BY DEF Init, RemovedIsRefused, KnowsItself, DeclinedIsPending, NoGroupIsEmpty,
         InGroup, NoGroup
<1> QED BY <1>1, <1>2, <1>3, <1>4 DEF IInv, GroupInv

LEMMA PairKeepsInv ==
  ASSUME IInv, NEW m \in Machines, NEW d \in Devices, Pair(m, d)
  PROVE  GroupInv'
<1> DEFINE list == [allow[m] EXCEPT ![d] = PairedAccess(@)]
           record == IF InGroup(m) /\ list[d] = "full"
                     THEN SetDevice(group[m], d, TRUE, m) ELSE group[m]
<1>1. Commit(m, record, list)
  BY DEF Pair
<1>2. group[m] \in Records /\ allow[m] \in Lists /\ group[m].devices[d].counter \in Nat
  BY EntryTypes DEF IInv, GroupInv, Records
<1>3. list \in Lists /\ \A e \in Devices \ {d} : list[e] = allow[m][e]
  BY <1>2 DEF PairedAccess, Lists
<1>4. list[d] = PairedAccess(allow[m][d])
  BY <1>2 DEF Lists
<1>5. \A e \in Devices : live[m][e] # "none" => list[e] = allow[m][e]
  BY <1>3, <1>4 DEF PairedAccess, IInv, GroupInv, LiveIsAdmitted
<1>9. record = IF InGroup(m) /\ list[d] = "full"
               THEN SetDevice(group[m], d, TRUE, m) ELSE group[m]
  OBVIOUS
<1> HIDE DEF record, list
<1>6. CASE ~InGroup(m)
  <2>1. record = NoGroup
    BY <1>6, <1>9 DEF IInv, GroupInv, NoGroupIsEmpty
  <2>2. Ready(m, record, list)
    BY <1>3, <1>5, <2>1, NoGroupIsRecord DEF Ready, NoGroup, NoEntry
  <2> QED BY <1>1, <2>2, CommitKeepsInv DEF IInv, PlainTypes
<1>7. CASE InGroup(m) /\ list[d] = "full"
  <2>1. record = SetDevice(group[m], d, TRUE, m)
    BY <1>7, <1>9
  <2>2. /\ record \in Records /\ record.id = group[m].id
        /\ record.machines = group[m].machines
        /\ record.declined = group[m].declined
        /\ record.devices[d] = NextEntry(group[m].devices[d], TRUE, m)
    BY <1>2, <2>1, SetDeviceType
  <2>3. record.devices[d].counter = group[m].devices[d].counter + 1
    BY <2>2 DEF NextEntry
  <2>4. \/ group[m].declined[d] = 0
        \/ record.devices[d].counter # group[m].declined[d]
    BY <1>2, <2>3 DEF IInv, GroupInv, DeclinedIsPending
  <2>5. record.machines[m].member
    BY <1>7, <2>2 DEF IInv, GroupInv, KnowsItself
  <2>6. Ready(m, record, list)
    BY <1>3, <1>5, <1>7, <2>2, <2>4, <2>5, OwnRecordReady DEF IInv
  <2> QED BY <1>1, <2>6, CommitKeepsInv DEF IInv, PlainTypes
<1>8. CASE InGroup(m) /\ list[d] # "full"
  <2>1. record = group[m] /\ list[d] = allow[m][d]
    BY <1>2, <1>4, <1>8, <1>9 DEF PairedAccess, Lists
  <2>2. record.machines[m].member
    BY <1>8, <2>1 DEF IInv, GroupInv, KnowsItself
  <2>3. Ready(m, record, list)
    BY <1>2, <1>3, <1>5, <1>8, <2>1, <2>2, OwnRecordReady DEF IInv
  <2> QED BY <1>1, <2>3, CommitKeepsInv DEF IInv, PlainTypes
<1> QED BY <1>6, <1>7, <1>8

LEMMA RevokeKeepsInv ==
  ASSUME IInv, NEW m \in Machines, NEW d \in Devices, Revoke(m, d)
  PROVE  GroupInv'
<1>1. group[m] \in Records /\ allow[m] \in Lists /\ group[m].devices[d].counter \in Nat
  BY EntryTypes DEF IInv, GroupInv, Records
<1>2. CASE /\ group[m].devices[d].member
           /\ Commit(m, SetDevice(group[m], d, FALSE, m), allow[m])
  <2>1. InGroup(m)
    BY <1>2 DEF IInv, GroupInv, NoGroupIsEmpty, NoGroup, NoEntry
  <2>2. group[m].machines[m].member
    BY <2>1 DEF IInv, GroupInv, KnowsItself
  <2>3. Ready(m, SetDevice(group[m], d, FALSE, m), allow[m])
    BY ZenonT(60), <1>1, <2>1, <2>2, SetDeviceType, OwnRecordReady DEF IInv
  <2> QED BY <1>2, <2>3, CommitKeepsInv DEF IInv, PlainTypes
<1>3. CASE /\ allow' = [allow EXCEPT ![m][d] = "none"]
           /\ live' = [live EXCEPT ![m][d] = "none"]
           /\ UNCHANGED group
  <2>1. /\ allow' \in [Machines -> Lists]
        /\ live' \in [Machines -> [Devices -> {"none", "admitted", "full", "space"}]]
    BY <1>3 DEF IInv, GroupInv, Lists
  <2>2. \A n \in Machines, e \in Devices :
          /\ allow'[n][e] = IF n = m /\ e = d THEN "none" ELSE allow[n][e]
          /\ live'[n][e] = IF n = m /\ e = d THEN "none" ELSE live[n][e]
    BY <1>3 DEF IInv, GroupInv, Lists
  <2>3. LiveIsAdmitted'
    BY <2>2 DEF IInv, GroupInv, LiveIsAdmitted
  <2> QED BY <1>3, <2>1, <2>2, <2>3, ListStepKeepsInv DEF IInv
<1> QED BY <1>2, <1>3 DEF Revoke

LEMMA CreateKeepsInv ==
  ASSUME IInv, NEW m \in Machines, NEW g \in Groups, Create(m, g)
  PROVE  GroupInv'
<1> DEFINE named == [NoGroup EXCEPT !.id = g]
           founded == SetMachine(named, m, TRUE, m)
           full == FullDevices(m)
           local == LocalDevices(m)
           listed == SetDevices(founded, full, TRUE, m)
           record == SetDevices(listed, local, TRUE, m)
<1>1. Commit(m, record, allow[m])
  BY DEF Create
<1>2. /\ named \in Records /\ named.id = g
      /\ named.declined = [d \in Devices |-> 0]
  BY NoGroupIsRecord DEF NoGroup, Records
<1> HIDE DEF named
<1>3. /\ founded \in Records /\ founded.id = g
      /\ founded.declined = [d \in Devices |-> 0]
  BY <1>2, SetMachineType
<1>4. founded.machines[m].member
  BY <1>2, SetMachineAdmits
<1>5. full \in SUBSET Devices /\ local \in SUBSET Devices
  BY LocalAssumption DEF FullDevices, LocalDevices
<1> HIDE DEF founded, full, local
<1>6. /\ listed \in Records /\ listed.id = founded.id
      /\ listed.declined = founded.declined /\ listed.machines = founded.machines
  BY <1>3, <1>5, SetDevicesType
<1> HIDE DEF listed
<1>7. /\ record \in Records /\ record.id = founded.id
      /\ record.declined = founded.declined /\ record.machines = founded.machines
  BY <1>5, <1>6, SetDevicesType
<1> HIDE DEF record
<1>8. Ready(m, record, allow[m])
  <2>1. \A d \in Devices : record.devices[d].member => record.devices[d].counter # 0
    BY <1>7, MemberIsCounted DEF Records
  <2> QED BY <1>3, <1>4, <1>7, <2>1, GroupsAssumption DEF Ready, IInv, GroupInv
<1> QED BY <1>1, <1>8, CommitKeepsInv DEF IInv, PlainTypes

LEMMA RemoveMachineKeepsInv ==
  ASSUME IInv, NEW m \in Machines, NEW n \in Machines, RemoveMachine(m, n)
  PROVE  GroupInv'
<1> DEFINE record == SetMachine(group[m], n, FALSE, m)
<1>1. n # m /\ group[m].machines[n].member /\ Commit(m, record, allow[m])
  BY DEF RemoveMachine
<1>2. InGroup(m)
  BY <1>1 DEF IInv, GroupInv, NoGroupIsEmpty, NoGroup, NoEntry
<1>3. group[m].machines[m].member /\ group[m] \in Records /\ allow[m] \in Lists
  BY <1>2 DEF IInv, GroupInv, KnowsItself
<1>4. /\ record \in Records /\ record.id = group[m].id
      /\ record.declined = group[m].declined
  BY ZenonT(60), <1>3, SetMachineType
<1>5. record.machines[m].member
  BY ZenonT(60), <1>1, <1>3, SetMachineOthers
<1> HIDE DEF record
<1>6. Ready(m, record, allow[m])
  BY <1>2, <1>3, <1>4, <1>5, OwnRecordReady DEF IInv
<1> QED BY <1>1, <1>6, CommitKeepsInv DEF IInv, PlainTypes

LEMMA RefreshKeepsInv ==
  ASSUME IInv, NEW m \in Machines, RefreshThisMachine(m)
  PROVE  GroupInv'
<1> DEFINE record == SetMachine(group[m], m, TRUE, m)
<1>1. group[m].machines[m].member /\ Commit(m, record, allow[m])
  BY DEF RefreshThisMachine
<1>2. InGroup(m)
  BY <1>1 DEF IInv, GroupInv, NoGroupIsEmpty, NoGroup, NoEntry
<1>3. group[m] \in Records /\ allow[m] \in Lists
  BY DEF IInv, GroupInv
<1>4. /\ record \in Records /\ record.id = group[m].id
      /\ record.declined = group[m].declined
  BY <1>3, SetMachineType
<1>5. record.machines[m].member
  BY <1>3, SetMachineAdmits
<1> HIDE DEF record
<1>6. Ready(m, record, allow[m])
  BY <1>2, <1>3, <1>4, <1>5, OwnRecordReady DEF IInv
<1> QED BY <1>1, <1>6, CommitKeepsInv DEF IInv, PlainTypes

LEMMA AdmitDeclinedKeepsInv ==
  ASSUME IInv, NEW m \in Machines, NEW d \in Devices, AdmitDeclined(m, d)
  PROVE  GroupInv'
<1> DEFINE list == [allow[m] EXCEPT ![d] = PairedAccess(@)]
           record == [group[m] EXCEPT !.declined[d] = 0]
<1>1. Commit(m, record, list) /\ group[m].devices[d].member
  BY DEF AdmitDeclined
<1>2. group[m] \in Records /\ allow[m] \in Lists
  BY DEF IInv, GroupInv
<1>3. InGroup(m)
  BY <1>1 DEF IInv, GroupInv, NoGroupIsEmpty, NoGroup, NoEntry
<1>4. /\ record \in Records /\ record.id = group[m].id
      /\ record.machines = group[m].machines /\ record.devices = group[m].devices
      /\ record.declined[d] = 0
      /\ \A e \in Devices \ {d} : record.declined[e] = group[m].declined[e]
  BY <1>2 DEF Records
<1>5. list \in Lists /\ \A e \in Devices \ {d} : list[e] = allow[m][e]
  BY <1>2 DEF PairedAccess, Lists
<1>6. list[d] = PairedAccess(allow[m][d])
  BY <1>2 DEF Lists
<1> HIDE DEF record, list
<1>7. \A e \in Devices : live[m][e] # "none" => list[e] = allow[m][e]
  BY <1>5, <1>6 DEF PairedAccess, IInv, GroupInv, LiveIsAdmitted
<1>8. ASSUME NEW e \in Devices, record.devices[e].member,
             record.declined[e] = record.devices[e].counter
      PROVE  list[e] # "full"
  <2>1. record.devices[e].counter # 0
    BY <1>4, <1>8, MemberIsCounted DEF Records
  <2>2. e # d
    BY <1>4, <1>8, <2>1
  <2> QED BY <1>4, <1>5, <1>8, <2>1, <2>2 DEF IInv, GroupInv, DeclinedIsPending
<1>9. record.machines[m].member
  BY <1>3, <1>4 DEF IInv, GroupInv, KnowsItself
<1>10. Ready(m, record, list)
  BY <1>3, <1>4, <1>5, <1>7, <1>8, <1>9 DEF Ready, InGroup
<1> QED BY <1>1, <1>10, CommitKeepsInv DEF IInv, PlainTypes

LEMMA AcceptJoinKeepsInv ==
  ASSUME IInv, NEW msg \in net, AcceptJoin(msg)
  PROVE  GroupInv'
<1> DEFINE m == msg.to
           joined == SetMachine(group[m], msg.from, TRUE, m)
           brought == {d \in msg.devices : ~Listed(group[m].devices[d])}
           record == SetDevices(joined, brought, TRUE, m)
<1>1. Commit(m, record, allow[m]) /\ msg.kind = "join" /\ group[m].id = msg.group
  BY DEF AcceptJoin
<1>2. m \in Machines /\ msg.from \in Machines /\ msg \in JoinRequests
  BY <1>1, MessageTypes DEF IInv
<1> HIDE DEF m
<1>3. brought \in SUBSET Devices /\ InGroup(m)
  BY <1>1, <1>2, GroupsAssumption DEF JoinRequests, InGroup
<1>4. group[m] \in Records /\ allow[m] \in Lists /\ group[m].machines[m].member
  BY <1>2, <1>3 DEF IInv, GroupInv, KnowsItself
<1>5. /\ joined \in Records /\ joined.id = group[m].id
      /\ joined.declined = group[m].declined
  BY ZenonT(60), <1>2, <1>4, SetMachineType
<1>6. joined.machines[m].member
  <2>1. CASE m = msg.from
    BY <1>2, <1>4, <2>1, SetMachineAdmits
  <2>2. CASE m # msg.from
    BY ZenonT(60), <1>2, <1>4, <2>2, SetMachineOthers
  <2> QED BY <2>1, <2>2
<1> HIDE DEF joined, brought
<1>7. record \in Records /\ record.id = joined.id
  BY <1>2, <1>3, <1>5, SetDevicesType
<1>8. record.declined = joined.declined /\ record.machines = joined.machines
  BY <1>2, <1>3, <1>5, SetDevicesType
<1> HIDE DEF record
<1>9. Ready(m, record, allow[m])
  BY <1>2, <1>3, <1>4, <1>5, <1>6, <1>7, <1>8, OwnRecordReady DEF IInv
<1> QED BY <1>1, <1>2, <1>9, CommitKeepsInv DEF IInv, PlainTypes

LEMMA JoinFinishKeepsInv ==
  ASSUME IInv, NEW msg \in net, JoinFinish(msg)
  PROVE  GroupInv'
<1> DEFINE m == msg.to
           record == [NoGroup EXCEPT !.id = msg.state.id,
                                     !.machines = msg.state.machines,
                                     !.devices = msg.state.devices]
<1>1. m \in Machines /\ msg \in Answers
  BY MessageTypes DEF IInv, JoinFinish
<1>2. CASE UNCHANGED <<group, allow, live>>
  BY <1>2, StutterKeepsInv DEF IInv
<1>3. CASE msg.state.machines[m].member /\ Commit(m, record, allow[m])
  <2>1. /\ msg.state.id \in Groups /\ msg.state.machines \in [Machines -> Entries]
        /\ msg.state.devices \in [Devices -> Entries]
    BY <1>1 DEF Answers, States
  <2>2. /\ record \in Records /\ record.id # None
        /\ record.machines[m].member
        /\ record.declined = [d \in Devices |-> 0]
    BY <1>3, <2>1, GroupsAssumption DEF NoGroup, Records
  <2>3. Ready(m, record, allow[m])
    <3> HIDE DEF record, m
    <3>1. \A d \in Devices : record.devices[d].member => record.devices[d].counter # 0
      BY <2>2, MemberIsCounted DEF Records
    <3> QED BY <1>1, <2>2, <3>1 DEF Ready, IInv, GroupInv
  <2> QED BY <1>1, <1>3, <2>3, CommitKeepsInv DEF IInv, PlainTypes
<1> QED BY <1>2, <1>3 DEF JoinFinish

\* The steps that change lists and connections only.
LEMMA ListActionsKeepInv ==
  ASSUME IInv, NEW m \in Machines,
         \/ \E d \in Devices : \/ PairSpace(m, d) \/ MoveMember(m, d)
                              \/ Connect(m, d) \/ Hello(m, d) \/ Disconnect(m, d)
         \/ \E ds \in SUBSET Devices : RemoveMembers(m, ds)
         \/ Restart(m)
  PROVE  GroupInv'
<1> USE DEF IInv, GroupInv, Lists, LiveIsAdmitted
<1>1. ASSUME NEW d \in Devices, PairSpace(m, d)
      PROVE  GroupInv'
  BY <1>1, ListStepKeepsInv DEF PairSpace
<1>2. ASSUME NEW d \in Devices, MoveMember(m, d)
      PROVE  GroupInv'
  BY <1>2, ListStepKeepsInv DEF MoveMember
<1>3. ASSUME NEW d \in Devices, Connect(m, d)
      PROVE  GroupInv'
  BY <1>3, ListStepKeepsInv DEF Connect
<1>4. ASSUME NEW d \in Devices, Hello(m, d)
      PROVE  GroupInv'
  BY <1>4, ListStepKeepsInv DEF Hello
<1>5. ASSUME NEW d \in Devices, Disconnect(m, d)
      PROVE  GroupInv'
  BY <1>5, ListStepKeepsInv DEF Disconnect
<1>6. ASSUME NEW ds \in SUBSET Devices, RemoveMembers(m, ds)
      PROVE  GroupInv'
  BY <1>6, ListStepKeepsInv DEF RemoveMembers
<1>7. CASE Restart(m)
  BY <1>7, ListStepKeepsInv DEF Restart
<1> QED BY <1>1, <1>2, <1>3, <1>4, <1>5, <1>6, <1>7

LEMMA NextKeepsGroupInv == IInv /\ [Next]_vars => GroupInv'
<1> SUFFICES ASSUME IInv, [Next]_vars PROVE GroupInv'
  OBVIOUS
<1>1. ASSUME NEW m \in Owners, OwnerStep(m)
      PROVE  GroupInv'
  <2>1. m \in Machines
    BY BoundsAssumption
  <2>2. CASE UNCHANGED <<group, allow, live>>
    BY <2>2, StutterKeepsInv DEF IInv
  <2>3. CASE \E d \in Devices : Revoke(m, d)
    BY <2>1, <2>3, RevokeKeepsInv
  <2>4. CASE \E d \in Devices : MoveMember(m, d)
    BY <2>1, <2>4, ListActionsKeepInv
  <2>5. CASE \E ds \in SUBSET Devices : RemoveMembers(m, ds)
    BY <2>1, <2>5, ListActionsKeepInv
  <2>6. CASE \E g \in Groups : Create(m, g)
    BY <2>1, <2>6, CreateKeepsInv
  <2>7. CASE \E n \in Machines : RemoveMachine(m, n)
    BY <2>1, <2>7, RemoveMachineKeepsInv
  <2>8. CASE \E d \in Devices : AdmitDeclined(m, d)
    BY <2>1, <2>8, AdmitDeclinedKeepsInv
  <2>9. \/ UNCHANGED <<group, allow, live>>
        \/ \E d \in Devices : Revoke(m, d) \/ MoveMember(m, d) \/ AdmitDeclined(m, d)
        \/ \E ds \in SUBSET Devices : RemoveMembers(m, ds)
        \/ \E g \in Groups : Create(m, g)
        \/ \E n \in Machines : RemoveMachine(m, n)
    BY <1>1 DEF OwnerStep, Mint, SetAccepting, JoinStart, LeaveStart
  <2> QED BY <2>2, <2>3, <2>4, <2>5, <2>6, <2>7, <2>8, <2>9
<1>2. ASSUME NEW m \in Machines, NEW d \in Devices, DeviceStep(m, d)
      PROVE  GroupInv'
  <2>1. CASE Pair(m, d)
    BY <2>1, PairKeepsInv
  <2>2. CASE PairSpace(m, d) \/ Connect(m, d) \/ Hello(m, d) \/ Disconnect(m, d)
    BY <2>2, ListActionsKeepInv
  <2> QED BY <1>2, <2>1, <2>2 DEF DeviceStep
<1>3. ASSUME NEW m \in Machines, MachineStep(m)
      PROVE  GroupInv'
  <2>1. CASE UNCHANGED <<group, allow, live>>
    BY <2>1, StutterKeepsInv DEF IInv
  <2>2. CASE LeaveFinish(m)
    BY <2>2, LeavingReady, CommitKeepsInv DEF LeaveFinish, IInv, PlainTypes
  <2>3. CASE RefreshThisMachine(m)
    BY <2>3, RefreshKeepsInv
  <2>4. CASE Restart(m)
    BY <2>4, ListActionsKeepInv
  <2>5. \/ UNCHANGED <<group, allow, live>>
        \/ LeaveFinish(m) \/ RefreshThisMachine(m) \/ Restart(m)
    BY <1>3 DEF MachineStep, LoseInvitation, JoinTimeout, LeaveFails, SyncStart
  <2> QED BY <2>1, <2>2, <2>3, <2>4, <2>5
<1>4. ASSUME NEW msg \in net, MessageStep(msg)
      PROVE  GroupInv'
  <2>1. CASE AcceptJoin(msg)
    BY <2>1, AcceptJoinKeepsInv
  <2>2. CASE JoinFinish(msg)
    BY <2>2, JoinFinishKeepsInv
  <2>3. CASE AcceptSync(msg)
    <3>1. msg.to \in Machines /\ msg.state \in States
      BY <2>3, MessageTypes DEF IInv, AcceptSync, SyncRequests
    <3>2. UNCHANGED <<group, allow, live>> \/ Absorb(msg.to, msg.state)
      BY <2>3 DEF AcceptSync
    <3> QED BY <3>1, <3>2, StutterKeepsInv, AbsorbKeepsInv DEF IInv, PlainTypes
  <2>4. CASE AbsorbAnswer(msg)
    <3>1. msg.to \in Machines /\ msg.state \in States
      BY <2>4, MessageTypes DEF IInv, AbsorbAnswer, Answers
    <3>2. Absorb(msg.to, msg.state)
      BY <2>4 DEF AbsorbAnswer
    <3> QED BY <3>1, <3>2, AbsorbKeepsInv DEF IInv, PlainTypes
  <2>5. CASE Lose(msg)
    BY <2>5, StutterKeepsInv DEF Lose, IInv
  <2> QED BY <1>4, <2>1, <2>2, <2>3, <2>4, <2>5 DEF MessageStep
<1>5. CASE UNCHANGED vars
  BY <1>5, StutterKeepsInv DEF vars, IInv
<1> QED BY <1>1, <1>2, <1>3, <1>4, <1>5 DEF Next

-------------------------------------------------------------------------------
(* The types of the other variables *)

LEMMA SyncType ==
  ASSUME NEW m \in Machines, NEW n \in Machines, NEW state \in States,
         NEW awaited \in BOOLEAN
  PROVE  Sync(m, n, state, awaited) \in SyncRequests
BY DEF Sync, SyncRequests

LEMMA AnswerType ==
  ASSUME NEW kind \in {"synced", "joined"}, NEW m \in Machines, NEW n \in Machines,
         NEW state \in States
  PROVE  Answer(kind, m, n, state) \in Answers
BY DEF Answer, Answers

LEMMA AbandonedType ==
  ASSUME NetType, NEW m, NEW requests \in SUBSET {"sync", "join"}, NEW answers
  PROVE  Abandoned(m, requests, answers) \subseteq SyncRequests \union JoinRequests \union Answers
<1>1. ASSUME NEW msg \in net, msg.kind \in {"sync", "join"}
      PROVE  [msg EXCEPT !.awaited = FALSE] \in SyncRequests \union JoinRequests
  <2>1. CASE msg.kind = "sync"
    <3>1. msg \in SyncRequests
      BY <2>1, MessageTypes
    <3> QED BY <3>1 DEF SyncRequests
  <2>2. CASE msg.kind = "join"
    <3>1. msg \in JoinRequests
      BY <2>2, MessageTypes
    <3> QED BY <3>1 DEF JoinRequests
  <2> QED BY <1>1, <2>1, <2>2
<1>2. \A msg \in net : msg \in SyncRequests \union JoinRequests \union Answers
  BY DEF NetType
<1> QED BY <1>1, <1>2 DEF Abandoned

LEMMA NextKeepsPlainTypes == PlainTypes /\ [Next]_vars => PlainTypes'
<1> SUFFICES ASSUME PlainTypes, [Next]_vars PROVE PlainTypes'
  OBVIOUS
<1> USE DEF PlainTypes
<1>1. ASSUME NEW m \in Owners, OwnerStep(m)
      PROVE  PlainTypes'
  <2>1. CASE Mint(m)
    BY <2>1, BoundsAssumption DEF Mint
  <2>2. CASE \E enabled \in BOOLEAN : SetAccepting(m, enabled)
    BY <2>2, BoundsAssumption DEF SetAccepting
  <2>3. CASE \E g \in Groups : Create(m, g)
    BY <2>3 DEF Create
  <2>4. CASE \E n \in Machines : JoinStart(m, n)
    BY ZenonT(60), <2>4 DEF JoinStart
  <2>5. CASE LeaveStart(m)
    BY <2>5 DEF LeaveStart
  <2>6. CASE UNCHANGED <<accepting, invitation, minted, task, created>>
    BY <2>6
  <2> QED BY <1>1, <2>1, <2>2, <2>3, <2>4, <2>5, <2>6
       DEF OwnerStep, Revoke, MoveMember, RemoveMembers, RemoveMachine, AdmitDeclined
<1>2. ASSUME NEW m \in Machines, NEW d \in Devices, DeviceStep(m, d)
      PROVE  PlainTypes'
  <2>1. CASE Pair(m, d)
    BY <2>1 DEF Pair, TakeInvitation
  <2>2. CASE UNCHANGED <<accepting, invitation, minted, task, created>>
    BY <2>2
  <2> QED BY <1>2, <2>1, <2>2 DEF DeviceStep, PairSpace, Connect, Hello, Disconnect
<1>3. ASSUME NEW m \in Machines, MachineStep(m)
      PROVE  PlainTypes'
  <2>1. CASE LoseInvitation(m)
    BY <2>1 DEF LoseInvitation
  <2>2. CASE JoinTimeout(m) \/ LeaveFinish(m) \/ LeaveFails(m)
    BY <2>2 DEF JoinTimeout, LeaveFinish, LeaveFails
  <2>3. CASE Restart(m)
    BY <2>3 DEF Restart
  <2>4. CASE UNCHANGED <<accepting, invitation, minted, task, created>>
    BY <2>4
  <2> QED BY <1>3, <2>1, <2>2, <2>3, <2>4 DEF MachineStep, RefreshThisMachine, SyncStart
<1>4. ASSUME NEW msg \in net, MessageStep(msg)
      PROVE  PlainTypes'
  <2>1. CASE AcceptJoin(msg)
    BY <2>1 DEF AcceptJoin, TakeInvitation
  <2>2. CASE JoinFinish(msg)
    BY <2>2 DEF JoinFinish
  <2>3. CASE UNCHANGED <<accepting, invitation, minted, task, created>>
    BY <2>3
  <2> QED BY <1>4, <2>1, <2>2, <2>3 DEF MessageStep, AcceptSync, AbsorbAnswer, Lose
<1>5. CASE UNCHANGED vars
  BY <1>5 DEF vars
<1> QED BY <1>1, <1>2, <1>3, <1>4, <1>5 DEF Next

LEMMA NextKeepsNetType == IInv /\ GroupInv' /\ [Next]_vars => NetType'
<1> SUFFICES ASSUME IInv, GroupInv', [Next]_vars PROVE NetType'
  OBVIOUS
<1> USE DEF NetType
<1>1. ASSUME NEW m \in Owners, OwnerStep(m)
      PROVE  NetType'
  <2>1. CASE \E n \in Machines : RemoveMachine(m, n)
    <3>1. PICK n \in Machines : RemoveMachine(m, n)
      BY <2>1
    <3> DEFINE record == SetMachine(group[m], n, FALSE, m)
               told == Sync(m, n, StateOf(record), TRUE)
    <3>2. m \in Machines /\ group[m] \in Records
      BY BoundsAssumption DEF IInv, GroupInv
    <3>3. group[m].id # None
      BY <3>1, <3>2 DEF RemoveMachine, IInv, GroupInv, NoGroupIsEmpty, InGroup, NoGroup,
                        NoEntry
    <3>4. record \in Records /\ record.id # None
      BY <3>2, <3>3, SetMachineType
    <3>5. told \in SyncRequests
      <4> HIDE DEF record
      <4> QED BY <3>2, <3>4, StateOfType, SyncType
    <3>6. net' \in {net, net \union {told}}
      BY <3>1 DEF RemoveMachine
    <3> QED BY <3>5, <3>6 DEF IInv
  <2>2. CASE \E n \in Machines : JoinStart(m, n)
    <3>1. PICK n \in Machines : JoinStart(m, n)
      BY <2>2
    <3>2. FullDevices(m) \union LocalDevices(m) \in SUBSET Devices /\ m \in Machines
      BY LocalAssumption, BoundsAssumption DEF FullDevices, LocalDevices
    <3>3. group[n].id \in Groups /\ invitation[n] \in Nat
      BY <3>1 DEF JoinStart, InGroup, IInv, GroupInv, PlainTypes, Records
    <3> DEFINE ds == FullDevices(m) \union LocalDevices(m)
               request == [kind |-> "join", from |-> m, to |-> n, group |-> group[n].id,
                           secret |-> invitation[n], devices |-> ds, awaited |-> TRUE]
    <3>4. net' = net \union {request}
      BY <3>1 DEF JoinStart
    <3>5. request \in JoinRequests
      <4> HIDE DEF ds
      <4> QED BY <3>2, <3>3 DEF JoinRequests, ds
    <3> HIDE DEF request
    <3> QED BY <3>4, <3>5 DEF IInv
  <2>3. CASE LeaveStart(m)
    <3> DEFINE record == SetMachine(group[m], m, FALSE, m)
    <3>1. m \in Machines /\ group[m] \in Records /\ group[m].id # None
      BY <2>3, BoundsAssumption DEF LeaveStart, InGroup, IInv, GroupInv
    <3>2. record \in Records /\ record.id # None
      BY <3>1, SetMachineType
    <3>3. StateOf(record) \in States
      <4> HIDE DEF record
      <4> QED BY <3>2, StateOfType
    <3>4. \A n \in Machines : Sync(m, n, StateOf(record), FALSE) \in SyncRequests
      BY <3>1, <3>3, SyncType
    <3>5. PICK told \in SUBSET (MemberMachines(group[m]) \ {m}) :
            net' = net \union {Sync(m, n, StateOf(record), FALSE) : n \in told}
      BY <2>3 DEF LeaveStart
    <3>6. told \subseteq Machines
      BY DEF MemberMachines
    <3> HIDE DEF record
    <3> QED BY <3>4, <3>5, <3>6 DEF IInv
  <2>4. CASE UNCHANGED net
    BY <2>4 DEF IInv
  <2> QED BY <1>1, <2>1, <2>2, <2>3, <2>4
       DEF OwnerStep, Mint, SetAccepting, Revoke, MoveMember, RemoveMembers, Create,
           AdmitDeclined
<1>2. ASSUME NEW m \in Machines, NEW d \in Devices, DeviceStep(m, d)
      PROVE  NetType'
  BY <1>2 DEF DeviceStep, Pair, PairSpace, Connect, Hello, Disconnect, IInv
<1>3. ASSUME NEW m \in Machines, MachineStep(m)
      PROVE  NetType'
  <2>1. CASE JoinTimeout(m)
    BY <2>1, AbandonedType DEF JoinTimeout, IInv
  <2>2. CASE Restart(m)
    BY <2>2, AbandonedType DEF Restart, IInv
  <2>3. CASE \E n \in Machines : SyncStart(m, n)
    <3>1. PICK n \in Machines : SyncStart(m, n)
      BY <2>3
    <3>2. group[m] \in Records
      BY DEF IInv, GroupInv
    <3>3. group[m].id # None
      BY <3>1 DEF SyncStart, MemberMachines, IInv, GroupInv, NoGroupIsEmpty, InGroup,
                  NoGroup, NoEntry
    <3>4. Sync(m, n, StateOf(group[m]), TRUE) \in SyncRequests
      BY <3>2, <3>3, StateOfType, SyncType
    <3> QED BY <3>1, <3>4 DEF SyncStart, IInv
  <2>4. CASE UNCHANGED net
    BY <2>4 DEF IInv
  <2> QED BY <1>3, <2>1, <2>2, <2>3, <2>4
       DEF MachineStep, LoseInvitation, LeaveFinish, LeaveFails, RefreshThisMachine
<1>4. ASSUME NEW msg \in net, MessageStep(msg)
      PROVE  NetType'
  <2>1. msg.from \in Machines /\ msg.to \in Machines
    BY MessageTypes DEF IInv
  <2>2. group[msg.to] \in Records /\ group'[msg.to] \in Records
    BY <2>1 DEF IInv, GroupInv
  <2>3. CASE AcceptJoin(msg)
    <3>1. msg.group \in Groups /\ group[msg.to].id = msg.group
      BY SMTT(60), <2>3, MessageTypes DEF AcceptJoin, JoinRequests, IInv
    <3>2. group'[msg.to].id = group[msg.to].id
      BY ZenonT(60), <2>1, <2>2, <2>3 DEF AcceptJoin, Commit, SetDevices, SetMachine, Records,
                              IInv, GroupInv
    <3>3. Answer("joined", msg.to, msg.from, StateOf(group'[msg.to])) \in Answers
      BY <2>1, <2>2, <3>1, <3>2, GroupsAssumption, StateOfType, AnswerType
    <3> QED BY <2>3, <3>3 DEF AcceptJoin, IInv
  <2>4. CASE AcceptSync(msg)
    <3> DEFINE ownEntry == [id       |-> group[msg.to].id,
                            machines |-> [NoGroup.machines EXCEPT
                                            ![msg.from] = group[msg.to].machines[msg.from]],
                            devices  |-> NoGroup.devices]
    <3>1. msg.state.id \in Groups /\ group[msg.to].id = msg.state.id
      BY <2>4, MessageTypes DEF AcceptSync, SyncRequests, States, IInv
    <3>2. ownEntry \in States
      BY <2>1, <2>2, <3>1, NoEntryIsEntry DEF NoGroup, Records, States
    <3>3. Answer("synced", msg.to, msg.from, ownEntry) \in Answers
      <4> HIDE DEF ownEntry
      <4> QED BY <2>1, <3>2, AnswerType
    <3>4. CASE net' \subseteq (net \ {msg})
                        \union {Answer("synced", msg.to, msg.from, ownEntry)}
      BY <3>3, <3>4 DEF IInv
    <3>5. CASE net' = net \ {msg}
      BY <3>5 DEF IInv
    <3>6. CASE /\ group'[msg.to].id # None
               /\ net' = (net \ {msg}) \union
                    {Answer("synced", msg.to, msg.from, StateOf(group'[msg.to]))}
      BY <2>1, <2>2, <3>6, StateOfType, AnswerType DEF IInv
    <3>7. \/ net' \subseteq (net \ {msg})
                  \union {Answer("synced", msg.to, msg.from, ownEntry)}
          \/ net' = net \ {msg}
          \/ /\ group'[msg.to].id # None
             /\ net' = (net \ {msg}) \union
                  {Answer("synced", msg.to, msg.from, StateOf(group'[msg.to]))}
      BY <2>4 DEF AcceptSync
    <3> QED BY <3>4, <3>5, <3>6, <3>7
  <2>5. CASE net' = net \ {msg}
    BY <2>5 DEF IInv
  <2> QED BY <1>4, <2>3, <2>4, <2>5 DEF MessageStep, JoinFinish, AbsorbAnswer, Lose
<1>5. CASE UNCHANGED vars
  BY <1>5 DEF vars, IInv
<1> QED BY <1>1, <1>2, <1>3, <1>4, <1>5 DEF Next

-------------------------------------------------------------------------------
(* Theorems *)

\* The inductive invariant holds throughout.
THEOREM Invariance == Spec => []IInv
<1>1. IInv /\ [Next]_vars => IInv'
  BY NextKeepsGroupInv, NextKeepsPlainTypes, NextKeepsNetType DEF IInv
<1> QED BY InitInv, <1>1, PTL DEF Spec

\* Every variable has its type.
THEOREM TypesHold == Spec => []TypeOK
<1>1. IInv => TypeOK
  BY DEF IInv, GroupInv, PlainTypes, NetType, TypeOK
<1> QED BY Invariance, <1>1, PTL

\* No live connection outlives the access it was opened with.
THEOREM LiveConnectionsAreAdmitted == Spec => []LiveIsAdmitted
<1>1. IInv => LiveIsAdmitted
  BY DEF IInv, GroupInv
<1> QED BY Invariance, <1>1, PTL

\* A device the group removed has no full access where the removal is known.
THEOREM RemovedDevicesAreRefused == Spec => []RemovedIsRefused
<1>1. IInv => RemovedIsRefused
  BY DEF IInv, GroupInv
<1> QED BY Invariance, <1>1, PTL

\* A machine that keeps a group is a member of it in its own record.
THEOREM MachinesKnowThemselves == Spec => []KnowsItself
<1>1. IInv => KnowsItself
  BY DEF IInv, GroupInv
<1> QED BY Invariance, <1>1, PTL

\* A declined device waits, without full access, on the entry that was declined.
THEOREM DeclinedDevicesArePending == Spec => []DeclinedIsPending
<1>1. IInv => DeclinedIsPending
  BY DEF IInv, GroupInv
<1> QED BY Invariance, <1>1, PTL

-------------------------------------------------------------------------------
(* What a step may not do *)

RisesTo(old, new) ==
  /\ \A n \in Machines : \/ new.machines[n] = old.machines[n]
                        \/ Outranks(new.machines[n], old.machines[n])
  /\ \A d \in Devices : \/ new.devices[d] = old.devices[d]
                       \/ Outranks(new.devices[d], old.devices[d])

Rises == \A m \in Machines :
           InGroup(m) /\ group'[m].id = group[m].id => RisesTo(group[m], group'[m])

LEMMA CommitRises ==
  ASSUME GroupInv, NEW m \in Machines, NEW record \in Records, NEW list,
         Commit(m, record, list),
         InGroup(m) /\ record.id = group[m].id => RisesTo(group[m], record)
  PROVE  Rises
<1>1. group' = [group EXCEPT ![m] =
                  [record EXCEPT !.declined = AppliedDeclined(m, record, list)]]
  BY DEF Commit
<1>2. /\ group'[m].id = record.id /\ group'[m].machines = record.machines
      /\ group'[m].devices = record.devices
  BY <1>1 DEF GroupInv, Records
<1>3. \A n \in Machines \ {m} : group'[n] = group[n]
  BY <1>1 DEF GroupInv
<1> QED BY <1>2, <1>3 DEF Rises, RisesTo

LEMMA StutterRises == UNCHANGED group => Rises
BY DEF Rises, RisesTo

LEMMA SetMachineRises ==
  ASSUME NEW record \in Records, NEW n \in Machines, NEW by \in Machines,
         NEW member \in BOOLEAN
  PROVE  RisesTo(record, SetMachine(record, n, member, by))
<1>1. record.machines[n] \in Entries
  BY DEF Records
<1>2. Outranks(NextEntry(record.machines[n], member, by), record.machines[n])
  BY <1>1, NextEntryOutranks
<1> QED BY <1>2 DEF SetMachine, RisesTo, Records

LEMMA SetDevicesRises ==
  ASSUME NEW record \in Records, NEW ds \in SUBSET Devices, NEW by \in Machines,
         NEW member \in BOOLEAN
  PROVE  RisesTo(record, SetDevices(record, ds, member, by))
<1>1. \A d \in Devices : Outranks(NextEntry(record.devices[d], member, by), record.devices[d])
  BY NextEntryOutranks DEF Records
<1> QED BY <1>1 DEF SetDevices, RisesTo, Records

LEMMA SetDeviceRises ==
  ASSUME NEW record \in Records, NEW d \in Devices, NEW by \in Machines,
         NEW member \in BOOLEAN
  PROVE  RisesTo(record, SetDevice(record, d, member, by))
<1>1. Outranks(NextEntry(record.devices[d], member, by), record.devices[d])
  BY NextEntryOutranks DEF Records
<1> QED BY <1>1 DEF SetDevice, RisesTo, Records

LEMMA AbsorbRises ==
  ASSUME GroupInv, NEW m \in Machines, NEW state \in States, Absorb(m, state)
  PROVE  Rises
<1>1. group[m] \in Records
  BY DEF GroupInv
<1>2. CASE UNCHANGED group
  BY <1>2, StutterRises
<1>3. CASE Commit(m, NoGroup, allow[m])
  BY <1>3, NoGroupIsRecord, CommitRises DEF InGroup, NoGroup
<1>4. CASE \E merged \in Merge(group[m], state) : Commit(m, merged, allow[m])
  <2>1. PICK merged \in Merge(group[m], state) : Commit(m, merged, allow[m])
    BY <1>4
  <2>2. merged \in Records
    BY <1>1, <2>1, MergeType
  <2>3. RisesTo(group[m], merged)
    BY <1>1, <2>1, MergeType DEF RisesTo
  <2> QED BY <2>1, <2>2, <2>3, CommitRises
<1> QED BY <1>2, <1>3, <1>4 DEF Absorb

LEMMA OwnerStepRises ==
  ASSUME IInv, NEW m \in Machines, OwnerStep(m)
  PROVE  Rises
<1>1. group[m] \in Records
  BY DEF IInv, GroupInv
<1>2. CASE UNCHANGED group
  BY <1>2, StutterRises
<1>3. ASSUME NEW d \in Devices, Commit(m, SetDevice(group[m], d, FALSE, m), allow[m])
      PROVE  Rises
  BY <1>1, <1>3, SetDeviceType, SetDeviceRises, CommitRises DEF IInv
<1>4. ASSUME NEW n \in Machines, Commit(m, SetMachine(group[m], n, FALSE, m), allow[m])
      PROVE  Rises
  BY <1>1, <1>4, SetMachineType, SetMachineRises, CommitRises DEF IInv
<1>5. ASSUME NEW g \in Groups, Create(m, g)
      PROVE  Rises
  <2>1. ~InGroup(m) /\ \A n \in Machines \ {m} : group'[n] = group[n]
    BY <1>5 DEF Create, Commit, IInv, GroupInv
  <2> QED BY <2>1 DEF Rises, RisesTo
<1>6. ASSUME NEW d \in Devices, AdmitDeclined(m, d)
      PROVE  Rises
  <2> DEFINE record == [group[m] EXCEPT !.declined[d] = 0]
  <2>1. Commit(m, record, [allow[m] EXCEPT ![d] = PairedAccess(@)])
    BY <1>6 DEF AdmitDeclined
  <2>2. record \in Records /\ RisesTo(group[m], record)
    BY <1>1 DEF Records, RisesTo
  <2> QED BY <2>1, <2>2, CommitRises DEF IInv
<1> QED BY ZenonT(60), <1>2, <1>3, <1>4, <1>5, <1>6
     DEF OwnerStep, Mint, SetAccepting, Revoke, MoveMember, RemoveMembers,
         RemoveMachine, JoinStart, LeaveStart, OwnerStep

LEMMA NextRises == IInv /\ [Next]_vars => Rises
<1> SUFFICES ASSUME IInv, [Next]_vars PROVE Rises
  OBVIOUS
<1>1. ASSUME NEW m \in Owners, OwnerStep(m)
      PROVE  Rises
  BY <1>1, BoundsAssumption, OwnerStepRises
<1>2. ASSUME NEW m \in Machines, NEW d \in Devices, DeviceStep(m, d)
      PROVE  Rises
  <2>1. group[m] \in Records
    BY DEF IInv, GroupInv
  <2>2. CASE Pair(m, d)
    <3> DEFINE list == [allow[m] EXCEPT ![d] = PairedAccess(@)]
    <3>1. \/ Commit(m, SetDevice(group[m], d, TRUE, m), list)
          \/ Commit(m, group[m], list)
      BY <2>2 DEF Pair
    <3> HIDE DEF list
    <3>2. CASE Commit(m, SetDevice(group[m], d, TRUE, m), list)
      BY <2>1, <3>2, SetDeviceType, SetDeviceRises, CommitRises DEF IInv
    <3>3. CASE Commit(m, group[m], list)
      <4>1. RisesTo(group[m], group[m])
        BY DEF RisesTo
      <4> QED BY <2>1, <3>3, <4>1, CommitRises DEF IInv
    <3> QED BY <3>1, <3>2, <3>3
  <2>3. CASE UNCHANGED group
    BY <2>3, StutterRises
  <2> QED BY <1>2, <2>2, <2>3 DEF DeviceStep, PairSpace, Connect, Hello, Disconnect
<1>3. ASSUME NEW m \in Machines, MachineStep(m)
      PROVE  Rises
  <2>1. group[m] \in Records
    BY DEF IInv, GroupInv
  <2>2. CASE LeaveFinish(m)
    BY <2>2, NoGroupIsRecord, CommitRises DEF LeaveFinish, InGroup, NoGroup, IInv
  <2>3. CASE RefreshThisMachine(m)
    <3>1. Commit(m, SetMachine(group[m], m, TRUE, m), allow[m])
      BY <2>3 DEF RefreshThisMachine
    <3> QED BY <2>1, <3>1, SetMachineType, SetMachineRises, CommitRises DEF IInv
  <2>4. CASE UNCHANGED group
    BY <2>4, StutterRises
  <2> QED BY <1>3, <2>2, <2>3, <2>4
       DEF MachineStep, LoseInvitation, JoinTimeout, LeaveFails, SyncStart, Restart
<1>4. ASSUME NEW msg \in net, MessageStep(msg)
      PROVE  Rises
  <2>1. /\ msg.from \in Machines /\ msg.to \in Machines /\ group[msg.to] \in Records
        /\ msg.kind = "sync" => msg.state \in States
        /\ msg.kind \in {"synced", "joined"} => msg.state \in States
    BY MessageTypes DEF SyncRequests, Answers, IInv, GroupInv
  <2>2. CASE AcceptJoin(msg)
    <3> DEFINE m == msg.to
               joined == SetMachine(group[m], msg.from, TRUE, m)
               brought == {d \in msg.devices : ~Listed(group[m].devices[d])}
               record == SetDevices(joined, brought, TRUE, m)
    <3>1. Commit(m, record, allow[m])
      BY <2>2 DEF AcceptJoin
    <3>2. brought \in SUBSET Devices
      BY <2>2, MessageTypes DEF AcceptJoin, JoinRequests, IInv
    <3>3. joined \in Records /\ RisesTo(group[m], joined)
      BY <2>1, SetMachineType, SetMachineRises
    <3>4. joined.devices = group[m].devices
      BY <2>1, SetMachineType
    <3> HIDE DEF joined, brought
    <3>5. record \in Records /\ RisesTo(joined, record)
      BY <2>1, <3>2, <3>3, SetDevicesType, SetDevicesRises
    <3>6. record.machines = joined.machines
      BY <2>1, <3>2, <3>3, SetDevicesType
    <3>7. RisesTo(group[m], record)
      BY <3>3, <3>4, <3>5, <3>6 DEF RisesTo
    <3> HIDE DEF record, m
    <3> QED BY <2>1, <3>1, <3>5, <3>7, CommitRises DEF IInv, m
  <2>3. CASE JoinFinish(msg)
    <3>1. CASE UNCHANGED group
      BY <3>1, StutterRises
    <3>2. CASE ~UNCHANGED group
      <4>1. ~InGroup(msg.to)
        BY <2>3, <3>2 DEF JoinFinish
      <4>2. \A n \in Machines \ {msg.to} : group'[n] = group[n]
        BY <2>3, <3>2 DEF JoinFinish, Commit, IInv, GroupInv
      <4> QED BY <4>1, <4>2 DEF Rises, RisesTo
    <3> QED BY <3>1, <3>2
  <2>4. CASE AcceptSync(msg)
    <3>1. UNCHANGED group \/ Absorb(msg.to, msg.state)
      BY <2>4 DEF AcceptSync
    <3> QED BY <2>1, <2>4, <3>1, StutterRises, AbsorbRises DEF AcceptSync, IInv
  <2>5. CASE AbsorbAnswer(msg)
    BY <2>1, <2>5, AbsorbRises DEF AbsorbAnswer, IInv
  <2>6. CASE Lose(msg)
    BY <2>6, StutterRises DEF Lose
  <2> QED BY <1>4, <2>2, <2>3, <2>4, <2>5, <2>6 DEF MessageStep
<1>5. CASE UNCHANGED vars
  BY <1>5, StutterRises DEF vars
<1> QED BY <1>1, <1>2, <1>3, <1>4, <1>5 DEF Next

\* While a machine stays in a group, no step replaces an entry by one that does
\* not outrank it.
THEOREM EntriesNeverFallBack == Spec => EntriesOnlyRise
<1>1. IInv /\ [Next]_vars => [Rises]_vars
  BY NextRises
<1>2. Rises => \A m \in Machines :
        InGroup(m) /\ group'[m].id = group[m].id =>
          /\ \A n \in Machines :
               \/ group'[m].machines[n] = group[m].machines[n]
               \/ Outranks(group'[m].machines[n], group[m].machines[n])
          /\ \A d \in Devices :
               \/ group'[m].devices[d] = group[m].devices[d]
               \/ Outranks(group'[m].devices[d], group[m].devices[d])
  BY DEF Rises, RisesTo
<1> QED BY Invariance, <1>1, <1>2, PTL DEF Spec, EntriesOnlyRise

SpacesStay == \A m \in Machines, d \in Devices :
                allow[m][d] = "space" => allow'[m][d] # "full"

LEMMA CommitKeepsSpaces ==
  ASSUME GroupInv, NEW m \in Machines, NEW record, NEW list, Commit(m, record, list),
         \A d \in Devices : allow[m][d] = "space" => list[d] = "space"
  PROVE  SpacesStay
<1>1. allow' = [allow EXCEPT ![m] = AppliedList(m, record, list)]
  BY DEF Commit
<1>2. ASSUME NEW d \in Devices, allow[m][d] = "space"
      PROVE  AppliedList(m, record, list)[d] # "full"
  BY <1>2 DEF AppliedList, Unlisted
<1> QED BY <1>1, <1>2 DEF SpacesStay, GroupInv, Lists

LEMMA PairedSpaceStays ==
  ASSUME GroupInv, NEW m \in Machines, NEW d \in Devices
  PROVE  \A e \in Devices : allow[m][e] = "space" =>
           [allow[m] EXCEPT ![d] = PairedAccess(@)][e] = "space"
BY DEF GroupInv, Lists, PairedAccess

LEMMA AbsorbKeepsSpaces ==
  ASSUME GroupInv, NEW m \in Machines, NEW state, Absorb(m, state)
  PROVE  SpacesStay
<1>1. CASE UNCHANGED allow
  BY <1>1 DEF SpacesStay
<1>2. CASE \E record : Commit(m, record, allow[m])
  BY <1>2, CommitKeepsSpaces
<1> QED BY <1>1, <1>2 DEF Absorb

LEMMA NextKeepsSpaces == IInv /\ [Next]_vars => SpacesStay
<1> SUFFICES ASSUME IInv, [Next]_vars PROVE SpacesStay
  OBVIOUS
<1>1. CASE UNCHANGED allow
  BY <1>1 DEF SpacesStay
<1>2. ASSUME NEW m \in Machines, NEW record, Commit(m, record, allow[m])
      PROVE  SpacesStay
  BY <1>2, CommitKeepsSpaces DEF IInv
<1>3. ASSUME NEW m \in Machines, NEW d \in Devices, NEW record,
             Commit(m, record, [allow[m] EXCEPT ![d] = PairedAccess(@)])
      PROVE  SpacesStay
  <2> DEFINE list == [allow[m] EXCEPT ![d] = PairedAccess(@)]
  <2>1. \A e \in Devices : allow[m][e] = "space" => list[e] = "space"
    BY PairedSpaceStays DEF IInv
  <2>2. Commit(m, record, list)
    BY <1>3
  <2> HIDE DEF list
  <2> QED BY <2>1, <2>2, CommitKeepsSpaces DEF IInv
<1>4. ASSUME NEW m \in Owners, OwnerStep(m)
      PROVE  SpacesStay
  <2>1. m \in Machines
    BY BoundsAssumption
  <2>2. ASSUME NEW d \in Devices, Revoke(m, d)
        PROVE  SpacesStay
    <3>1. CASE Commit(m, SetDevice(group[m], d, FALSE, m), allow[m])
      BY <1>2, <2>1, <3>1
    <3>2. CASE allow' = [allow EXCEPT ![m][d] = "none"]
      BY <3>2 DEF SpacesStay, IInv, GroupInv, Lists
    <3> QED BY <2>2, <3>1, <3>2 DEF Revoke
  <2>3. CASE \E d \in Devices : MoveMember(m, d)
    BY <2>3 DEF MoveMember, SpacesStay, IInv, GroupInv, Lists
  <2>4. CASE \E ds \in SUBSET Devices : RemoveMembers(m, ds)
    BY <2>4 DEF RemoveMembers, SpacesStay, IInv, GroupInv, Lists
  <2>5. CASE \E d \in Devices : AdmitDeclined(m, d)
    BY <1>3, <2>1, <2>5 DEF AdmitDeclined
  <2>6. CASE \E record : Commit(m, record, allow[m])
    BY <1>2, <2>1, <2>6
  <2> QED BY <1>1, <1>4, <2>2, <2>3, <2>4, <2>5, <2>6
       DEF OwnerStep, Mint, SetAccepting, Create, RemoveMachine, JoinStart, LeaveStart
<1>5. ASSUME NEW m \in Machines, NEW d \in Devices, DeviceStep(m, d)
      PROVE  SpacesStay
  <2>1. CASE Pair(m, d)
    BY <1>3, <2>1 DEF Pair
  <2>2. CASE PairSpace(m, d)
    BY <2>2 DEF PairSpace, SpacesStay, IInv, GroupInv, Lists
  <2> QED BY <1>1, <1>5, <2>1, <2>2 DEF DeviceStep, Connect, Hello, Disconnect
<1>6. ASSUME NEW m \in Machines, MachineStep(m)
      PROVE  SpacesStay
  <2>1. CASE \E record : Commit(m, record, allow[m])
    BY <1>2, <2>1
  <2> QED BY <1>1, <1>6, <2>1
       DEF MachineStep, LoseInvitation, JoinTimeout, LeaveFinish, LeaveFails,
           RefreshThisMachine, SyncStart, Restart
<1>7. ASSUME NEW msg \in net, MessageStep(msg)
      PROVE  SpacesStay
  <2>1. msg.to \in Machines
    BY MessageTypes DEF IInv
  <2>2. CASE \E record : Commit(msg.to, record, allow[msg.to])
    BY <1>2, <2>1, <2>2
  <2>3. CASE Absorb(msg.to, msg.state)
    BY <2>1, <2>3, AbsorbKeepsSpaces DEF IInv
  <2> QED BY ZenonT(60), <1>1, <1>7, <2>2, <2>3
       DEF MessageStep, AcceptJoin, JoinFinish, AcceptSync, AbsorbAnswer, Lose
<1>8. CASE UNCHANGED vars
  BY <1>1, <1>8 DEF vars
<1> QED BY <1>4, <1>5, <1>6, <1>7, <1>8 DEF Next

\* No step turns the access of a space member into full access.
THEOREM SpaceMembersStayInSpaces == Spec => SpaceIsKept
<1>1. SpacesStay => \A m \in Machines, d \in Devices :
                      allow[m][d] = "space" => allow'[m][d] # "full"
  BY DEF SpacesStay
<1> QED BY Invariance, NextKeepsSpaces, <1>1, PTL DEF Spec, SpaceIsKept

-------------------------------------------------------------------------------
(* One way in, and the switch *)

\* What the two properties say of a step.
OneWay ==
  \A m \in Machines :
    /\ \A n \in Machines \ {m} :
         group'[m].machines[n].member /\ group'[m].machines[n] \notin KnownMachine(n)
           => Spends(m)
    /\ \A d \in Devices :
         group'[m].devices[d].member /\ group'[m].devices[d] \notin KnownDevice(d)
           => Spends(m) \/ ~InGroup(m)

SwitchGoverns ==
  \A m \in Machines, d \in Devices :
    allow[m][d] = "none" /\ allow'[m][d] = "full" =>
      \/ AdmitDeclined(m, d)
      \/ /\ accepting[m]
         /\ \/ group[m].declined[d] = 0
            \/ group'[m].devices[d].counter # group[m].declined[d]

Admits == OneWay /\ SwitchGoverns

\* The members of a record that somebody has heard of.
Known(m, record) ==
  /\ \A n \in Machines \ {m} :
       record.machines[n].member => record.machines[n] \in KnownMachine(n)
  /\ \A d \in Devices :
       InGroup(m) /\ record.devices[d].member => record.devices[d] \in KnownDevice(d)

\* What m puts on its list: a device the group lists unless it is still declined,
\* the device that pairs and the device the owner admits.
Governed(m, record, list) ==
  \A d \in Devices :
    \/ /\ list[d] = allow[m][d]
       /\ \/ ~record.devices[d].member
          \/ group[m].declined[d] = 0
          \/ record.declined[d] = group[m].declined[d]
    \/ /\ accepting[m]
       /\ \/ group[m].declined[d] = 0
          \/ record.devices[d].counter # group[m].declined[d]
    \/ AdmitDeclined(m, d)

LEMMA CommitAdmits ==
  ASSUME GroupInv, NEW m \in Machines, NEW record \in Records, NEW list \in Lists,
         Commit(m, record, list),
         Spends(m) \/ Known(m, record),
         Governed(m, record, list)
  PROVE  Admits
<1>1. /\ group' = [group EXCEPT ![m] =
                     [record EXCEPT !.declined = AppliedDeclined(m, record, list)]]
      /\ allow' = [allow EXCEPT ![m] = AppliedList(m, record, list)]
  BY DEF Commit
<1>2. /\ group'[m].machines = record.machines /\ group'[m].devices = record.devices
      /\ allow'[m] = AppliedList(m, record, list)
  BY <1>1 DEF GroupInv, Records
<1>3. \A n \in Machines \ {m} : group'[n] = group[n] /\ allow'[n] = allow[n]
  BY <1>1 DEF GroupInv
<1>4. OneWay
  <2>1. \A n \in Machines : /\ \A k \in Machines : group[n].machines[k] \in KnownMachine(k)
                            /\ \A d \in Devices : group[n].devices[d] \in KnownDevice(d)
    BY DEF KnownMachine, KnownDevice
  <2> QED BY <1>2, <1>3, <2>1 DEF OneWay, Known
<1>5. SwitchGoverns
  <2>1. ASSUME NEW d \in Devices, allow[m][d] = "none", AppliedList(m, record, list)[d] = "full",
               ~AdmitDeclined(m, d)
        PROVE  /\ accepting[m]
               /\ \/ group[m].declined[d] = 0
                  \/ record.devices[d].counter # group[m].declined[d]
    <3>1. CASE list[d] = allow[m][d]
      <4>1. /\ accepting[m] /\ record.devices[d].member
            /\ record.declined[d] # record.devices[d].counter
        BY <2>1, <3>1 DEF AppliedList, Unlisted
      <4> QED BY <2>1, <4>1 DEF Governed
    <3>2. CASE list[d] # allow[m][d]
      BY <2>1, <3>2 DEF Governed
    <3> QED BY <3>1, <3>2
  <2>2. \A n \in Machines \ {m}, d \in Devices : allow'[n][d] = allow[n][d]
    BY <1>3
  <2> QED BY <1>2, <2>1, <2>2 DEF SwitchGoverns
<1> QED BY <1>4, <1>5 DEF Admits

\* A step that leaves the groups alone and gives nobody full access.
LEMMA StutterAdmits ==
  ASSUME UNCHANGED group,
         \A m \in Machines, d \in Devices :
           allow'[m][d] = allow[m][d] \/ allow'[m][d] # "full"
  PROVE  Admits
<1>1. OneWay
  BY DEF OneWay, KnownMachine, KnownDevice
<1>2. SwitchGoverns
  BY DEF SwitchGoverns
<1> QED BY <1>1, <1>2 DEF Admits

LEMMA OwnEntriesAreKnown ==
  ASSUME NEW m \in Machines
  PROVE  /\ \A n \in Machines : group[m].machines[n] \in KnownMachine(n)
         /\ \A d \in Devices : group[m].devices[d] \in KnownDevice(d)
BY DEF KnownMachine, KnownDevice

LEMMA SentEntriesAreKnown ==
  ASSUME NEW msg \in net, msg.kind # "join"
  PROVE  /\ \A n \in Machines : msg.state.machines[n] \in KnownMachine(n)
         /\ \A d \in Devices : msg.state.devices[d] \in KnownDevice(d)
<1>1. msg.state \in Carried
  BY DEF Carried
<1> QED BY <1>1 DEF KnownMachine, KnownDevice

LEMMA GroupTypes ==
  ASSUME IInv, NEW m \in Machines
  PROVE  /\ GroupInv /\ group[m] \in Records /\ allow[m] \in Lists
         /\ ~InGroup(m) => group[m] = NoGroup
BY DEF IInv, GroupInv, NoGroupIsEmpty

LEMMA NobodyIsKnown ==
  ASSUME NEW m \in Machines
  PROVE  Known(m, NoGroup)
BY DEF Known, NoGroup, NoEntry

\* A record of one's own with entries that are no members, or one's own entry, changed.
LEMMA OwnRecordIsKnown ==
  ASSUME NEW m \in Machines, NEW record,
         \A n \in Machines \ {m} :
           record.machines[n] = group[m].machines[n] \/ ~record.machines[n].member,
         \A d \in Devices : record.devices[d] = group[m].devices[d] \/ ~record.devices[d].member
  PROVE  Known(m, record)
BY OwnEntriesAreKnown DEF Known

\* A change of the record alone.
LEMMA RecordChangeAdmits ==
  ASSUME IInv, NEW m \in Machines, NEW record \in Records,
         Commit(m, record, allow[m]),
         Spends(m) \/ Known(m, record),
         record.declined = group[m].declined \/ ~InGroup(m)
  PROVE  Admits
<1>1. GroupInv /\ allow[m] \in Lists
  BY GroupTypes
<1>2. Governed(m, record, allow[m])
  <2>1. CASE record.declined = group[m].declined
    BY <2>1 DEF Governed
  <2>2. CASE ~InGroup(m)
    BY <2>2, GroupTypes DEF Governed, NoGroup
  <2> QED BY <2>1, <2>2
<1> QED BY <1>1, <1>2, CommitAdmits

LEMMA LeavingAdmits ==
  ASSUME IInv, NEW m \in Machines, Commit(m, NoGroup, allow[m])
  PROVE  Admits
<1>1. GroupInv /\ allow[m] \in Lists /\ Known(m, NoGroup)
  BY GroupTypes, NobodyIsKnown
<1>2. Governed(m, NoGroup, allow[m])
  BY DEF Governed, NoGroup, NoEntry
<1> QED BY <1>1, <1>2, NoGroupIsRecord, CommitAdmits

LEMMA RemovalIsNoMember ==
  ASSUME NEW e, NEW m
  PROVE  ~NextEntry(e, FALSE, m).member
BY DEF NextEntry

LEMMA NewEntryIsNewer ==
  ASSUME NEW record \in Records, NEW d \in Devices, NEW m \in Machines
  PROVE  SetDevice(record, d, TRUE, m).devices[d].counter # record.devices[d].counter
<1>1. record.devices[d] \in Entries
  BY DEF Records
<1>2. record.devices[d].counter \in Nat
  BY <1>1, EntryTypes
<1>3. record.devices[d].counter + 1 # record.devices[d].counter
  BY <1>2
<1>4. SetDevice(record, d, TRUE, m).devices[d] = NextEntry(record.devices[d], TRUE, m)
  BY SetDeviceType
<1>5. NextEntry(record.devices[d], TRUE, m).counter = record.devices[d].counter + 1
  BY DEF NextEntry
<1> QED BY <1>3, <1>4, <1>5

LEMMA RevokeAdmits ==
  ASSUME IInv, NEW m \in Machines, NEW d \in Devices, Revoke(m, d)
  PROVE  Admits
<1>1. group[m] \in Records
  BY GroupTypes
<1>2. CASE Commit(m, SetDevice(group[m], d, FALSE, m), allow[m])
  <2>1. /\ SetDevice(group[m], d, FALSE, m) \in Records
        /\ SetDevice(group[m], d, FALSE, m).declined = group[m].declined
        /\ SetDevice(group[m], d, FALSE, m).machines = group[m].machines
        /\ SetDevice(group[m], d, FALSE, m).devices[d]
             = NextEntry(group[m].devices[d], FALSE, m)
        /\ \A e \in Devices \ {d} :
             SetDevice(group[m], d, FALSE, m).devices[e] = group[m].devices[e]
    BY ZenonT(60), <1>1, SetDeviceType
  <2>2. Known(m, SetDevice(group[m], d, FALSE, m))
    <3>1. ~SetDevice(group[m], d, FALSE, m).devices[d].member
      BY <2>1, RemovalIsNoMember
    <3> QED BY <2>1, <3>1, OwnEntriesAreKnown DEF Known
  <2> QED BY <1>2, <2>1, <2>2, RecordChangeAdmits
<1>3. CASE UNCHANGED group /\ allow' = [allow EXCEPT ![m][d] = "none"]
  BY <1>3, StutterAdmits DEF IInv, GroupInv, Lists
<1> QED BY <1>2, <1>3 DEF Revoke

LEMMA CreateAdmits ==
  ASSUME IInv, NEW m \in Machines, NEW g \in Groups, Create(m, g)
  PROVE  Admits
<1> DEFINE named == [NoGroup EXCEPT !.id = g]
           founded == SetMachine(named, m, TRUE, m)
           full == FullDevices(m)
           local == LocalDevices(m)
           listed == SetDevices(founded, full, TRUE, m)
           record == SetDevices(listed, local, TRUE, m)
<1>1. Commit(m, record, allow[m]) /\ ~InGroup(m)
  BY DEF Create
<1>2. named \in Records /\ \A n \in Machines : ~named.machines[n].member
  BY NoGroupIsRecord DEF Records, NoGroup, NoEntry
<1>3. full \in SUBSET Devices /\ local \in SUBSET Devices
  BY LocalAssumption DEF FullDevices, LocalDevices
<1> HIDE DEF named, full, local
<1>4. founded \in Records /\ \A n \in Machines \ {m} : ~founded.machines[n].member
  <2>1. founded \in Records
    BY <1>2, SetMachineType
  <2>2. \A n \in Machines \ {m} : founded.machines[n] = named.machines[n]
    BY ZenonT(60), <1>2, SetMachineOthers
  <2> HIDE DEF founded
  <2> QED BY <1>2, <2>1, <2>2
<1> HIDE DEF founded
<1>5. listed \in Records /\ listed.machines = founded.machines
  BY <1>3, <1>4, SetDevicesType
<1> HIDE DEF listed
<1>6. record \in Records /\ record.machines = listed.machines
  BY <1>3, <1>5, SetDevicesType
<1> HIDE DEF record
<1>7. Known(m, record)
  BY <1>1, <1>4, <1>5, <1>6 DEF Known
<1> QED BY <1>1, <1>6, <1>7, RecordChangeAdmits

\* One's own record with one machine's entry replaced: by a removal, or one's own.
LEMMA SetMachineAdmitsNobody ==
  ASSUME IInv, NEW m \in Machines, NEW n \in Machines, NEW member \in BOOLEAN,
         n = m \/ ~member,
         Commit(m, SetMachine(group[m], n, member, m), allow[m])
  PROVE  Admits
<1> DEFINE record == SetMachine(group[m], n, member, m)
<1>1. group[m] \in Records
  BY GroupTypes
<1>2. /\ record \in Records /\ record.devices = group[m].devices
      /\ record.declined = group[m].declined
  BY <1>1, SetMachineType
<1>3. \A k \in Machines \ {n} : record.machines[k] = group[m].machines[k]
  BY <1>1, SetMachineOthers
<1>4. record.machines[n].member = member
  BY <1>1 DEF SetMachine, NextEntry, Records
<1> HIDE DEF record
<1>5. Known(m, record)
  BY <1>2, <1>3, <1>4, OwnEntriesAreKnown DEF Known
<1>6. Commit(m, record, allow[m])
  BY DEF record
<1> QED BY <1>2, <1>5, <1>6, RecordChangeAdmits

LEMMA AdmitDeclinedAdmits ==
  ASSUME IInv, NEW m \in Machines, NEW d \in Devices, AdmitDeclined(m, d)
  PROVE  Admits
<1> DEFINE list == [allow[m] EXCEPT ![d] = PairedAccess(@)]
           record == [group[m] EXCEPT !.declined[d] = 0]
<1>1. Commit(m, record, list)
  BY DEF AdmitDeclined
<1>2. GroupInv /\ group[m] \in Records /\ allow[m] \in Lists
  BY GroupTypes
<1>3. /\ record \in Records
      /\ record.machines = group[m].machines /\ record.devices = group[m].devices
      /\ \A e \in Devices \ {d} : record.declined[e] = group[m].declined[e]
  BY <1>2 DEF Records
<1>4. list \in Lists /\ \A e \in Devices \ {d} : list[e] = allow[m][e]
  BY <1>2 DEF PairedAccess, Lists
<1> HIDE DEF list, record
<1>5. Known(m, record)
  BY <1>3, OwnEntriesAreKnown DEF Known
<1>6. Governed(m, record, list)
  BY <1>3, <1>4 DEF Governed
<1> QED BY <1>1, <1>2, <1>3, <1>4, <1>5, <1>6, CommitAdmits

\* A device that pairs spends the invitation, and the entry written for it is newer
\* than one that was declined.
LEMMA PairAdmits ==
  ASSUME IInv, NEW m \in Machines, NEW d \in Devices, Pair(m, d)
  PROVE  Admits
<1> DEFINE list == [allow[m] EXCEPT ![d] = PairedAccess(@)]
           record == IF InGroup(m) /\ list[d] = "full"
                     THEN SetDevice(group[m], d, TRUE, m) ELSE group[m]
<1>1. Commit(m, record, list) /\ accepting[m]
  BY DEF Pair
<1>2. GroupInv /\ group[m] \in Records /\ allow[m] \in Lists
  BY GroupTypes
<1>3. Spends(m)
  BY DEF Pair, TakeInvitation, Spends, IInv, PlainTypes
<1>4. list \in Lists /\ \A e \in Devices \ {d} : list[e] = allow[m][e]
  BY <1>2 DEF PairedAccess, Lists
<1>5. list[d] = allow[m][d] \/ list[d] = "full"
  BY <1>2 DEF PairedAccess, Lists
<1> HIDE DEF list
<1>6. record \in Records /\ record.declined = group[m].declined
  BY <1>2, SetDeviceType
<1>7. ASSUME list[d] = "full", group[m].declined[d] # 0
      PROVE  record.devices[d].counter # group[m].declined[d]
  <2>1. group[m].devices[d].counter = group[m].declined[d]
    BY <1>2, <1>7 DEF GroupInv, DeclinedIsPending
  <2>2. InGroup(m)
    BY <1>7, GroupTypes DEF NoGroup
  <2>3. record = SetDevice(group[m], d, TRUE, m)
    BY <1>7, <2>2
  <2> HIDE DEF record
  <2> QED BY <1>2, <2>1, <2>3, NewEntryIsNewer
<1> HIDE DEF record
<1>8. Governed(m, record, list)
  BY <1>1, <1>4, <1>5, <1>6, <1>7 DEF Governed
<1> QED BY <1>1, <1>2, <1>3, <1>4, <1>6, <1>8, CommitAdmits

LEMMA AcceptJoinAdmits ==
  ASSUME IInv, NEW msg \in net, AcceptJoin(msg)
  PROVE  Admits
<1> DEFINE m == msg.to
           joined == SetMachine(group[m], msg.from, TRUE, m)
           brought == {d \in msg.devices : ~Listed(group[m].devices[d])}
           record == SetDevices(joined, brought, TRUE, m)
<1>1. Commit(m, record, allow[m]) /\ msg.kind = "join" /\ accepting[m]
  BY DEF AcceptJoin
<1>2. m \in Machines /\ msg.from \in Machines /\ msg \in JoinRequests
  BY <1>1, MessageTypes DEF IInv
<1>3. Spends(m)
  BY <1>2 DEF AcceptJoin, TakeInvitation, Spends, IInv, PlainTypes
<1> HIDE DEF m
<1>4. group[m] \in Records
  BY <1>2, GroupTypes
<1>5. brought \in SUBSET Devices
  BY <1>2 DEF JoinRequests
<1> HIDE DEF brought
<1>6. joined \in Records /\ joined.declined = group[m].declined
  BY <1>2, <1>4, SetMachineType
<1> HIDE DEF joined
<1>7. record \in Records /\ record.declined = joined.declined
  BY <1>2, <1>5, <1>6, SetDevicesType
<1> HIDE DEF record
<1> QED BY <1>1, <1>2, <1>3, <1>6, <1>7, RecordChangeAdmits

LEMMA JoinFinishAdmits ==
  ASSUME IInv, NEW msg \in net, JoinFinish(msg)
  PROVE  Admits
<1> DEFINE m == msg.to
           record == [NoGroup EXCEPT !.id = msg.state.id,
                                     !.machines = msg.state.machines,
                                     !.devices = msg.state.devices]
<1>1. m \in Machines /\ msg \in Answers /\ msg.kind = "joined"
  BY MessageTypes DEF IInv, JoinFinish
<1>2. CASE UNCHANGED <<group, allow>>
  BY <1>2, StutterAdmits
<1>3. CASE ~InGroup(m) /\ Commit(m, record, allow[m])
  <2>1. /\ msg.state.id \in Groups /\ msg.state.machines \in [Machines -> Entries]
        /\ msg.state.devices \in [Devices -> Entries]
    BY <1>1 DEF Answers, States
  <2>2. record \in Records /\ record.machines = msg.state.machines
    BY <2>1, NoGroupIsRecord DEF Records, NoGroup
  <2>3. \A n \in Machines : msg.state.machines[n] \in KnownMachine(n)
    BY <1>1, SentEntriesAreKnown
  <2> HIDE DEF record, m
  <2>4. Known(m, record)
    BY <1>3, <2>2, <2>3 DEF Known
  <2> QED BY <1>1, <1>3, <2>2, <2>4, RecordChangeAdmits
<1> QED BY <1>2, <1>3 DEF JoinFinish

\* What merging takes is one's own entry or the sender's.
LEMMA MergedEntries ==
  ASSUME NEW record \in Records, NEW state \in States, NEW merged \in Merge(record, state)
  PROVE  /\ \A n \in Machines : merged.machines[n] \in {record.machines[n], state.machines[n]}
         /\ \A d \in Devices : merged.devices[d] \in {record.devices[d], state.devices[d]}
<1>1. PICK ms \in MergeEntries(record.machines, state.machines, MaxGroupMachines),
           ds \in MergeEntries(record.devices, state.devices, MaxGroupDevices) :
        merged = [record EXCEPT !.machines = ms, !.devices = ds]
  BY DEF Merge
<1>2. /\ record.machines \in [Machines -> Entries] /\ state.machines \in [Machines -> Entries]
      /\ record.devices \in [Devices -> Entries] /\ state.devices \in [Devices -> Entries]
  BY DEF Records, States
<1>3. \A n \in Machines : ms[n] \in {record.machines[n], state.machines[n]}
  BY <1>2, MergeEntriesRises
<1>4. \A d \in Devices : ds[d] \in {record.devices[d], state.devices[d]}
  BY <1>2, MergeEntriesRises
<1> QED BY <1>1, <1>3, <1>4 DEF Records

LEMMA AbsorbAdmits ==
  ASSUME IInv, NEW msg \in net, msg.kind # "join", msg.state \in States,
         Absorb(msg.to, msg.state)
  PROVE  Admits
<1> DEFINE m == msg.to
<1>1. m \in Machines
  BY MessageTypes DEF IInv
<1>2. CASE UNCHANGED <<group, allow>>
  BY <1>2, StutterAdmits
<1>3. CASE Commit(m, NoGroup, allow[m])
  BY <1>1, <1>3, LeavingAdmits
<1>4. ASSUME NEW merged \in Merge(group[m], msg.state), Commit(m, merged, allow[m])
      PROVE  Admits
  <2>1. group[m] \in Records
    BY <1>1, GroupTypes
  <2>2. merged \in Records /\ merged.declined = group[m].declined
    BY <2>1, MergeType
  <2>3. /\ \A n \in Machines :
             merged.machines[n] \in {group[m].machines[n], msg.state.machines[n]}
        /\ \A d \in Devices : merged.devices[d] \in {group[m].devices[d], msg.state.devices[d]}
    BY <2>1, MergedEntries
  <2> HIDE DEF m
  <2>4. Known(m, merged)
    BY <1>1, <2>3, OwnEntriesAreKnown, SentEntriesAreKnown DEF Known
  <2> QED BY <1>1, <1>4, <2>2, <2>4, RecordChangeAdmits
<1> QED BY <1>2, <1>3, <1>4 DEF Absorb

-------------------------------------------------------------------------------
LEMMA NextAdmits == IInv /\ [Next]_vars => Admits
<1> SUFFICES ASSUME IInv, [Next]_vars PROVE Admits
  OBVIOUS
<1>1. CASE UNCHANGED <<group, allow>>
  BY <1>1, StutterAdmits
<1>2. ASSUME NEW m \in Owners, OwnerStep(m)
      PROVE  Admits
  <2>1. m \in Machines
    BY BoundsAssumption
  <2>2. CASE \E d \in Devices : Revoke(m, d)
    BY <2>1, <2>2, RevokeAdmits
  <2>3. CASE \E d \in Devices : MoveMember(m, d)
    BY <2>1, <2>3, StutterAdmits DEF MoveMember, IInv, GroupInv, Lists
  <2>4. CASE \E ds \in SUBSET Devices : RemoveMembers(m, ds)
    BY <2>1, <2>4, StutterAdmits DEF RemoveMembers, IInv, GroupInv, Lists
  <2>5. CASE \E g \in Groups : Create(m, g)
    BY <2>1, <2>5, CreateAdmits
  <2>6. CASE \E n \in Machines : RemoveMachine(m, n)
    BY <2>1, <2>6, SetMachineAdmitsNobody DEF RemoveMachine
  <2>7. CASE \E d \in Devices : AdmitDeclined(m, d)
    BY <2>1, <2>7, AdmitDeclinedAdmits
  <2> QED BY <1>1, <1>2, <2>2, <2>3, <2>4, <2>5, <2>6, <2>7
       DEF OwnerStep, Mint, SetAccepting, JoinStart, LeaveStart
<1>3. ASSUME NEW m \in Machines, NEW d \in Devices, DeviceStep(m, d)
      PROVE  Admits
  <2>1. CASE Pair(m, d)
    BY <2>1, PairAdmits
  <2>2. CASE PairSpace(m, d)
    BY <2>2, StutterAdmits DEF PairSpace, IInv, GroupInv, Lists
  <2> QED BY <1>1, <1>3, <2>1, <2>2 DEF DeviceStep, Connect, Hello, Disconnect
<1>4. ASSUME NEW m \in Machines, MachineStep(m)
      PROVE  Admits
  <2>1. CASE LeaveFinish(m)
    BY <2>1, LeavingAdmits DEF LeaveFinish
  <2>2. CASE RefreshThisMachine(m)
    BY <2>2, SetMachineAdmitsNobody DEF RefreshThisMachine
  <2> QED BY <1>1, <1>4, <2>1, <2>2
       DEF MachineStep, LoseInvitation, JoinTimeout, LeaveFails, SyncStart, Restart
<1>5. ASSUME NEW msg \in net, MessageStep(msg)
      PROVE  Admits
  <2>1. /\ msg.kind = "sync" => msg.state \in States
        /\ msg.kind = "synced" => msg.state \in States
    BY MessageTypes DEF SyncRequests, Answers, IInv
  <2>2. CASE AcceptJoin(msg)
    BY <2>2, AcceptJoinAdmits
  <2>3. CASE JoinFinish(msg)
    BY <2>3, JoinFinishAdmits
  <2>4. CASE Absorb(msg.to, msg.state) /\ msg.kind \in {"sync", "synced"}
    BY <2>1, <2>4, AbsorbAdmits
  <2> QED BY <1>1, <1>5, <2>2, <2>3, <2>4
       DEF MessageStep, AcceptSync, AbsorbAnswer, Lose
<1> QED BY <1>1, <1>2, <1>3, <1>4, <1>5 DEF Next, vars

-------------------------------------------------------------------------------
(* Theorems *)

\* A group has one way in: a member entry that no machine holds and no message
\* carries is written by a machine about itself, by the one that creates the group,
\* or by one that spends its live invitation in that step (Shared::take_invitation).
THEOREM GroupHasOneWayIn == Spec => OneWayIn
<1>1. Admits =>
        \A m \in Machines :
          /\ \A n \in Machines \ {m} :
               group'[m].machines[n].member /\ group'[m].machines[n] \notin KnownMachine(n)
                 => Spends(m)
          /\ \A d \in Devices :
               group'[m].devices[d].member /\ group'[m].devices[d] \notin KnownDevice(d)
                 => Spends(m) \/ ~InGroup(m)
  BY DEF Admits, OneWay
<1> QED BY Invariance, NextAdmits, <1>1, PTL DEF Spec, OneWayIn

\* The switch "Accept new devices" governs what the group admits: a device gets full
\* access while it is on, and not on the strength of an entry that was declined,
\* unless the owner admits it (HostIdentity::apply_group).
THEOREM SwitchGovernsTheGroup == Spec => SwitchGovernsAdmission
<1>1. Admits =>
        \A m \in Machines, d \in Devices :
          allow[m][d] = "none" /\ allow'[m][d] = "full" =>
            \/ AdmitDeclined(m, d)
            \/ /\ accepting[m]
               /\ \/ group[m].declined[d] = 0
                  \/ group'[m].devices[d].counter # group[m].declined[d]
  BY DEF Admits, SwitchGoverns
<1> QED BY Invariance, NextAdmits, <1>1, PTL DEF Spec, SwitchGovernsAdmission

===============================================================================
