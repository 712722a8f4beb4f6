----------------------------- MODULE MachineGroup -----------------------------
(***************************************************************************)
(* Machines that serve devices, alone or as members of a group             *)
(* (src/crates/traverse/src/host.rs and identity.rs).                      *)
(*                                                                         *)
(* Every machine keeps an allow list, which is its only admission check.   *)
(* A device gets on it by an invitation of that machine, by a space link,  *)
(* or because the machine's group lists it as a member.  Machines of a     *)
(* group exchange their states and bring their own allow list in line.     *)
(*                                                                         *)
(* All of a machine's handlers run under one lock, so each is one action;  *)
(* what happens while a machine waits for another one's answer (the dial   *)
(* of a join, a leave or a sync) is the interleaving this module is about. *)
(***************************************************************************)
EXTENDS GroupState

CONSTANTS
  Groups,       \* group ids that may be created
  None,         \* the id of no group
  Local,        \* Local[m]: the device sharing m's data directory, or NoDevice
  NoDevice,
  Screens,      \* bound: <<m, d>> where device d opens connections to m
  Guests,       \* bound: <<m, d>> where device d gets into a shared space of m
  Owners,       \* bound: the machines whose owner acts
  Movers,       \* bound: the machines whose name, relay or addresses change
  Switches,     \* bound: the machines whose owner uses "Accept new devices"
  Reaches,      \* <<m, n>> where dials from m to n keep succeeding now and then
  MaxMints,     \* bound: invitations a machine mints
  MaxCounter,   \* bound: the highest counter a machine writes
  MaxInFlight   \* bound: requests and answers under way between machines

ASSUME GroupsAssumption == None \notin Groups
ASSUME LocalAssumption ==
  NoDevice \notin Devices /\ Local \in [Machines -> Devices \union {NoDevice}]
ASSUME BoundsAssumption ==
  /\ Screens \subseteq Machines \X Devices /\ Guests \subseteq Machines \X Devices
  /\ Owners \subseteq Machines /\ Movers \subseteq Machines /\ Switches \subseteq Owners
  /\ Reaches \subseteq Machines \X Machines
  /\ MaxMints \in Nat /\ MaxCounter \in Nat /\ MaxInFlight \in Nat

VARIABLES
  group,       \* group[m]: m's record of its group (HostIdentity.group)
  allow,       \* allow[m][d]: the allow list: "none", "full" or "space"
  accepting,   \* accepting[m]: the switch "Accept new devices"
  invitation,  \* invitation[m]: the live invitation's secret, 0 when there is none
  minted,      \* minted[m]: the secrets m has issued are 1..minted[m]
  live,        \* live[m][d]: d's connections at m: "none", "admitted" before the
               \* hello, then the access the hello found
  task,        \* task[m]: the dials m's owner started and m waits for
  net,         \* requests and answers under way between machines
  created      \* the group ids used up

vars == <<group, allow, accepting, invitation, minted, live, task, net, created>>

-------------------------------------------------------------------------------
(* Records and messages *)

NoGroup == [id       |-> None,
            machines |-> [n \in Machines |-> NoEntry],
            devices  |-> [d \in Devices |-> NoEntry],
            declined |-> [d \in Devices |-> 0]]

Records == [id : Groups \union {None}, machines : [Machines -> Entries],
            devices : [Devices -> Entries], declined : [Devices -> Nat]]

Lists == [Devices -> {"none", "full", "space"}]

InGroup(m) == group[m].id # None

\* What a machine sends of its record: all of it but the devices it declined.
StateOf(record) ==
  [id |-> record.id, machines |-> record.machines, devices |-> record.devices]

States == [id : Groups, machines : [Machines -> Entries],
           devices : [Devices -> Entries]]

\* A request whose sender no longer waits for the answer has awaited = FALSE.
SyncRequests == [kind : {"sync"}, from : Machines, to : Machines,
                 state : States, awaited : BOOLEAN]
JoinRequests == [kind : {"join"}, from : Machines, to : Machines,
                 group : Groups, secret : Nat, devices : SUBSET Devices,
                 awaited : BOOLEAN]
Answers == [kind : {"synced", "joined"}, from : Machines, to : Machines,
            state : States]

Sync(m, n, state, awaited) ==
  [kind |-> "sync", from |-> m, to |-> n, state |-> state, awaited |-> awaited]

Answer(kind, m, n, state) ==
  [kind |-> kind, from |-> m, to |-> n, state |-> state]

-------------------------------------------------------------------------------
(* Bringing the allow list in line with the group, and committing both *)

\* Whether m has to put device d of its group on its list and is not told to
\* leave it out.
Unlisted(m, record, list, d) ==
  record.devices[d].member /\ list[d] = "none" /\ d # Local[m]

AppliedListKeepsRemoved(m, record, list) ==  \* mutant: a removal is not applied
  [d \in Devices |->
     IF /\ Unlisted(m, record, list, d)
        /\ accepting[m]
        /\ record.declined[d] # record.devices[d].counter
     THEN "full"
     ELSE list[d]]

AppliedListForgetsDeclined(m, record, list) ==  \* mutant: the switch admits later
  [d \in Devices |->
     IF Removed(record.devices[d]) /\ d # Local[m] THEN "none"
     ELSE IF Unlisted(m, record, list, d) /\ accepting[m] THEN "full"
     ELSE list[d]]

AppliedList(m, record, list) ==
  [d \in Devices |->
     IF Removed(record.devices[d]) /\ d # Local[m] THEN "none"
     ELSE IF /\ Unlisted(m, record, list, d)
             /\ accepting[m]
             /\ record.declined[d] # record.devices[d].counter
          THEN "full"
     ELSE list[d]]

\* The declined devices: the admissions the switch kept out, as long as the
\* group's entry is still the one that was declined.
AppliedDeclinedMutant(m, record, list) ==  \* replaced entries stay declined
  [d \in Devices |->
     IF record.devices[d].member /\ Unlisted(m, record, list, d) /\ ~accepting[m]
     THEN record.devices[d].counter
     ELSE record.declined[d]]

AppliedDeclined(m, record, list) ==
  [d \in Devices |->
     IF /\ record.devices[d].member
        /\ \/ record.declined[d] = record.devices[d].counter
           \/ Unlisted(m, record, list, d) /\ ~accepting[m]
     THEN record.devices[d].counter
     ELSE 0]

\* Connections that survive a commit.  Devices the group removed lose theirs;
\* when the group's machines change, full devices lose theirs and reconnect to
\* learn them.
SurvivingLiveMutant(m, record, list) ==  \* removed devices keep their connections
  [d \in Devices |->
     IF /\ MemberMachines(record) # MemberMachines(group[m])
        /\ AppliedList(m, record, list)[d] = "full"
     THEN "none"
     ELSE live[m][d]]

SurvivingLive(m, record, list) ==
  LET applied == AppliedList(m, record, list)
      moved   == MemberMachines(record) # MemberMachines(group[m])
  IN  [d \in Devices |->
         IF \/ list[d] # "none" /\ applied[d] = "none"
            \/ moved /\ applied[d] = "full"
         THEN "none"
         ELSE live[m][d]]

\* Write `record` and `list` as m's group and allow list.
Commit(m, record, list) ==
  /\ group' = [group EXCEPT ![m] =
                 [record EXCEPT !.declined = AppliedDeclined(m, record, list)]]
  /\ allow' = [allow EXCEPT ![m] = AppliedList(m, record, list)]
  /\ live'  = [live EXCEPT ![m] = SurvivingLive(m, record, list)]

\* Merge a member's state.  A state that removes m ends its membership; one that
\* brings nothing new is not committed.
AbsorbMutant(m, state) ==  \* a removed machine keeps its group
  IF state.id # group[m].id \/ ~IsValid(state)
  THEN UNCHANGED <<group, allow, live>>
  ELSE \E merged \in Merge(group[m], state) : Commit(m, merged, allow[m])

Absorb(m, state) ==
  IF state.id # group[m].id \/ ~IsValid(state)
  THEN UNCHANGED <<group, allow, live>>
  ELSE \E merged \in Merge(group[m], state) :
         IF ~merged.machines[m].member
         THEN Commit(m, NoGroup, allow[m])
         ELSE IF merged = group[m]
         THEN UNCHANGED <<group, allow, live>>
         ELSE Commit(m, merged, allow[m])

-------------------------------------------------------------------------------
(* Invitations and the switch *)

Mint(m) ==
  /\ minted[m] < MaxMints
  /\ minted' = [minted EXCEPT ![m] = @ + 1]
  /\ invitation' = [invitation EXCEPT ![m] = minted[m] + 1]
  /\ UNCHANGED <<group, allow, accepting, live, task, net, created>>

\* The live invitation goes without admitting anyone: it expires, five wrong
\* secrets were presented, or it was spent on a change that could not be saved.
LoseInvitation(m) ==
  /\ invitation[m] # 0
  /\ invitation' = [invitation EXCEPT ![m] = 0]
  /\ UNCHANGED <<group, allow, accepting, minted, live, task, net, created>>

\* Turning the switch on mints an invitation, turning it off drops the live one.
SetAccepting(m, enabled) ==
  /\ m \in Switches
  /\ accepting[m] # enabled
  /\ enabled => minted[m] < MaxMints
  /\ accepting' = [accepting EXCEPT ![m] = enabled]
  /\ minted' = [minted EXCEPT ![m] = IF enabled THEN @ + 1 ELSE @]
  /\ invitation' = [invitation EXCEPT ![m] = IF enabled THEN minted[m] + 1 ELSE 0]
  /\ UNCHANGED <<group, allow, live, task, net, created>>

\* A device or a joining machine presents the live invitation, which is spent.
TakeInvitationMutant(m, secret) ==  \* the invitation can be used again
  invitation[m] # 0 /\ invitation[m] = secret /\ UNCHANGED invitation

TakeInvitation(m, secret) ==
  /\ invitation[m] # 0 /\ invitation[m] = secret
  /\ invitation' = [invitation EXCEPT ![m] = 0]

-------------------------------------------------------------------------------
(* Pairing, spaces and revocation *)

\* Device d presents m's invitation.  A device already listed keeps the access
\* it has; a full one is written into m's group as a member.
PairedAccessMutant(access) == "full"  \* a space member is promoted

PairedAccess(access) == IF access = "none" THEN "full" ELSE access

Pair(m, d) ==
  LET list == [allow[m] EXCEPT ![d] = PairedAccess(@)]
      record == IF InGroup(m) /\ list[d] = "full"
                THEN SetDevice(group[m], d, TRUE, m) ELSE group[m]
  IN  /\ accepting[m]
      /\ TakeInvitation(m, invitation[m])
      /\ group[m].devices[d].counter < MaxCounter
      /\ Commit(m, record, list)
      /\ UNCHANGED <<accepting, minted, task, net, created>>

\* Device d presents the link of a space of m.  The group is neither told nor
\* asked.
PairSpace(m, d) ==
  /\ accepting[m]
  /\ <<m, d>> \in Guests
  /\ allow[m][d] = "none"
  /\ allow' = [allow EXCEPT ![m][d] = "space"]
  /\ UNCHANGED <<group, accepting, invitation, minted, live, task, net, created>>

\* Listed device d is moved to a space.
MoveMember(m, d) ==
  /\ <<m, d>> \in Guests
  /\ allow[m][d] # "none"
  /\ allow' = [allow EXCEPT ![m][d] = "space"]
  /\ live' = [live EXCEPT ![m][d] = "none"]
  /\ UNCHANGED <<group, accepting, invitation, minted, task, net, created>>

\* Members leave the list: a device is removed, whatever its access, or the
\* space of several is deleted.  Their entries in the group stay.
RemoveMembers(m, ds) ==
  /\ ds # {} /\ \A d \in ds : <<m, d>> \in Guests
  /\ \/ \A d \in ds : allow[m][d] = "space"
     \/ \E d \in ds : ds = {d} /\ allow[m][d] = "full"
  /\ allow' = [allow EXCEPT ![m] = [d \in Devices |-> IF d \in ds THEN "none" ELSE @[d]]]
  /\ live' = [live EXCEPT ![m] = [d \in Devices |-> IF d \in ds THEN "none" ELSE @[d]]]
  /\ UNCHANGED <<group, accepting, invitation, minted, task, net, created>>

\* The owner removes device d.  A member of the group is removed from the group.
Revoke(m, d) ==
  /\ \/ /\ group[m].devices[d].member
        /\ group[m].devices[d].counter < MaxCounter
        /\ Commit(m, SetDevice(group[m], d, FALSE, m), allow[m])
     \/ /\ ~group[m].devices[d].member
        /\ allow[m][d] # "none"
        /\ allow' = [allow EXCEPT ![m][d] = "none"]
        /\ live' = [live EXCEPT ![m][d] = "none"]
        /\ UNCHANGED group
  /\ UNCHANGED <<accepting, invitation, minted, task, net, created>>

-------------------------------------------------------------------------------
(* Connections of devices *)

\* m admits a connection if its device is listed, and registers it.
Connect(m, d) ==
  /\ <<m, d>> \in Screens
  /\ allow[m][d] # "none"
  /\ live[m][d] = "none"
  /\ live' = [live EXCEPT ![m][d] = "admitted"]
  /\ UNCHANGED <<group, allow, accepting, invitation, minted, task, net, created>>

\* The hello reads the device's access once for the life of the connection.
Hello(m, d) ==
  /\ live[m][d] = "admitted"
  /\ live' = [live EXCEPT ![m][d] = allow[m][d]]
  /\ UNCHANGED <<group, allow, accepting, invitation, minted, task, net, created>>

\* The connection ends, or the projects of the device's space changed.
Disconnect(m, d) ==
  /\ live[m][d] # "none"
  /\ live' = [live EXCEPT ![m][d] = "none"]
  /\ UNCHANGED <<group, allow, accepting, invitation, minted, task, net, created>>

-------------------------------------------------------------------------------
(* The group: create, remove a machine, admit a declined device *)

FullDevices(m) == {d \in Devices : allow[m][d] = "full"}

LocalDevices(m) == {Local[m]} \ {NoDevice}

Create(m, g) ==
  LET founded == SetMachine([NoGroup EXCEPT !.id = g], m, TRUE, m)
      listed  == SetDevices(founded, FullDevices(m), TRUE, m)
  IN  /\ ~InGroup(m)
      /\ g \notin created
      /\ created' = created \union {g}
      /\ Commit(m, SetDevices(listed, LocalDevices(m), TRUE, m), allow[m])
      /\ UNCHANGED <<accepting, invitation, minted, task, net>>

\* m removes machine n and, if n can be reached, tells it once.
RemoveMachine(m, n) ==
  LET record == SetMachine(group[m], n, FALSE, m)
      told   == Sync(m, n, StateOf(record), TRUE)
  IN  /\ n # m
      /\ group[m].machines[n].member
      /\ group[m].machines[n].counter < MaxCounter
      /\ Commit(m, record, allow[m])
      /\ net' \in {net, net \union {told}}
      /\ Cardinality(net') <= MaxInFlight
      /\ UNCHANGED <<accepting, invitation, minted, task, created>>

\* The owner admits a member device the switch kept out.
AdmitDeclined(m, d) ==
  LET list == [allow[m] EXCEPT ![d] = PairedAccess(@)]
  IN  /\ group[m].devices[d].member
      /\ Commit(m, [group[m] EXCEPT !.declined[d] = 0], list)
      /\ UNCHANGED <<accepting, invitation, minted, task, net, created>>

-------------------------------------------------------------------------------
(* Joining a group *)

\* m reads its full devices, lets go of the lock and dials n with the link of
\* n's invitation.
JoinStart(m, n) ==
  /\ n # m
  /\ ~InGroup(m)
  /\ "joining" \notin task[m]
  /\ InGroup(n) /\ invitation[n] # 0
  /\ Cardinality(net) < MaxInFlight
  /\ task' = [task EXCEPT ![m] = @ \union {"joining"}]
  /\ net' = net \union
       {[kind |-> "join", from |-> m, to |-> n, group |-> group[n].id,
         secret |-> invitation[n],
         devices |-> FullDevices(m) \union LocalDevices(m), awaited |-> TRUE]}
  /\ UNCHANGED <<group, allow, accepting, invitation, minted, live, created>>

\* The machine that minted the invitation takes the joining machine and the
\* devices it brings, those its group has no entry for.
AcceptJoin(msg) ==
  LET m       == msg.to
      brought == {d \in msg.devices : ~Listed(group[m].devices[d])}
      record  == SetDevices(SetMachine(group[m], msg.from, TRUE, m), brought, TRUE, m)
  IN  /\ msg.kind = "join"
      /\ group[m].id = msg.group
      /\ accepting[m]
      /\ \/ group[m].machines[msg.from].member
         \/ Cardinality(MemberMachines(group[m])) < MaxGroupMachines
      /\ TakeInvitation(m, msg.secret)
      /\ group[m].machines[msg.from].counter < MaxCounter
      /\ Commit(m, record, allow[m])
      /\ net' = (net \ {msg}) \union
           IF msg.awaited
           THEN {Answer("joined", m, msg.from, StateOf(group'[m]))} ELSE {}
      /\ UNCHANGED <<accepting, minted, task, created>>

\* The answer reaches m: it takes the group, unless it found another meanwhile
\* or the state is one it does not accept.
JoinFinish(msg) ==
  LET m == msg.to
  IN  /\ msg.kind = "joined"
      /\ "joining" \in task[m]
      /\ task' = [task EXCEPT ![m] = @ \ {"joining"}]
      /\ net' = net \ {msg}
      /\ IF ~InGroup(m) /\ IsValid(msg.state) /\ msg.state.machines[m].member
         THEN Commit(m, [NoGroup EXCEPT !.id = msg.state.id,
                                        !.machines = msg.state.machines,
                                        !.devices = msg.state.devices],
                     allow[m])
         ELSE UNCHANGED <<group, allow, live>>
      /\ UNCHANGED <<accepting, invitation, minted, created>>

\* m stops waiting.  A request it already sent may still be accepted.
Abandoned(m, requests, answers) ==
  {IF msg.from = m /\ msg.kind \in requests
   THEN [msg EXCEPT !.awaited = FALSE] ELSE msg :
     msg \in {sent \in net : ~(sent.to = m /\ sent.kind \in answers)}}

JoinTimeout(m) ==
  /\ "joining" \in task[m]
  /\ task' = [task EXCEPT ![m] = @ \ {"joining"}]
  /\ net' = Abandoned(m, {"join"}, {"joined"})
  /\ UNCHANGED <<group, allow, accepting, invitation, minted, live, created>>

-------------------------------------------------------------------------------
(* Leaving a group *)

\* m tells the members it can reach that it leaves; nobody waits for an answer.
LeaveStart(m) ==
  LET leaving == StateOf(SetMachine(group[m], m, FALSE, m))
  IN  /\ InGroup(m)
      /\ "leaving" \notin task[m]
      /\ group[m].machines[m].counter < MaxCounter
      /\ task' = [task EXCEPT ![m] = @ \union {"leaving"}]
      /\ \E told \in SUBSET (MemberMachines(group[m]) \ {m}) :
           net' = net \union {Sync(m, n, leaving, FALSE) : n \in told}
      /\ Cardinality(net') <= MaxInFlight
      /\ UNCHANGED <<group, allow, accepting, invitation, minted, live, created>>

\* Every member was told or could not be reached: m forgets its group.
LeaveFinish(m) ==
  /\ "leaving" \in task[m]
  /\ task' = [task EXCEPT ![m] = @ \ {"leaving"}]
  /\ Commit(m, NoGroup, allow[m])
  /\ UNCHANGED <<accepting, invitation, minted, net, created>>

\* The change could not be saved: m told the members it left and is still in.
LeaveFails(m) ==
  /\ "leaving" \in task[m]
  /\ task' = [task EXCEPT ![m] = @ \ {"leaving"}]
  /\ UNCHANGED <<group, allow, accepting, invitation, minted, live, net, created>>

-------------------------------------------------------------------------------
(* Keeping the group in step *)

\* m's own name, relay or addresses changed since it wrote its entry.
RefreshThisMachine(m) ==
  /\ m \in Movers
  /\ group[m].machines[m].member
  /\ group[m].machines[m].counter < MaxCounter
  /\ Commit(m, SetMachine(group[m], m, TRUE, m), allow[m])
  /\ UNCHANGED <<accepting, invitation, minted, task, net, created>>

\* One round of m's sync loop dials member n; a round waits for its answers.
SyncStart(m, n) ==
  /\ n \in MemberMachines(group[m]) \ {m}
  /\ \A msg \in net : ~(msg.kind = "sync" /\ msg.from = m /\ msg.to = n /\ msg.awaited)
  /\ \A msg \in net : ~(msg.kind = "synced" /\ msg.from = n /\ msg.to = m)
  /\ Cardinality(net) < MaxInFlight
  /\ net' = net \union {Sync(m, n, StateOf(group[m]), TRUE)}
  /\ UNCHANGED <<group, allow, accepting, invitation, minted, live, task, created>>

\* A machine the group removed is told its own removal and nothing it sends is
\* taken; a member's state is merged and answered with the result.
AcceptSync(msg) ==
  LET m == msg.to
      ownEntry == [id       |-> group[m].id,
                   machines |-> [NoGroup.machines EXCEPT
                                   ![msg.from] = group[m].machines[msg.from]],
                   devices  |-> NoGroup.devices]
      reply(state) == IF msg.awaited THEN {Answer("synced", m, msg.from, state)} ELSE {}
  IN  /\ msg.kind = "sync"
      /\ group[m].id = msg.state.id
      /\ \/ /\ Removed(group[m].machines[msg.from])
            /\ net' = (net \ {msg}) \union reply(ownEntry)
            /\ UNCHANGED <<group, allow, live>>
         \/ /\ group[m].machines[msg.from].member
            /\ Absorb(m, msg.state)
            /\ net' = (net \ {msg}) \union
                 IF group'[m].id = None THEN {} ELSE reply(StateOf(group'[m]))
      /\ UNCHANGED <<accepting, invitation, minted, task, created>>

\* The answer to one of m's syncs.
AbsorbAnswer(msg) ==
  /\ msg.kind = "synced"
  /\ net' = net \ {msg}
  /\ Absorb(msg.to, msg.state)
  /\ UNCHANGED <<accepting, invitation, minted, task, created>>

\* A message is lost, its connection times out, its receiver rejects it or
\* cannot save what it brings.
Lose(msg) ==
  /\ net' = net \ {msg}
  /\ UNCHANGED <<group, allow, accepting, invitation, minted, live, task, created>>

\* m stops and starts again from what it saved.
Restart(m) ==
  /\ invitation' = [invitation EXCEPT ![m] = 0]
  /\ live' = [live EXCEPT ![m] = [d \in Devices |-> "none"]]
  /\ task' = [task EXCEPT ![m] = {}]
  /\ net' = Abandoned(m, {"sync", "join"}, {"synced", "joined"})
  /\ UNCHANGED <<group, allow, accepting, minted, created>>

-------------------------------------------------------------------------------
Init ==
  /\ group = [m \in Machines |-> NoGroup]
  /\ allow = [m \in Machines |-> [d \in Devices |-> "none"]]
  /\ accepting = [m \in Machines |-> TRUE]
  /\ invitation = [m \in Machines |-> 0]
  /\ minted = [m \in Machines |-> 0]
  /\ live = [m \in Machines |-> [d \in Devices |-> "none"]]
  /\ task = [m \in Machines |-> {}]
  /\ net = {}
  /\ created = {}

OwnerStep(m) ==
  \/ Mint(m)
  \/ \E enabled \in BOOLEAN : SetAccepting(m, enabled)
  \/ \E d \in Devices : Revoke(m, d)
  \/ \E d \in Devices : MoveMember(m, d)
  \/ \E ds \in SUBSET Devices : RemoveMembers(m, ds)
  \/ \E g \in Groups : Create(m, g)
  \/ \E n \in Machines : RemoveMachine(m, n)
  \/ \E d \in Devices : AdmitDeclined(m, d)
  \/ \E n \in Machines : JoinStart(m, n)
  \/ LeaveStart(m)

DeviceStep(m, d) ==
  \/ Pair(m, d)
  \/ PairSpace(m, d)
  \/ Connect(m, d)
  \/ Hello(m, d)
  \/ Disconnect(m, d)

MachineStep(m) ==
  \/ LoseInvitation(m)
  \/ JoinTimeout(m)
  \/ LeaveFinish(m)
  \/ LeaveFails(m)
  \/ RefreshThisMachine(m)
  \/ \E n \in Machines : SyncStart(m, n)
  \/ Restart(m)

MessageStep(msg) ==
  \/ AcceptJoin(msg)
  \/ JoinFinish(msg)
  \/ AcceptSync(msg)
  \/ AbsorbAnswer(msg)
  \/ Lose(msg)

Next ==
  \/ \E m \in Owners : OwnerStep(m)
  \/ \E m \in Machines, d \in Devices : DeviceStep(m, d)
  \/ \E m \in Machines : MachineStep(m)
  \/ \E msg \in net : MessageStep(msg)

Spec == Init /\ [][Next]_vars

\* Every member's sync loop runs for good and dials each member again and again.
\* Of those from m to n, <<m, n>> in Reaches, some get through each way while m
\* still waits, again and again; all others may be lost.  No owner or device acts
\* fairly, and a machine may restart forever.
Fairness ==
  /\ WF_vars(\E msg \in net : MessageStep(msg))
  /\ \A link \in Reaches :
       /\ SF_vars(SyncStart(link[1], link[2]))
       /\ SF_vars(\E msg \in net :
                    /\ msg.from = link[1] /\ msg.to = link[2]
                    /\ msg.kind = "sync" /\ msg.awaited /\ AcceptSync(msg))
       /\ SF_vars(\E msg \in net :
                    msg.from = link[2] /\ msg.to = link[1] /\ AbsorbAnswer(msg))

-------------------------------------------------------------------------------
(* Properties *)

\* Every variable has its type.
TypeOK ==
  /\ group \in [Machines -> Records]
  /\ allow \in [Machines -> Lists]
  /\ accepting \in [Machines -> BOOLEAN]
  /\ invitation \in [Machines -> Nat]
  /\ minted \in [Machines -> Nat]
  /\ live \in [Machines -> [Devices -> {"none", "admitted", "full", "space"}]]
  /\ task \in [Machines -> SUBSET {"joining", "leaving"}]
  /\ net \subseteq SyncRequests \union JoinRequests \union Answers
  /\ created \subseteq Groups

\* A live connection belongs to a device that is still listed, and one past its
\* hello holds the access the list gives the device now: every revocation, group
\* removal and move to a space closes what it takes away (Shared::commit, revoke,
\* space_action), and no connection is registered after the fact (Shared::admit).
LiveIsAdmitted ==
  \A m \in Machines, d \in Devices :
    live[m][d] # "none" =>
      allow[m][d] # "none" /\ live[m][d] \in {"admitted", allow[m][d]}

\* A device the group removed has no full access at any machine that knows of the
\* removal, however the two learnt of each other (HostIdentity::apply_group is
\* run by every change of a group).  Only the device sharing the machine's data
\* directory is exempt.
RemovedIsRefused ==
  \A m \in Machines, d \in Devices :
    Removed(group[m].devices[d]) /\ d # Local[m] => allow[m][d] # "full"

\* A machine that keeps a group is a member in its own record of it: the state
\* that removes it also makes it forget the group (Shared::absorb).
KnowsItself ==
  \A m \in Machines : InGroup(m) => group[m].machines[m].member

\* A device listed as declined is waiting: it has no full access, and the entry
\* that was declined is the one the group still holds.
DeclinedIsPending ==
  \A m \in Machines, d \in Devices :
    group[m].declined[d] # 0 =>
      /\ allow[m][d] # "full"
      /\ group[m].devices[d].member
      /\ group[m].devices[d].counter = group[m].declined[d]

\* While a machine stays in a group, what it knows of an id never gets older: no
\* late answer, stale request or restart brings back an entry that was replaced.
EntriesOnlyRise ==
  [][\A m \in Machines :
       InGroup(m) /\ group'[m].id = group[m].id =>
         /\ \A n \in Machines :
              \/ group'[m].machines[n] = group[m].machines[n]
              \/ Outranks(group'[m].machines[n], group[m].machines[n])
         /\ \A d \in Devices :
              \/ group'[m].devices[d] = group[m].devices[d]
              \/ Outranks(group'[m].devices[d], group[m].devices[d])]_vars

\* The entries of an id that some machine holds or some message carries.
Carried == {msg.state : msg \in {sent \in net : sent.kind # "join"}}

KnownMachine(n) ==
  {group[m].machines[n] : m \in Machines} \union {state.machines[n] : state \in Carried}

KnownDevice(d) ==
  {group[m].devices[d] : m \in Machines} \union {state.devices[d] : state \in Carried}

Spends(m) == invitation[m] # 0 /\ invitation'[m] = 0 /\ accepting[m]

\* A group has one way in.  A member entry nobody held before is written by a
\* machine about itself, by the machine that creates the group about its devices,
\* or by a machine that spends its live invitation in the same step
\* (Shared::take_invitation), whatever requests and answers are still under way.
OneWayIn ==
  [][\A m \in Machines :
       /\ \A n \in Machines \ {m} :
            group'[m].machines[n].member /\ group'[m].machines[n] \notin KnownMachine(n)
              => Spends(m)
       /\ \A d \in Devices :
            group'[m].devices[d].member /\ group'[m].devices[d] \notin KnownDevice(d)
              => Spends(m) \/ ~InGroup(m)]_vars

\* While "Accept new devices" is off on a machine, its group admits nobody there,
\* and a device that was declined stays out until the owner admits it, it pairs
\* again at that machine, or another machine admits it anew.
SwitchGovernsAdmission ==
  [][\A m \in Machines, d \in Devices :
       allow[m][d] = "none" /\ allow'[m][d] = "full" =>
         \/ AdmitDeclined(m, d)
         \/ /\ accepting[m]
            /\ \/ group[m].declined[d] = 0
               \/ group'[m].devices[d].counter # group[m].declined[d]]_vars

\* A device that is in a space of a machine never gets full access there, whatever
\* the group or an invitation says, before the owner removes it from the space.
SpaceIsKept ==
  [][\A m \in Machines, d \in Devices :
       allow[m][d] = "space" => allow'[m][d] # "full"]_vars

\* Machines that know each other as members end up with the same group, whatever
\* was changed where, in which order the changes were heard of, and however many
\* messages were lost.
Agree(m, n) ==
  group[m].machines = group[n].machines /\ group[m].devices = group[n].devices

MutualMembers(m, n) ==
  /\ InGroup(m) /\ group[m].id = group[n].id
  /\ group[m].machines[n].member /\ group[n].machines[m].member

GroupConverges ==
  \A m, n \in Machines : <>[](MutualMembers(m, n) => Agree(m, n))

===============================================================================
