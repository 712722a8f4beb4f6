# A verification project for tcode

TLA+ models of the parts of tcode where machines, devices, tasks and agents meet: who
may connect to a machine, how a group of machines keeps one membership, how a device's
writes reach the host, how a thread's messages reach its provider, how a client's
replica follows a thread's log, how news of a pull request reaches the thread that
watches it, and how a lead hears from the child it dispatched. TLC checks them on small
instances; TLAPS proves every safety property the runs check, and that delivery implements its
abstract specification, for any number of machines, devices, writes, texts, rows, threads,
checks, messages and reports. Paths below are relative to `src/crates/` of the repository,
`docs/` to `src/`.

## 1. Inventory

tcode runs coding agents on a *machine* (the host) and shows them on *devices* (the
clients). The host owns all state in one event loop; clients hold replicas.

| Component | State | Operations | What is hard | What makes it correct |
|---|---|---|---|---|
| Group state (`traverse/src/group.rs`) | entries of machines and devices: member or removed, counter, author | set, merge, validate | concurrent changes on several machines, late states, size limits | entries only rise; exchanged states converge |
| Machine admission (`traverse/src/host.rs`, `identity.rs`) | allow list, invitation, the switch "Accept new devices", spaces, live connections, group record, declined devices | mint, pair, revoke, move to a space, connect, hello; found, join, leave, remove, sync a group | one lock per machine but none across machines; dials during which the owner, devices and other machines go on; lost answers; restarts | connections belong to listed devices; removed devices are refused; one way in; the switch governs what the group admits |
| Client link (`client/src/lib.rs`, `outbox.rs`, `outgoing.rs`, `recovery.rs`, `heartbeat.rs`) | outbox and its file, connection state, pending requests, subscriptions | enqueue, flush, take Acks, check deadlines, apply connection states | the link and the transport are separate tasks; storage may fail; redelivery | writes are never lost silently, go out in order, stay saved |
| Reconnecting transport (`traverse/src/client.rs`, `client/src/attachment.rs`, `web/src/transport.rs`) | queue, connection, backoff, wakes | dial, relay, back off, restart on wake | what is in flight when a connection ends | what it drops is sent again by the outbox |
| Host mux (`traverse/src/mux.rs`) | attachments, routes of request ids, subscriptions, deferred unsubscribes | attach, route, broadcast, release | pending subscriptions and departing clients | answers reach the asker only; a topic is released once |
| Host pipe (`runtime/src/pipe.rs`, `host.rs`) | cache of completed commands per device | dispatch commands and queries, complete, Ack | commands that run in tasks, redelivered meanwhile; a bounded cache | a remembered key is not executed again |
| Threads and turns (`runtime/src/app/send.rs`, `active_session.rs`, `lifecycle.rs`, `events.rs`, `options.rs`, `approvals.rs`) | a queue per thread, the turn in flight, the provider process, parked residents, timers | send, steer, schedule, accept, close, restart, park, reap | provider events against user actions; timers superseded; ends of old streams | what somebody typed is said once or waits; one prompt under way; nobody waits on a dead provider |
| Store (`runtime/src/app/store_write.rs`, `history.rs`, `snapshots.rs`, `services/src/store`) | a batch of mutations, barriers | append, commit, flush | a failed batch while later ones go on | what is reported saved is saved |
| Subscriptions and replicas (`mux.rs`, `runtime/src/app/session_index.rs`, `terminals.rs`, `client/src/lib.rs`) | cursors, the log in memory or being read, replicas, pending subscriptions | subscribe, answer, broadcast, resume, leave, evict a log | windows, held records and live events meet at a client that only counts; stale answers; pending subscriptions of others | a replica is the log's rows; who stays catches up; a topic lasts as long as its last client |
| Pull-request watch (`runtime/src/app/pull_request_watch.rs`, `core/src/pull_request_watch.rs`) | watches with what the agent knows, persisted wakes, the last read, pauses | sweep, plan, read, record, wake, steer or queue, acknowledge, pause, resume | passes that await the forge; news that joins a wake under way; restarts between save and delivery; reads skipped for a fingerprint | news is told once and not lost; a watch does not end silently |
| Orchestration (`orchestrate.rs`, `subagents.rs`, `settlement.rs`) | the report each child owes, control watches | dispatch, send, report, remind, cancel, settle | turns that end for other reasons; children that are reloaded, reaped or taken over by their user; a lead that is busy or gone | each lead is told each thing once, and is told something |
| Authorization, protocol, core folds | none of their own | decide, encode, fold | wide tables | agree with each other |
| Services, provider adapters, terminals, shells, tool servers, discovery | processes and sockets | I/O around other programs | out of a model's reach | enter the models as what they may do |

Calls go from the interface into the link, lines through the transport, the mux and
the pipe into the host's event loop; Acks, query results and events come back the same
way. Machines of a group speak to each other over `tcode/group/1` and never through
the pipe. `PROJECT.json` lists every component with its status, and the hazards of this
code line by line.

## 2. Modules

| Module | Stands for |
|---|---|
| `GroupState` | the operators of `group.rs`: rank, next entry, merge, limits |
| `MachineGroup` | machines with allow lists, invitations, connections, group records, and the messages between them |
| `MCMachineGroup` | values for TLC: which machines act, starts in mid-life |
| `GroupClaims` | what the documentation of groups says and a run contradicts |
| `GroupStateProofs`, `MachineGroupProofs` | the proofs about groups |
| `RetainedWrites` | abstract: each write executed once, in order, then acknowledged |
| `Delivery` | outbox, link, transport, wire and the host's cache; implements `RetainedWrites` |
| `DeliveryClaims` | what the documentation of delivery says and a run contradicts |
| `DeliveryProofs` | the proofs of what holds of delivery, and that it implements `RetainedWrites` |
| `TurnQueue` | one thread: its queue, its provider process, its timers |
| `TurnQueueProofs` | the proofs of the thread's invariants |
| `Subscriptions` | one thread's log in the host, the mux, the links and the replicas of its clients |
| `SubscriptionsProofs`, `ReplicaProofs` | the proofs that the topic is served while somebody has it, and that replicas are the log |
| `SubscriptionsClaims` | what the repository says of replicas and a run contradicts |
| `PullRequestWatch` | threads that watch a pull request, the worker that reads it, the wakes it leads to |
| `PullRequestWatchProofs` | the proofs that news is told once, nothing is taken as known untold, and no read misses any |
| `ChildReports` | a lead and its child: the report owed for each message, and the callbacks that answer it |
| `ChildReportsProofs` | the proofs that a wait ends, and about what the lead is told |

The modules meet at what they exchange. `Delivery` carries the commands whose execution
`TurnQueue`'s people are; a wake of `PullRequestWatch` enters a thread as an entry of the
queue that `TurnQueue` models, where the callbacks of `ChildReports` enter the same way
(`Callback`), and the child of `ChildReports` is a thread of `TurnQueue` seen from farther
away;
the records a turn leaves are the rows `Subscriptions` counts.

### MachineGroup

A machine's handlers all run under the lock of `Shared::state`, so each is one action.
Where a handler lets go of the lock, to dial, it is split there: `JoinStart`, the
other machine's `AcceptJoin` and `JoinFinish` or `JoinTimeout`; `LeaveStart` and
`LeaveFinish` or `LeaveFails`; `SyncStart`, `AcceptSync` and `AbsorbAnswer`. Requests
and answers are elements of `net`; any of them may be late or lost. A request whose
sender gave up or restarted stays in `net` with `awaited = FALSE`: it can still be
taken, and nobody hears the answer.

| Variable | Code |
|---|---|
| `group` | `HostIdentity.group`: state and declined devices |
| `allow` | `HostIdentity.devices` with `DeviceGrant` |
| `accepting` | `HostIdentity.pairing_enabled` |
| `invitation`, `minted` | `State.invitation`; secrets are numbered |
| `live` | `State.live` and the access the hello found |
| `task` | the blocked calls of `join_group` and `leave_group` |
| `net` | group lines under way |

Every change of group or list ends in `Shared::commit`, which applies the group to the
list and closes connections; `Commit` is that whole operation and part of every such
action. A failed save rolls the state back, so it is the action not happening, except
where something else was spent (`LoseInvitation`, `LeaveFails`, `Lose`).

Abstracted: names, platforms, hints and times; the message that tells a removed machine
carries the state of the removal; which entries are dropped beyond a limit is left
open; a space is one access, whatever its projects. A device has at most one connection
per machine in the model, and all of them share one fate in the code.

### Delivery

The link (`HostLink`) and the transport (`connection_loop`) are tasks of their own, and
the transport's published states reach the link by a third one (`ui/src/attachment.rs`):
`news` is that channel. `flush_outbox` reads the connection state before it takes the
outbox's lock, so `flushing` is set in one action and `Flush` is another. `Redial` is
the head of `connection_loop`, where retained lines are discarded. A connection has a
stream of its own, `wire[c]`: lines the host has not read when the connection ends may
still be read, up to a point (`Cut`), or by way of the mux after the next connection's
first lines. `Relaunch` ends the client's process. On the host, `Handle` is
`handle_client_message` for a command with a key and `Finish` a task's
`complete_command`.

Abstracted: the transport's `buffered` lines and its queue are one queue (both are
emptied where the loop dials); limits count entries, not bytes; Acks are not told apart
by their result, for a rejected command is completed like another; a retried write is a
new one. Left out: secret commands (sent only while connected and never stored), the
terminal Offline state, path updates, queries and subscriptions, the list of
acknowledged messages, a restart of the host (its cache is lost, a documented limit),
and the in-process and browser transports.

### TurnQueue

Every handler runs on the host's loop and is one action, written as the code is: operators
that take the record `host` and return the next one, in the order of the calls. Between
two handlers a launch ends, the provider reads a command or ends a turn, a timer fires, or
somebody acts.

| Variable | Code |
|---|---|
| `host` | `ActiveSession` with its residency, `Runtime`, queue, `delivery_in_flight`, flags, timers; fields are listed at `Fresh` |
| `agent` | the provider process: an open turn, prompts it has to finish, a background task |
| `events[g]` | the events of provider process `g` that the pump has not handed to the loop |
| `said`, `steered` | the user messages and steers of the transcript |
| `calls`, `withdrawn`, `written` | histories: who wrote which text, and what was taken back |

A provider that dies leaves its stream behind, whose events are dropped when its successor
has started (`StaleEvent`), as `on_event_stream_ended` and the generation of a launch
decide. A text is a number; a relay is the switch to another provider that waits for its
confirmation; a steer is answered by the provider with an acceptance or a rejection, at
any time. Left out: native rewinds, a provider's retries, goals, approvals, interrupts,
titles, and the first worktree of a draft.

### Subscriptions

One topic, the `SessionEvents` of a thread. A record is its row; a live event names no row
on the wire, and the client counts.

| Variable | Code |
|---|---|
| `log`, `host`, `hydration` | the thread's rows; `history.rs`: the log in memory or being read, with the answers that wait for it |
| `toHost`, `fromHost` | the channels between mux and host |
| `topics`, `pending`, `deferred` | `mux.rs`: the subscribers of the topic, subscriptions not yet answered, a release put off for them |
| `lines` | lines of ended connections the mux has not read |
| `link` | `HostLink`: connection, cursor, the request whose answer is current |
| `inbox`, `store` | what the store has not applied, and its replica |
| `shown`, `gap` | histories for the records that went to nobody |

Abstracted: an answer and its Ack are one message; the mux's id of a request is the
connection and the client's id, which makes its table of routes the set of those pending;
`remember_after`'s request that is never sent is "no answer is current"; a line sent and
not yet read counts as not sent; a tail's read without an index is one that never ends
first; a thread that cannot be parked is evicted at once; `ReleaseLog` may come whenever
the store's writer has nothing of the thread left, which is any time here. `Select` waits
until the store knows its scope, as the interface does.

### PullRequestWatch

A pass of the worker is `SweepStarts` (or `Begin` within `Resume` and `PassOver`), then
`Plan` or `ForgeSaysWait`, then `ReadFails`, `ReadOver` or `ReadOpen`: the hops of
`sweep_pull_request_watches` onto the host's loop. People, the provider, the forge and
restarts act between them.

| Variable | Code |
|---|---|
| `pr` | the pull request at its forge: state, head, checks and their runs, remarks with their times |
| `host.threads[t]` | the thread's link with its watch (`core`'s `PullRequestWatch`), its pause, queue, delivery and turn; `given` is a history |
| `host.refresh`, `cache`, `failures`, `again` | `WatchRuntime`: `refresh`, `last_reads`, `failures`, `sweep_pending` |
| `pass` | the pass under way, with its group of targets |
| `disk` | the saved link of each thread |

Abstracted: one pull request, so one group per project, and threads of one project; news
is a set of items and a wake's text the sequence of the reports merged into it, so that
`strip_prefix` is a prefix of sequences; times are half seconds, for the forge tells whole
seconds and a watch starts between two; whether the half-hour backstop is due (`late`) or a
snapshot shows the merge (`merged`) is open; the forge's answers are taken as of the hop
that uses them; a turn that takes no steers counts as no turn; failures are counted up to
the limit. Left out: edits of remarks, own remarks, mergeability and the tails of review
threads, archived and settled threads that still have a watch, the moves of queued
messages, and the control watches that a wake fires.

### ChildReports

The child is the record `child`, handled as in `TurnQueue` by operators that return the next
one: what `settle_child_expectation` looks at is the thread after the bookkeeping of the
turn that ended, so `Settles` gets it as an argument. Its early returns are `Silent`; then
come a report (`Reports`), a failure (`Fails`), the reminder (`Reminds`) and the last message
in the report's place (`FallsBack`), of which exactly one applies.

| Variable | Code |
|---|---|
| `caps` | `Provider::caps` of the child and the lead: steering, tools |
| `meta` | `SessionMeta` of the child: its `ChildExpectation` (the debt), archived, cancelled |
| `made` | the `report_result` calls in the child's stored transcript |
| `child` | `ActiveSession` with its residency; `seen` is `Timeline::last_report` of the transcript in memory, `loading` a `schedule_timeline_load` under way |
| `agent` | the child's provider: open turn, prompts to finish, a background task |
| `lead` | the lead's turn and channel; `queue` holds callbacks for its next turn, `inbox` those steered and not read |
| `calls`, `told` | histories: the callbacks made, and those the lead's provider was given |

Abstracted: the queue is its length; an event is taken as it is reported, except for a
process's end (`Dies`, `Closed`); a superseded start, settings and timers are `TurnQueue`'s;
the lead is one turn after another. A lead acts in a turn of its own only. Left out: approvals
and questions (a child that waits for one has a turn open), retries, goals, settlement,
`set_child_fast`, children of children, and a store that lags the memory.

## 3. Runs

Every run finishes in under four minutes with two workers. Deadlock is not checked:
people, owners and faults act a bounded number of times, and the system may rest.

| Run | Instance | Shows |
|---|---|---|
| `MachineGroup` | 2 machines, a device that has paired with one of them, connections and a space at the other, which uses the switch; 1 invitation each, counters to 3 | types; `LiveIsAdmitted`, `RemovedIsRefused`, `SpaceIsKept`, `DeclinedIsPending`, `SwitchGovernsAdmission` |
| `GroupRaces` | 2 machines, 2 messages under way | `KnowsItself`, `EntriesOnlyRise`, `OneWayIn` |
| `GroupConverges` | 3 machines in a group, dials succeed only around a ring, one owner, one mover, one local device | `GroupConverges` |
| `Delivery` | 3 writes, one of them in a task; outbox 2, queue 1, cache 2; 2 faults | types and limits; `SentIsPrefix`, `OutboxIsStored`, `OnceInWindow`, `NothingIsLost` |
| `DeliveryOrder` | 3 writes, cache 3, news heard in time, 2 faults | `Refines` (`RetainedWrites`), `EveryWriteSettles` |
| `TurnQueue` | 2 texts, any 3 of the things people and providers do | types; `NothingTypedIsLost`, `SaidOnce`, `OneSubmission`, `WorkingIsReal`, `TimersAreSet`, `EveryMessageSettles` |
| `Subscriptions` | 2 clients, 2 records, windows of 1 row, 3 selections or departures, 1 upset | types; `ReplicaIsTheLog`, `ReplicaOnlyGrows`, `SubscriberIsServed`, `NothingIsLeftOn`, `EveryoneCatchesUp` |
| `PullRequestWatch` | 1 thread, 1 required check, limits of 2 wakes and 2 failures; 3 starts and changes together, 1 pause or restart | types; `KnownIsTold`, `ToldOnce`, `CacheIsCurrent`, `EndsAreTold` |
| `ChildReports` | a child whose provider and whose lead's provider steer and take tools; 2 messages, 2 reports, 2 upsets | types; `ToldOnce`, `AnswersTheMessage`, `OwedIsComing`, `EveryMessageIsAnswered` |
| `RemovalUndone`, `OutOfOrder`, `ReconnectStalls` | the smallest instance with the case | a counterexample to a documented claim each, section 5 |

**Bounds.** `MaxMints`, `MaxCounter`, `MaxInFlight`, `MaxWrites`, `MaxFaults`, `MaxTexts`,
`MaxRecords`, `MaxAsks`, `MaxChanges`, `MaxMessages`, `MaxReports` and `MaxUpsets` bound what would grow for ever;
`Screens`, `Guests`, `Owners`, `Movers`, `Switches` and `Upsets` choose who does what, so
that each run spends its states on its question.

- Groups: counters to 3 hold an admission, a removal and a return, or a removal overtaken;
  two messages let a late state cross a newer one. The size limits are larger than the
  instances; `MergeEntriesRises` covers them in general. Machine ids are ordered and the
  runs use one device, so no symmetry is taken.
- Delivery: outbox, queue and cache smaller than the number of writes make each overflow.
  Two faults allow a failure during the recovery from another.
- `TurnQueue`: two texts are a message in flight and one behind it, or two reports that
  merge; three upsets are a change, a death and one more. Two texts with four upsets and
  three with three were checked too, without liveness.
- `Subscriptions`: a window of one row makes a replica of two rows take two answers; the
  second client is the one whose pending, leaving or refused subscription disturbs the
  first. Two upsets with two selections were checked too, without liveness. With `"lag"` the
  store may be behind a reconnect: what an earlier connection sent is applied after the next
  one is made, or a connection ends before the store has applied its scope. It is left out of
  this run, for it leads to `ReconnectStalls` and to what section 5 says of two losses.
- `PullRequestWatch`: three changes are news, news that joins it while it is accepted, and
  an end, or a watch replaced by another. What the bounds do not count (passes, failures,
  turns, deaths, resumes, withdrawals) happens as often as it likes. Two threads, two
  checks, and two watches with two changes were checked too.
- `ChildReports`: two messages make an earlier report one that answers the wrong message; two
  reports make an update; two upsets are a person or a task and the failure on top of it.
  Loads, showing and leaving the child, idle reaping and the lead's turns are not counted.
  Providers without steering or tools were checked with all combinations at two messages,
  one report and two upsets, and at two reports and one upset.

**Fairness.** `GroupConverges` assumes strong fairness of the dials around the ring: the
sync loop dials every member every five minutes for good (`group_sync_loop`), and a
path that works now and then lets an exchange through again and again. Nothing is
assumed of owners, devices or other dials. `EveryWriteSettles` assumes weak fairness of
the link's and the transport's tasks, of the host's loop and of its tasks; dials fail only
as often as `MaxFaults` allows, and `Backoff` never gives up. `EveryMessageSettles` assumes
that launches end, that a live provider reads its commands and ends its turns, and that
the loop takes events and runs due timers; nobody has to act and no background task has to
end. `EveryoneCatchesUp` assumes that the host's loop, the mux and the stores take what is
sent to them, that the read of a log ends, and that a lost connection is made anew.
`PullRequestWatch` has safety properties only and assumes nothing.
`EveryMessageIsAnswered` assumes that launches end, that the child's provider takes its
prompts and ends its turns, that the loop hears of ends, and that the lead's provider reads
and ends its turns. Nobody has to act, no load has to end, and no background task either: a
child with a task is what its lead may wait for.

**Prompt.** `DeliveryOrder` assumes that the link has applied the transport's news before it
sends again. The code does not ensure this; `Delivery` runs without the assumption, and
`OutOfOrder` shows what order loses without it. With a cache of 3 no write outlives the
cache's memory, and with no command in a task none runs twice: under these three
conditions delivery is what `RetainedWrites` promises.

**History variables.** `used` and `executed` of `Delivery` record how the host used its cache
and what it executed. `gap` of `Subscriptions` records that a log held records that went
out to nobody; `ReplicaIsTheLog` and `EveryoneCatchesUp` claim nothing after that, and
section 5 says how it happens. `given` of `PullRequestWatch` is what a thread's providers
were given; a steered wake counts as given whatever the provider makes of it, see section 5.
`left` of `ChildReports` is set where nobody is bound to answer: the user interrupted the
child or took its queued work back, the lead was put away or its provider closed, the host
restarted. `blind` holds the messages sent while the child's transcript was not at hand,
`dismissed` says that the lead cancelled the child; the properties name them where they make
an exception.

## 4. Proofs

`GroupStateProofs` proves the algebra of entries: `Outranks` is a strict total order, `Higher`
a join (commutative, associative, idempotent), a merge never lowers an entry, whatever
the limits drop, and below the limits two machines that merge each other agree.

`MachineGroupProofs` proves `Invariance`: `IInv` is inductive. Its parts:

- `PlainTypes` and `NetType`, the types of variables and messages;
- `GroupInv`: the safety invariants the runs check (`LiveIsAdmitted`, `RemovedIsRefused`,
  `KnowsItself`, `DeclinedIsPending`), that a machine in no group has an empty record, and
  that every listed counter is positive.

They need each other. A commit closes the connections of devices that leave the list,
so `LiveIsAdmitted` needs the list before it; that a removed device is off the list after
an action that leaves the group alone needs that it was off before; a declined device is
pending only while its entry is the one declined. One lemma, `CommitKeepsInv`, shows
that committing a record that is `Ready` (well typed, a member of its own group) restores
all of it, and each action is one lemma that shows its record to be ready. From `IInv`
follow `TypesHold`, `LiveConnectionsAreAdmitted`, `RemovedDevicesAreRefused`,
`MachinesKnowThemselves` and `DeclinedDevicesArePending`. `EntriesNeverFallBack` and
`SpaceMembersStayInSpaces` are action properties proved one step per action with `IInv`.

There too, `NextAdmits` gives `GroupHasOneWayIn` and `SwitchGovernsTheGroup`, about what
one step writes. `CommitAdmits` shows that a commit of a `Known` record and a `Governed` list
is enough: a member it lists is one somebody has heard of, unless the step spends the
invitation, and what it puts on the list is a device that pairs, one the owner admits, or one
the group lists whose declined entry the record has not forgotten. That a merge brings known
entries only is `MergedEntries`; that a device which pairs again has an entry newer than the
declined one needs `DeclinedIsPending`.

`DeliveryProofs` proves `DeliveryInvariance`. The types need one bound that is no type:
connections are opened by faults and wakes only, so that `conn` stays among the wires of
the model (`ConnBound`). Over them lie what the outbox has sent (`PrefixStep`), what is in
the file and what each write became (`StoredStep`, `NothingIsLostStep`), and what the host
remembers. For the last, `OnceInWindow` alone is not inductive: a refresh moves a key up
the cache, and an eviction takes the oldest. `WindowCached` says that the cache holds what
the latest uses of keys say it should hold; with it a key that is still in the window is
found, and is not executed again (`WindowStep`, `OnceStep`). From `IInv` follow
`DeliveryTypes`, `SentWritesLead`, `RetainedWritesAreStored`, `WritesAreNotLost` and
`RememberedWritesRunOnce`, with `Prompt` or without it, for any limits and any `Slow`.

The same module proves `DeliveryKeepsItsPromise`: under the three conditions of
section 3 (`Orderly`: `Prompt`, nothing in `Slow`, at least as many places in the cache as
writes) `Spec` implies `Refines`, whatever the limits of the outbox and the queue and
however many faults. The mapping is by name; what needs an invariant is that `Execute` may
take place when the host handles a fresh key. `OrderInv` says that every line on its way
comes after all older ones that are not done: on the wire (`WirePart`), in the queue behind
the wire (`QueuePart`), and in the outbox behind both (`SentPart`). The last is where
`Prompt` enters: what is marked as sent is done or on its way only until the connection
breaks, and the link knows that it broke as soon as it has applied the news. A flush
(`FlushedInOrder`) needs that nothing is lost and that the outbox rises (`BoxPart`): each
older write is done, sent, or goes out in the same flush. `HostPart` says that the cache
holds exactly what was executed, no key twice, so that it never overflows (`CacheHasRoom`,
by the pigeonhole principle) and knows every write sent again. Each action of the code is
then a step of `RetainedWrites` or none (`PromiseStep`).

`TurnQueueProofs` proves `Invariant`, that `IInv` of a thread is inductive, and from it all that
the run `TurnQueue` checks of single states. A handler of the loop is a chain of operators on
`host`, and each has a lemma that takes a record that `Fits` to one that `Fits`; an action is
a few of them in a row. What `Fits` says:

- `ProcessFits`: a process that does not run was told nothing, told nothing, and nothing of a
  turn, a delivery or a task is believed;
- `QueueFits`: entries have ids of their own, and no text is in two of them;
- `SubmissionFits`: the entry in delivery is in the queue, and one prompt with its texts is
  on its way, as a command not read or as an acceptance not taken, or the end of the process
  is;
- `WorkFits`: behind every flag that is set the process has work left, or the end is on its
  way; the same of every event on its way that will set one. Without the second half the
  first is not inductive: an acceptance sets the flag when it is taken, and its turn may have
  ended by then. It is here that the order of the events matters;
- `IdleFits`: an idle period that counts has its timer, and nothing is under way;
- `SteersFit`: a steer that is not settled is shown once, and its text is kept for the case
  that the provider rejects it, unless it is another thread's message.

`Accounted` says where each text is, by sets: what is in the queue, what is in the transcript
and what was steered are disjoint, and together with what was taken back or refused they are
all that people wrote. `Keeps` and `Gains` are what a handler may do to it. A message that is
due goes out in a recursive function over the queue (`FireViewed`); that it keeps `Fits` is
proved by the least index at which it would not (`LeastNatural`), which needs no induction
theorem. From the invariant follow `TypeCorrect`, `NothingLost`, `OnceInTheTranscript`,
`OneAtATime`, `WorkEnds` and `TimersGo`.

`ChildReportsProofs` proves `ChildInvariance`. `OwedIsComing` is not inductive: it does not
know what is in the child's queue. `WaitPart` says that a child its lead waits for is not
fully idle, which is what `settle_child_expectation` itself looks at; `ChildPart` says that
while the provider reads, what is in the queue is on its way (`Served`), that a thread which
is not in the memory has nothing to do, and that a provider nobody listens to is at rest.
`SettlesTalks` is the heart: whichever way a turn ends, a child that still owes a report after
it has something to do, unless the user stopped it. From the invariant follow
`ChildTypesHold` and `TheWaitEnds` (`OwedIsComing`).

`NewsInvariance`, in the same module, gives `ToldOnce` and `AnswersTheMessage`, which look back at all callbacks
made, from what the child's record remembers of its debt (`NewsPart`): of a debt that is
still owed nothing was told, what was told of it is no newer than the report the record
remembers, and the reports that are newer were made after the lead's message. `TellNews`
shows once that a callback under these conditions keeps all of it; each path to a callback
is a lemma that shows the conditions.

`SubscriptionsProofs` proves `FlowHolds`: `Flow` is inductive, for any clients, rows, windows
and upsets, `"lag"` among them. `SubscriberIsServed` alone is far from inductive, because the
mux decides when it reads a line and the host when it reads the mux, with answers under way
the other way. What `Flow` says:

- `Types`, with the hydration's cut no later than the log;
- `LinksFit`, `AllLinesFit`: a link waits for its newest request only, and a connection that
  ended has one line at most that was not read, before the end;
- `Unique`, `FlightsFit`: a request that left its link is with the host's channel, with the
  read of the log or in an answer, in one of them and once, and is older than what its link
  and its connection's lines still hold;
- `MuxFits`: if somebody has the topic, or a request that the host has seen is still pending,
  the host is `Serving`, which is subscribed with no release behind it in the channel; a
  release in the channel is ahead of every request still pending; a release put off has
  somebody to wait for; and if nobody has the topic and nothing is put off, the host serves
  it only for a request still pending, or is about to be told to stop;
- `OrderFits`: windows and events on their way to a client rise, come after what its replica
  holds, and end with what was sent (`Sent`: the log, or its cut while it is read).

`SubscribersAreServed` and `NothingStaysOn` are then two lines each.

`ReplicaProofs` proves `ReplicasFit` over `Flow`. An event names no row, so a replica is right
only if everything that still reaches it is: a `Source` is the replica with its baseline, or
the window its link waits for, in the store's queue; behind each source every row that was
sent comes, in the queue or with the host's messages (`CoverFits`). `StepFits` is what makes
that hold when a step changes the sources: the scope of a connection is first in the queue, so
that a replica of the old one loses its baseline before anything of the new one is counted; a
store with its baseline waits for no answer; the connection of a source is among the
subscribers, so that the mux does not pass it by, and the host knows that it shows its thread,
so that no held record goes to nobody. A window is cut from the log at the moment it is
answered, and its awaited answer carries all rows to `total`, which the rest follows
(`Follows`). From it follow `ReplicasAreTheLog` and `ReplicasOnlyGrow`. Both have the
hypothesis `"lag" \notin Upsets`, which the run has too, and claim nothing after a `gap`, as
`ReplicaIsTheLog` itself says; without the hypothesis they are false (section 5).

`PullRequestWatchProofs` proves `Invariance`, for any threads, checks, required checks and
limits. `ToldOnce`, `KnownIsTold` and `CacheIsCurrent` are not inductive: whether they stay true
depends on what the watch will take for news the next time, and on what is queued or saved
meanwhile. `IInv` has these parts, for each thread (`Fits`) and for what is saved of it
(`SavedFits`):

- `Once`, with `HeldOnce`: what is queued, what was given since the last restart and what waits
  are apart, except that the wake that waits begins with what is queued of it (`IsPrefix`), which
  is what lets an acceptance strip it and deliver the rest;
- `Knowing`: nothing of that is news to the watch again, whatever the next read shows, unless the
  watch is at its end. A remark is behind the watermark, or at it and noted. A failure belongs to a
  run that is over, or the watch has it among `failed` and it lasts; a pass likewise, by the gate
  of required checks. Without the numbers of the runs this cannot be said, and `ToldOnce`
  would be false of a check that fails twice;
- `ToldFits`: what the watch takes its agent to know was given or waits, and a watch at its end
  has said why. It holds of what is saved too, because the watermark and the wake are one write;
- `CacheFits` and `ReadingFits`: a remark that is still news to a watch compared with the cached
  read came after the fingerprint kept with it. While a pass reads, this must hold of the
  fingerprint it will keep, too, and of a pass that reads no remarks it holds only because its
  fingerprint counts as many as the cached one;
- `PassFits`: no target of a pass is at its end, so that no watch ends twice.

`DeliverFits`, `AcceptFits`, `EvaluateFits` and their like say that an operator on a thread keeps
`Fits`; `Keeps` is what deliveries leave of the watch, `Follows` what a hop of a pass does. A
change of the pull request is `Moved`, and what a watch knows outlives it (`WatchOutlives`): heads,
runs and clocks only rise. What people and providers do is `Steady`: a pass under way finds the
watches it was begun for, or newer ones; a restart ends the pass. From the invariant follow `TypesHold`,
`NewsIsToldOnce`, `KnowledgeIsTold` and `CacheMissesNothing`; `EndsAreExplained` (`EndsAreTold`) is
about a step, by `NextStep`, which shows for every action that a watch it ends was asked to or has
told its agent why.

The proofs use the named assumptions only: machine ids are numbers (for their order),
limits are positive, the absent group and device are no groups or devices, the writes are
numbered and some of them run in tasks (`WritesAssumption`, `LimitsAssumption`), what
providers can do is yes or no and the bounds are numbers (`CapsAssumption`,
`BoundsAssumption`), and the value for what is absent is no number, request, hydration,
replica or line, or no wake, watch or pass (`NoneAssumption`). The checks of a pull request are
finitely many (`ChecksAssumption`).

A leaf that cites `SMTT(60)` or `ZenonT(60)` is one the named prover needs seconds for: the
longer limit keeps its proof from depending on how busy the machine is.

Only model-checked: liveness, which is outside of the prover (`GroupConverges`,
`EveryWriteSettles`, `EveryMessageSettles`, `EveryoneCatchesUp`, `EveryMessageIsAnswered`).
`RemovalNeedsInvitation`, `ExecutedInOrder` and `ReconnectReplays` do not hold.

## 5. Where the code and its documentation disagree

With a run:

1. `RemovalUndone`: a removed machine that refreshes its own entry twice before it hears
   of the removal (`host.rs:1940`) outranks it and is a member again, without the
   invitation that `group.rs:12` calls the one way in.
2. `OutOfOrder`: after a reconnect asked for by the app, the transport drops what it
   holds before the link hears of it (`client.rs:850`); a write made in between is
   executed before older ones, against `docs/remote.md:960`.
3. `ReconnectStalls`: a store that applies a live event of the old connection after the
   link has asked anew retires that request (`client/src/lib.rs:822`), and the thread stays
   Syncing, against `docs/remote.md:939`.

Met while modelling, without a run of their own; the models contain the behaviour and
state their properties so that they hold beside it, or leave the part out:

- A connection that is lost again before the store has applied its scope leaves the store with
  the baseline of the one before (`ui/src/store/mod.rs:1077`). What that connection sent is
  applied late: its answer is refused, for the link has asked anew, and its live events are
  counted on to the old replica, without the rows of the answer. TLC finds it with `"lag"`
  and two losses, as a violation of `ReplicaIsTheLog`.
- A log that is read again while somebody shows its thread holds its new records; the
  subscription of another client turns it live (`history.rs:1107`), and the held ones are
  sent to nobody who was there before, against `history.rs:941`.
- A device that pairs while `join_group` dials (`host.rs:1667`, `1692`) stays outside of the
  group, against `docs/remote.md:108`.
- `accept_join` (`host.rs:1988`) counts members, `is_valid` counts removed machines too: a
  group can reach a state that no member takes from another.
- A command that runs in a task (`pipe.rs:413`) is not yet in the cache; sent again it is
  started a second time, against `docs/remote.md:968`.
- A report for a parked thread with a submitted prompt (`send.rs:322`) restarts the provider
  for changed settings in the middle of it, and so does a due scheduled message
  (`send.rs:163`): both look at background tasks only, while `active_session.rs:389` says
  such a restart must not kill "a turn whose provider delivery acknowledgement has not
  landed yet". The prompt is submitted again.
- A report steered into a lead's turn is lost when the provider rejects the steer, and
  dropped when the lead's channel is closed (`orchestrate.rs:1695`); the expectation says
  Reported all the same, which is "the child's report reached the lead"
  (`core/src/settlement.rs:147`).
- A lead's message steered into a child's turn and then rejected is lost: `deliver_to_child`
  does not keep it (`orchestrate.rs:1369`), as `send.rs:739` does for a person's, against
  `events.rs:377`.
- A message to a child that is not resident, or whose transcript is still being read,
  remembers no earlier report (`orchestrate.rs:833`): the old one is then delivered as its
  answer, against "A report made before this message answers the previous one"
  (`orchestrate.rs:831`).
- A lead whose provider closes takes its parked children out of the memory
  (`lifecycle.rs:640`); their reports stay owed and nothing brings them.
- A parked child that dies with work queued, the reminder too, stays owing until somebody
  opens it (`events.rs:82`).
- A message sent while a switch of provider waits for its confirmation is dropped
  (`send.rs:206`); with messages waiting, a restart at the end of a turn launches the new
  provider without the confirmation (`events.rs:589`).
- A blocked turn clears the queue and not `delivery_in_flight` (`events.rs:410`).
- A goal that was asked for during a launch goes out in place of the queue
  (`lifecycle.rs:246`).
- A scheduled message that is due and under way makes the scheduler re-arm at once, again
  and again (`send.rs:71`).
- A launch with an empty queue leaves a provider without an idle timer until its next turn.
- A line `Subscribe` that was not read when a connection ended outlives an immediate
  reconnect, and the host serves a client that has left.
- A wake steered into a running turn is acknowledged when it is sent
  (`pull_request_watch.rs:753`), not, as `core/src/pull_request_watch.rs:31` says, when "the
  provider accepts it": a rejected steer or a provider's death loses the news.
- `shutdown_to_idle` (`active_session.rs:437`) leaves `timeline.turn_retry` set. When the next
  process starts without a turn, the retry of the old one is offered again
  (`snapshots.rs:1152`); `retry_turn` then marks a turn in flight (`send.rs:819`) for a
  command that the new process ignores (`codex.rs:858`), and nothing takes the mark back.
- Only `SendTurn` resets `interrupted` of a Codex session (`codex.rs:843`): a compaction
  asked for after an interrupted turn is interrupted as it starts (`codex.rs:2276`).
- A remark made in the second in which a watch started, after it, is older than the watch by
  the forge's clock (`core/src/pull_request_watch.rs:270`) and never told.
- A check that runs again and fails again between two passes is told once; two checks that
  swap their results leave the fingerprint alone until the half-hour read.

## 6. Plan

Done: `GroupState`, `MachineGroup` and their proofs; `RetainedWrites`, `Delivery` and its
proofs; `TurnQueue` and its proofs; `Subscriptions` and its proofs; `PullRequestWatch` and its proofs;
`ChildReports` and its proofs.

Left, most important behaviour first:

1. `StoreWriter`: batches, failures and barriers (`store_write.rs`), under `Subscriptions`'
   rows and `PullRequestWatch`'s saves, which take a write for done some time.
2. Goals, retries and interrupts in `TurnQueue`; queries in `Delivery`.

**Not modelled**, and why. The interface, the shells and the terminals render what the
replicas hold and keep little state of their own; the two tasks that matter to ordering
are in `Delivery` and `Subscriptions`. The provider adapters translate the protocols of
programs outside of the repository: `TurnQueue` takes what they promise, an event for each
command and an end for each turn, as the environment. Services, tool servers and discovery
are input and output around other programs. Authorization, the protocol and the folds of
`core` are pure tables and data types, for unit tests rather than for interleavings. Most
of the repository's lines are in these parts.
