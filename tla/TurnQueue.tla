------------------------------- MODULE TurnQueue -------------------------------
(***************************************************************************)
(* One thread of the host: the messages that wait for a turn, the provider *)
(* process that takes them, and the timers that send a scheduled message   *)
(* or reap an idle provider (src/crates/runtime/src/app: active_session,   *)
(* send, lifecycle, events, and the parts of sessions, options and         *)
(* orchestrate that call them).                                            *)
(*                                                                         *)
(* The host's event loop runs one handler at a time, so that each handler  *)
(* is one action.  A handler is written as the code is: operators that     *)
(* take the state of the loop and return the next one, composed in the     *)
(* order of the calls.  Between two handlers a launch ends, the provider   *)
(* takes a command or ends a turn, a timer fires, or somebody acts.        *)
(*                                                                         *)
(* A text is the number of a message somebody wrote.  Native rewinds,      *)
(* provider retries, goals and the first worktree of a draft are left out. *)
(***************************************************************************)
EXTENDS Naturals, Sequences, FiniteSets, SequencesExt

CONSTANTS
  MaxTexts,   \* bound: the messages people and children write
  MaxUpsets,  \* bound: what people and providers do beside writing messages
  Upsets      \* what they do of it in this instance

Texts == 1..MaxTexts
Kinds == {"schedule", "settings", "relay", "place", "steer", "compact", "task",
          "death", "withdraw", "callback", "move", "archive"}

ASSUME BoundsAssumption == MaxTexts \in Nat /\ MaxUpsets \in Nat
ASSUME UpsetsAssumption == Upsets \subseteq Kinds

VARIABLES
  host,      \* what the host's loop holds of the thread: a record, see Fresh
  agent,     \* the provider process in use: a turn is open, prompts it still has to
             \*   finish, a background task runs
  events,    \* events[g]: what provider process g reported and the loop has not taken,
             \*   for the processes g of which there is something
  said,      \* the user messages of the transcript, in order
  steered,   \* texts shown in the transcript as steers
  calls,     \* history: the texts a child thread wrote
  withdrawn, \* history: the texts somebody took back
  written,   \* history: the texts written so far are 1..written
  upsets     \* history: how much of MaxUpsets is used

log == <<said, steered>>
history == <<calls, withdrawn, written>>
vars == <<host, agent, events, log, history, upsets>>

-------------------------------------------------------------------------------
(* The state of the loop *)

\* A thread nobody has opened.  place: viewed, parked or in neither map of the host;
\* gen: the start in use; reading: its command channel is open; queue: entries
\* [id, texts, when, kind]; delivery: the entry submitted and not yet accepted; turn and
\* tasks: the flags the loop keeps of the provider's work; running: the timeline's;
\* settings: whether what is selected is what the provider was launched with; relay: a
\* preview of another provider is open; request: a compaction waits for the start;
\* steers: steers the provider has not answered; idle: when it last went idle; inbox:
\* commands on their way to the provider; swallowed: texts taken for a send that was
\* then refused.  starts, launching, alarm and timers outlive the thread's residency.
Fresh ==
  [place |-> "none", runtime |-> "idle", gen |-> 0, reading |-> FALSE,
   queue |-> <<>>, next |-> 1, delivery |-> 0,
   turn |-> FALSE, tasks |-> FALSE, running |-> FALSE,
   settings |-> "launched", relay |-> FALSE, request |-> FALSE,
   steers |-> {}, idle |-> 0, inbox |-> <<>>, swallowed |-> {},
   starts |-> 0, launching |-> {}, alarm |-> FALSE, timers |-> {}]

Resting == [open |-> FALSE, prompts |-> 0, task |-> FALSE]
Command(what, id, texts) == [do |-> what, id |-> id, texts |-> texts]
Event(what, id, texts) == [is |-> what, id |-> id, texts |-> texts]
Untaken(told, g) == IF g \in DOMAIN told THEN told[g] ELSE <<>>

Live(h) == h.runtime = "live"
Changed(h) == Live(h) /\ h.settings # "launched"
Moved(h) == Live(h) /\ h.settings = "cwd"
HasWork(h) == h.turn \/ h.tasks \/ h.delivery # 0 \/ h.queue # <<>>
Deferred(h) == Changed(h) /\ (h.turn \/ h.tasks \/ h.delivery # 0)
QueuedTexts(h) == UNION {ToSet(h.queue[i].texts) : i \in DOMAIN h.queue}
Due(h) == {i \in DOMAIN h.queue : h.queue[i].when = "due"}
Timed(h) == {i \in DOMAIN h.queue : h.queue[i].when # "now"}
Ready(h) == {i \in DOMAIN h.queue : h.queue[i].when # "later"}
First(s) == CHOOSE i \in s : \A j \in s : i <= j

-------------------------------------------------------------------------------
(* What the handlers are made of *)

Push(h, texts, when, kind) ==
  [h EXCEPT !.idle = 0, !.next = @ + 1,
            !.queue = Append(@, [id |-> h.next, texts |-> texts, when |-> when, kind |-> kind])]

\* Mutant: a merged callback joins whatever callback is in the queue.
PushCallbackMutant(h, m) ==
  LET waiting == {i \in DOMAIN h.queue : h.queue[i].kind = "callback"}
  IN IF waiting = {} THEN Push(h, <<m>>, "now", "callback")
     ELSE [h EXCEPT !.idle = 0, !.queue[First(waiting)].texts = Append(@, m)]

\* A callback joins one that waits, unless that one is already on its way.
PushCallback(h, m) ==
  LET waiting == {i \in DOMAIN h.queue : h.queue[i].kind = "callback"
                                           /\ h.queue[i].id # h.delivery}
  IN IF waiting = {} THEN Push(h, <<m>>, "now", "callback")
     ELSE [h EXCEPT !.idle = 0, !.queue[First(waiting)].texts = Append(@, m)]

\* Mutant: the head of the queue is taken for the entry that was meant.
TakeMutant(h, i) == [h EXCEPT !.queue = Tail(@)]

\* Takes an entry out of the queue; one that is on its way stays.
Take(h, i) == [h EXCEPT !.queue = RemoveAt(@, i)]

Takeable(h) == {i \in DOMAIN h.queue : h.queue[i].id # h.delivery}

CanDispatch(h) ==
  Live(h) /\ ~h.turn /\ h.delivery = 0 /\ ~Deferred(h) /\ Ready(h) # {}

\* The entry stays in the queue until the provider accepts it.  A closed channel
\* refuses the command, and nothing changes.
Dispatch(h) ==
  IF CanDispatch(h) /\ h.reading
  THEN LET next == h.queue[First(Ready(h))]
       IN [h EXCEPT !.delivery = next.id, !.idle = 0,
                        !.inbox = Append(@, Command("turn", next.id, next.texts))]
  ELSE h

\* Mutant: a delivery that was under way is still waited for.
ForgetMutant(h) ==
  [h EXCEPT !.runtime = "idle", !.gen = 0, !.reading = FALSE, !.inbox = <<>>,
            !.turn = FALSE, !.tasks = FALSE, !.request = FALSE]

\* The process is gone or let go: what it was doing is over as far as the loop knows.
Forget(h) ==
  [h EXCEPT !.runtime = "idle", !.gen = 0, !.reading = FALSE, !.inbox = <<>>,
            !.delivery = 0, !.turn = FALSE, !.tasks = FALSE, !.request = FALSE]

ShutDown(h) == [Forget(h) EXCEPT !.idle = 0]

\* The thread leaves memory, and with it everything that is not stored.
Evict(h) ==
  [Fresh EXCEPT !.starts = h.starts, !.launching = h.launching, !.timers = h.timers,
                !.alarm = h.alarm, !.swallowed = h.swallowed]

EnsureStarted(h) ==
  IF h.place # "none" /\ h.runtime = "idle"
  THEN [h EXCEPT !.runtime = "starting", !.gen = h.starts + 1, !.starts = @ + 1,
                 !.launching = @ \union {h.starts + 1}, !.idle = 0, !.settings = "launched"]
  ELSE h

\* A timer is set for every new idle period; a live provider keeps the one it is in.
MarkIdle(h) ==
  IF h.place = "none" \/ HasWork(h) \/ (Live(h) /\ h.idle # 0) THEN h
  ELSE LET now == First((1..(Cardinality(h.timers) + 2)) \ (h.timers \union {h.idle}))
       IN [h EXCEPT !.idle = now, !.timers = @ \union {now}]

\* The timer of the earliest deadline replaces the one before.
Reschedule(h) == [h EXCEPT !.alarm = (Timed(h) # {})]

\* send_turn_assembled: a message goes through the queue, and the provider restarts
\* first where the settings changed and nothing of it runs.
SendTurn(h, texts) ==
  IF h.relay THEN [h EXCEPT !.swallowed = @ \union ToSet(texts)]
  ELSE LET pushed == Push(h, texts, "now", "user")
       IN IF Deferred(pushed) THEN pushed
          ELSE EnsureStarted(Dispatch(IF Changed(pushed) THEN ShutDown(pushed) ELSE pushed))

\* Mutant: what waits is sent only when a settings restart brought a new provider.
CompletedParkedMutant(h) ==
  LET done == [h EXCEPT !.turn = FALSE]
  IN CASE done.queue # <<>> /\ Changed(done) ->
            IF done.tasks THEN done ELSE EnsureStarted(ShutDown(done))
       [] done.queue # <<>> /\ ~Changed(done) -> done
       [] done.queue = <<>> ->
            IF done.tasks THEN done ELSE MarkIdle(IF Moved(done) THEN ShutDown(done) ELSE done)

\* on_background_turn_completed
CompletedParked(h) ==
  LET done == [h EXCEPT !.turn = FALSE]
  IN CASE done.queue # <<>> /\ Changed(done) ->
            IF done.tasks THEN done ELSE EnsureStarted(ShutDown(done))
       [] done.queue # <<>> /\ ~Changed(done) -> Dispatch(done)
       [] done.queue = <<>> ->
            IF done.tasks THEN done ELSE MarkIdle(IF Moved(done) THEN ShutDown(done) ELSE done)

CompletedViewed(h) ==
  LET done == [h EXCEPT !.turn = FALSE]
      restart == done.queue # <<>> /\ Changed(done)
      rested == IF (restart \/ Moved(done)) /\ ~done.tasks THEN ShutDown(done) ELSE done
  IN CASE restart /\ done.tasks -> rested
       [] restart /\ ~done.tasks -> EnsureStarted(rested)
       [] ~restart -> MarkIdle(Dispatch(rested))

Completed(h) ==
  LET over == [h EXCEPT !.running = FALSE]
  IN IF h.place = "viewed" THEN CompletedViewed(over) ELSE CompletedParked(over)

\* Mutant: the thread goes whether or not something waits in it.
ClosedMutant(h) ==
  LET dead == [Forget(h) EXCEPT !.running = FALSE]
  IN IF h.place = "parked" THEN Evict(dead) ELSE dead

\* SessionClosed: a parked thread that has nothing to say is forgotten; text that was
\* never sent keeps the thread.
Closed(h) ==
  LET dead == [Forget(h) EXCEPT !.running = FALSE]
  IN IF h.place = "parked" /\ h.queue = <<>> THEN Evict(dead) ELSE dead

\* queue_automatic_turn: what a child thread reports waits behind the running turn.
QueueAutomatic(h, m) ==
  IF h.place = "viewed"
  THEN LET pushed == PushCallback(h, m)
       IN IF Deferred(pushed) THEN pushed
          ELSE EnsureStarted(Dispatch(IF Changed(pushed) THEN ShutDown(pushed) ELSE pushed))
  ELSE LET pushed == PushCallback([h EXCEPT !.place = "parked"], m)
       IN EnsureStarted(IF Live(pushed) /\ ~pushed.turn THEN CompletedParked(pushed) ELSE pushed)

\* steer_assembled: only a running turn of a live provider can be steered.
CanSteer(h) == h.turn /\ Live(h)
Steered(h, texts) ==
  LET asked == [h EXCEPT !.steers = @ \union {texts}]
  IN IF h.reading THEN [asked EXCEPT !.inbox = Append(@, Command("steer", 0, texts))] ELSE asked

\* A scheduled message whose time has come goes through the ordinary send again.
Refire(h, id) ==
  LET at == {i \in Takeable(h) : h.queue[i].id = id}
  IN IF at = {} THEN h ELSE SendTurn(Take(h, First(at)), h.queue[First(at)].texts)

FireViewed(h) ==
  LET fired[n \in 0..Len(h.queue)] ==
        IF n = 0 THEN h
        ELSE IF n \in Due(h) THEN Refire(fired[n - 1], h.queue[n].id) ELSE fired[n - 1]
  IN fired[Len(h.queue)]

FireParked(h) ==
  LET ready == [h EXCEPT !.queue =
        [i \in DOMAIN @ |-> IF @[i].when = "due" THEN [@[i] EXCEPT !.when = "now"] ELSE @[i]]]
  IN CASE Changed(ready) -> IF ready.tasks THEN ready ELSE EnsureStarted(ShutDown(ready))
       [] ~Changed(ready) -> EnsureStarted(Dispatch(ready))

-------------------------------------------------------------------------------
(* What people, child threads and the provider's own turns do *)

\* One handler ran.  The process the loop lets go of does nothing any more, and the
\* one it starts has done nothing yet.
Handled(next) ==
  \E h \in {next} :
    /\ host' = h
    /\ agent' = IF h.gen = host.gen THEN agent ELSE Resting

Upset(kind) == kind \in Upsets /\ upsets < MaxUpsets /\ upsets' = upsets + 1

NewText == written + 1
Write == written < MaxTexts /\ written' = NewText
Resident == host.place # "none"

\* select_session: a parked thread comes back as it was.
Select ==
  /\ host.place # "viewed"
  /\ Handled(IF host.place = "none" THEN [host EXCEPT !.place = "viewed"]
             ELSE LET seen == Dispatch([host EXCEPT !.place = "viewed"])
                  IN Reschedule(IF host.queue # <<>> THEN EnsureStarted(seen) ELSE seen))
  /\ UNCHANGED <<events, log, history, upsets>>

\* park_active: a thread with nothing to keep is dropped where its log is not held.
Unselect ==
  /\ host.place = "viewed" /\ Upset("place")
  /\ LET parked == Reschedule([host EXCEPT !.place = "parked",
                                          !.idle = IF HasWork(host) THEN 0 ELSE @])
     IN \/ Handled(MarkIdle(parked))
        \/ host.runtime = "idle" /\ ~HasWork(host) /\ Handled(Evict(host))
  /\ UNCHANGED <<events, log, history>>

Send ==
  /\ Resident /\ Write
  /\ Handled(SendTurn(host, <<NewText>>))
  /\ UNCHANGED <<events, log, calls, withdrawn, upsets>>

Schedule ==
  /\ Resident /\ ~host.relay /\ Write /\ Upset("schedule")
  /\ Handled(Reschedule(EnsureStarted(Push(host, <<NewText>>, "later", "user"))))
  /\ UNCHANGED <<events, log, calls, withdrawn>>

Steer ==
  /\ CanSteer(host) /\ Write /\ Upset("steer")
  /\ Handled(Steered(host, <<NewText>>))
  /\ steered' = steered \union {NewText}
  /\ UNCHANGED <<events, said, calls, withdrawn>>

SteerQueued ==
  /\ Upset("steer")
  /\ \E i \in Takeable(host) :
       LET texts == host.queue[i].texts
           taken == Take(host, i)
       IN IF CanSteer(host)
          THEN Handled(Reschedule(Steered(taken, texts))) /\ steered' = steered \union ToSet(texts)
          ELSE Handled(Reschedule(SendTurn(taken, texts))) /\ UNCHANGED steered
  /\ UNCHANGED <<events, said, history>>

DropQueued ==
  /\ Upset("withdraw")
  /\ \E i \in Takeable(host) :
       /\ Handled(Reschedule(Take(host, i)))
       /\ withdrawn' = withdrawn \union ToSet(host.queue[i].texts)
  /\ UNCHANGED <<events, log, calls, written>>

MoveQueued ==
  /\ Upset("move")
  /\ \E i, j \in DOMAIN host.queue :
       i # j /\ Handled([host EXCEPT !.queue = InsertAt(RemoveAt(@, i), j, @[i])])
  /\ UNCHANGED <<events, log, history>>

\* Another model or option, or a move to another directory by the agent itself.
ChangeSettings ==
  /\ host.place = "viewed" /\ host.runtime # "idle" /\ host.settings = "launched"
  /\ Upset("settings")
  /\ Handled([host EXCEPT !.settings = "model"])
  /\ UNCHANGED <<events, log, history>>

MoveByOwnTurn ==
  /\ Live(host) /\ agent.open /\ Upset("settings")
  /\ Handled([host EXCEPT !.settings = "cwd"])
  /\ UNCHANGED <<events, log, history>>

PickProvider ==
  /\ host.place = "viewed" /\ ~host.relay /\ said # <<>> /\ Upset("relay")
  /\ Handled([host EXCEPT !.relay = TRUE,
                          !.settings = IF host.runtime = "idle" THEN @ ELSE "model"])
  /\ UNCHANGED <<events, log, history>>

UnpickProvider ==
  /\ host.relay
  /\ Handled([host EXCEPT !.relay = FALSE])
  /\ UNCHANGED <<events, log, history, upsets>>

\* confirm_relay_and_send: the turn that is cut off is closed before the message waits.
ConfirmRelay ==
  /\ host.relay /\ Write
  /\ LET cut == ShutDown([host EXCEPT !.relay = FALSE])
         closed == IF cut.running THEN Completed(cut) ELSE cut
     IN Handled(EnsureStarted(Push(closed, <<NewText>>, "now", "user")))
  /\ UNCHANGED <<events, log, calls, withdrawn, upsets>>

\* compact_context: a provider that does not run is started for it.
Compact ==
  /\ Resident /\ ~host.turn /\ host.delivery = 0 /\ ~host.running /\ Upset("compact")
  /\ IF Live(host)
     THEN host.reading /\ Handled([host EXCEPT !.inbox = Append(@, Command("compact", 0, <<>>))])
     ELSE Handled(EnsureStarted([host EXCEPT !.request = TRUE]))
  /\ UNCHANGED <<events, log, history>>

Archive ==
  /\ Resident /\ ~HasWork(host) /\ Upset("archive")
  /\ Handled(Evict(host))
  /\ UNCHANGED <<events, log, history>>

\* deliver_orchestrate_callback_to_parent: what a child reports joins the running turn
\* and is not kept as a steer of the thread's own.
Callback ==
  /\ Upset("callback") /\ Write
  /\ calls' = calls \union {NewText}
  /\ IF CanSteer(host)
     THEN /\ Handled([Steered(host, <<NewText>>) EXCEPT !.steers = host.steers])
          /\ steered' = steered \union {NewText}
     ELSE Handled(QueueAutomatic(host, NewText)) /\ UNCHANGED steered
  /\ UNCHANGED <<events, said, withdrawn>>

-------------------------------------------------------------------------------
(* The launch *)

\* A start that was superseded, or whose thread is gone, is let go of as it arrives.
StaleLaunch ==
  /\ \E g \in host.launching :
       /\ ~(host.runtime = "starting" /\ host.gen = g)
       /\ Handled([host EXCEPT !.launching = @ \ {g}])
  /\ UNCHANGED <<events, log, history, upsets>>

Arriving == host.runtime = "starting" /\ host.gen \in host.launching

\* A compaction asked for meanwhile goes first, in place of the queue.
LaunchSucceeds ==
  /\ Arriving
  /\ LET up == [host EXCEPT !.launching = @ \ {host.gen}, !.runtime = "live", !.reading = TRUE]
     IN Handled(CASE up.request ->
                       [up EXCEPT !.request = FALSE, !.inbox = <<Command("compact", 0, <<>>)>>]
                  [] ~up.request /\ up.place = "viewed" -> Dispatch(up)
                  [] ~up.request /\ up.place = "parked" -> CompletedParked(up))
  /\ UNCHANGED <<events, log, history, upsets>>

\* The queue is kept, and so is a compaction asked for.
LaunchFails ==
  /\ Arriving /\ Upset("death")
  /\ Handled([host EXCEPT !.launching = @ \ {host.gen}, !.runtime = "idle", !.gen = 0,
                          !.delivery = 0, !.turn = FALSE, !.tasks = FALSE])
  /\ UNCHANGED <<events, log, history>>

-------------------------------------------------------------------------------
(* The provider process in use *)

Running == Live(host) /\ host.reading
Tells(news) ==
  events' = [g \in DOMAIN events \union {host.gen} |->
              IF g = host.gen THEN Untaken(events, g) \o news ELSE events[g]]
Reads(what) ==
  /\ Running /\ host.inbox # <<>> /\ Head(host.inbox).do = what
  /\ host' = [host EXCEPT !.inbox = Tail(@)]
ProviderOnly == UNCHANGED <<log, history, upsets>>

\* The prompt is with the provider: that is what an acceptance says.
TakesTurn ==
  /\ Reads("turn")
  /\ Tells(<<Event("accepted", Head(host.inbox).id, Head(host.inbox).texts)>>)
  /\ agent' = [agent EXCEPT !.prompts = @ + 1]
  /\ ProviderOnly

\* Compaction is a turn of the provider's own.
TakesCompact ==
  /\ Reads("compact")
  /\ agent' = [agent EXCEPT !.prompts = @ + 1]
  /\ UNCHANGED events /\ ProviderOnly

\* A steer that meets no running turn, or that its turn no longer takes in, is rejected
\* by most providers.
TakesSteer ==
  /\ Reads("steer")
  /\ LET texts == Head(host.inbox).texts
     IN \/ Tells(<<Event("steerAccepted", 0, texts)>>)
        \/ Tells(<<Event("steerRejected", 0, texts)>>)
  /\ UNCHANGED agent /\ ProviderOnly

\* Mutant: a turn begins with nothing to work on.
BeginsMutant ==
  /\ Running /\ ~agent.open
  /\ agent' = [agent EXCEPT !.open = TRUE]
  /\ Tells(<<Event("started", 0, <<>>)>>)
  /\ UNCHANGED host /\ ProviderOnly

Begins ==
  /\ Running /\ ~agent.open /\ agent.prompts > 0
  /\ agent' = [agent EXCEPT !.open = TRUE]
  /\ Tells(<<Event("started", 0, <<>>)>>)
  /\ UNCHANGED host /\ ProviderOnly

\* A result carries the background tasks that are left before it ends the turn.
Finishes ==
  /\ Running /\ agent.open
  /\ agent' = [agent EXCEPT !.open = FALSE, !.prompts = @ - 1]
  /\ Tells(<<Event("tasks", IF agent.task THEN 1 ELSE 0, <<>>), Event("completed", 0, <<>>)>>)
  /\ UNCHANGED host /\ ProviderOnly

StartsTask ==
  /\ Running /\ agent.open /\ ~agent.task /\ Upset("task")
  /\ agent' = [agent EXCEPT !.task = TRUE]
  /\ Tells(<<Event("tasks", 1, <<>>)>>)
  /\ UNCHANGED <<host, log, history>>

\* Its end opens a turn of the provider's own, and only that turn's result reports it.
EndsTask ==
  /\ Running /\ agent.task
  /\ agent' = [agent EXCEPT !.task = FALSE, !.prompts = @ + 1]
  /\ UNCHANGED <<host, events>> /\ ProviderOnly

\* The process ends.  Whether it says so or only its event stream ends, the loop hears
\* of it after everything else the process had reported.
Dies ==
  /\ Running /\ Upset("death")
  /\ agent' = Resting
  /\ host' = [host EXCEPT !.reading = FALSE]
  /\ Tells(<<Event("closed", 0, <<>>)>>)
  /\ UNCHANGED <<log, history>>

-------------------------------------------------------------------------------
(* The loop takes what a process reported *)

\* Mutant: whatever a process reports reaches the thread while a provider is live.
CurrentMutant(g) == Live(host)

\* Only what the process in use reports has an effect.
Current(g) == Live(host) /\ host.gen = g

\* What is left once the first event of process g is taken.
AfterFirst(g) ==
  [p \in IF Len(events[g]) = 1 THEN DOMAIN events \ {g} ELSE DOMAIN events |->
     IF p = g THEN Tail(events[p]) ELSE events[p]]

Takes(g, what) ==
  /\ Current(g) /\ Head(events[g]).is = what
  /\ events' = AfterFirst(g)

StaleEvent ==
  /\ \E g \in DOMAIN events : ~Current(g) /\ events' = AfterFirst(g)
  /\ UNCHANGED <<host, agent, log, history, upsets>>

\* Mutant: a turn the provider opens by itself leaves the idle period standing.
TurnStartedMutant(h) == [h EXCEPT !.turn = TRUE, !.running = TRUE]

TurnStarted(h) == [h EXCEPT !.turn = TRUE, !.idle = 0, !.running = TRUE]

OnStarted(g) ==
  /\ Takes(g, "started")
  /\ Handled(TurnStarted(host))
  /\ UNCHANGED <<log, history, upsets>>

\* accept_turn_delivery: only the entry on its way is accepted, and only once.
Accepted(h, id) == {i \in DOMAIN h.queue : h.delivery = id /\ h.queue[i].id = id}

OnAccepted(g) ==
  /\ Takes(g, "accepted")
  /\ LET at == Accepted(host, Head(events[g]).id)
     IN IF at = {} THEN UNCHANGED <<host, agent, said>>
        ELSE /\ Handled([Take(host, First(at)) EXCEPT !.delivery = 0, !.turn = TRUE, !.idle = 0])
             /\ said' = said \o host.queue[First(at)].texts
  /\ UNCHANGED <<steered, history, upsets>>

TasksChanged(h, n) ==
  LET told == [h EXCEPT !.tasks = (n > 0), !.idle = IF n > 0 THEN 0 ELSE @]
  IN IF n = 0 THEN MarkIdle(told) ELSE told

OnTasks(g) ==
  /\ Takes(g, "tasks")
  /\ Handled(TasksChanged(host, Head(events[g]).id))
  /\ UNCHANGED <<log, history, upsets>>

OnCompleted(g) ==
  /\ Takes(g, "completed")
  /\ Handled(Completed(host))
  /\ UNCHANGED <<log, history, upsets>>

OnClosed(g) ==
  /\ Takes(g, "closed")
  /\ Handled(Closed(host))
  /\ UNCHANGED <<log, history, upsets>>

OnSteerAccepted(g) ==
  /\ Takes(g, "steerAccepted")
  /\ Handled([host EXCEPT !.steers = @ \ {Head(events[g]).texts}])
  /\ UNCHANGED <<log, history, upsets>>

\* The bubble goes, and what the thread keeps as a steer of its own is sent as a turn.
OnSteerRejected(g) ==
  /\ Takes(g, "steerRejected")
  /\ LET texts == Head(events[g]).texts
     IN /\ steered' = steered \ ToSet(texts)
        /\ IF texts \in host.steers
           THEN Handled(SendTurn([host EXCEPT !.steers = @ \ {texts}], texts))
           ELSE UNCHANGED <<host, agent>>
  /\ UNCHANGED <<said, history, upsets>>

-------------------------------------------------------------------------------
(* The timers *)

TimePasses ==
  /\ \E i \in DOMAIN host.queue :
       host.queue[i].when = "later" /\ host' = [host EXCEPT !.queue[i].when = "due"]
  /\ UNCHANGED <<agent, events, log, history, upsets>>

FireDueScheduled ==
  /\ host.alarm /\ Due(host) # {}
  /\ Handled(Reschedule(IF host.place = "viewed" THEN FireViewed(host) ELSE FireParked(host)))
  /\ UNCHANGED <<events, log, history, upsets>>

Reaped(h) ==
  CASE HasWork(h) -> h
    [] ~HasWork(h) /\ h.place = "parked" -> Reschedule(Evict(h))
    [] ~HasWork(h) /\ h.place = "viewed" -> IF Live(h) THEN ShutDown(h) ELSE h
    [] ~HasWork(h) /\ h.place = "none" -> h

\* The timer of an idle period acts only in that period.  A period lasts an hour, and
\* a launch that was under way when it began is over before it ends.
Reap ==
  /\ host.runtime # "starting"
  /\ \E t \in host.timers :
       LET off == [host EXCEPT !.timers = @ \ {t}]
       IN Handled(IF host.idle = t THEN Reaped(off) ELSE off)
  /\ UNCHANGED <<events, log, history, upsets>>

\* Too many threads are kept: the one idle for longest is forgotten.
EvictIdle ==
  /\ host.place = "parked" /\ ~HasWork(host) /\ host.idle # 0 /\ Upset("place")
  /\ Handled(Reschedule(Evict(host)))
  /\ UNCHANGED <<events, log, history>>

-------------------------------------------------------------------------------
Init ==
  /\ host = Fresh
  /\ agent = Resting
  /\ events = [g \in {} |-> <<>>]
  /\ said = <<>> /\ steered = {}
  /\ calls = {} /\ withdrawn = {} /\ written = 0
  /\ upsets = 0

People ==
  \/ Select \/ Unselect \/ Send \/ Schedule \/ Steer \/ SteerQueued \/ DropQueued \/ MoveQueued
  \/ ChangeSettings \/ MoveByOwnTurn \/ PickProvider \/ UnpickProvider \/ ConfirmRelay
  \/ Compact \/ Archive \/ Callback

Launch == LaunchSucceeds \/ LaunchFails \/ StaleLaunch
Work == TakesTurn \/ TakesCompact \/ TakesSteer \/ Begins \/ Finishes
Provider == Work \/ StartsTask \/ EndsTask \/ Dies

OnEvent ==
  \/ StaleEvent
  \/ \E g \in DOMAIN events :
       \/ OnStarted(g) \/ OnAccepted(g) \/ OnTasks(g) \/ OnCompleted(g) \/ OnClosed(g)
       \/ OnSteerAccepted(g) \/ OnSteerRejected(g)

Timers == FireDueScheduled \/ Reap

Next == People \/ Launch \/ Provider \/ OnEvent \/ TimePasses \/ Timers \/ EvictIdle

\* The loop keeps taking events and running timers, a launch ends, time passes, and a
\* provider reads its commands and ends its turns.  Nobody has to act, no background
\* task has to end, and no process has to die.
Fairness ==
  /\ WF_vars(Launch) /\ WF_vars(Work)
  /\ WF_vars(OnEvent \/ TimePasses \/ Timers)

Spec == Init /\ [][Next]_vars
FairSpec == Spec /\ Fairness

-------------------------------------------------------------------------------
(* Properties *)

Entries == [id : Nat, texts : Seq(Texts), when : {"now", "later", "due"},
            kind : {"user", "callback"}]
InboxCommands == [do : {"turn", "steer", "compact"}, id : Nat, texts : Seq(Texts)]
Events == [is : {"started", "accepted", "tasks", "completed", "closed", "steerAccepted",
                 "steerRejected"}, id : Nat, texts : Seq(Texts)]

Hosts ==
  [place : {"none", "viewed", "parked"}, runtime : {"idle", "starting", "live"},
   gen : Nat, reading : BOOLEAN, queue : Seq(Entries), next : Nat \ {0},
   delivery : Nat, turn : BOOLEAN, tasks : BOOLEAN, running : BOOLEAN,
   settings : {"launched", "model", "cwd"}, relay : BOOLEAN,
   request : BOOLEAN, steers : SUBSET Seq(Texts),
   idle : Nat, inbox : Seq(InboxCommands), swallowed : SUBSET Texts,
   starts : Nat, launching : SUBSET Nat, alarm : BOOLEAN, timers : SUBSET Nat]

\* Every variable has its type; a provider that works has a prompt to work on.
TypeOK ==
  /\ host \in Hosts
  /\ agent \in [open : BOOLEAN, prompts : Nat, task : BOOLEAN]
  /\ agent.open => agent.prompts > 0
  /\ DOMAIN events \subseteq 1..host.starts
  /\ \A g \in DOMAIN events : events[g] \in Seq(Events) \ {<<>>}
  /\ said \in Seq(Texts) /\ steered \subseteq Texts
  /\ calls \subseteq Texts /\ withdrawn \subseteq Texts /\ written \in 0..MaxTexts
  /\ upsets \in 0..MaxUpsets

\* A message a person wrote is in the queue, in the transcript, taken back, or was
\* refused because a change of provider waits for its confirmation: launches that
\* fail, providers that die, restarts for new settings, parking, eviction and
\* rejected steers lose none.
NothingTypedIsLost ==
  (1..written) \ calls
    \subseteq QueuedTexts(host) \union ToSet(said) \union steered \union withdrawn
             \union host.swallowed

\* A message enters the transcript once: not again after a death or a restart made the
\* host submit it a second time, nor as a turn after it was a steer.
SaidOnce ==
  /\ IsInjective(said)
  /\ ToSet(said) \intersect (QueuedTexts(host) \union steered) = {}
  /\ QueuedTexts(host) \intersect steered = {}

\* Prompts on their way to the provider in use, or accepted by it unheard.
News == IF Live(host) THEN Untaken(events, host.gen) ELSE <<>>
OnTheWay ==
  {[at |-> i, entry |-> host.inbox[i].id, texts |-> host.inbox[i].texts] :
     i \in {j \in DOMAIN host.inbox : host.inbox[j].do = "turn"}}
  \union
  {[at |-> Len(host.inbox) + i, entry |-> News[i].id, texts |-> News[i].texts] :
     i \in {j \in DOMAIN News : News[j].is = "accepted"}}

\* At most one prompt is under way, and it is an entry of the queue, with the same
\* text: what the transcript will show as said is what the provider was given.
OneSubmission ==
  /\ \A p, q \in OnTheWay : p = q
  /\ \A p \in OnTheWay :
       /\ host.delivery = p.entry
       /\ \E j \in DOMAIN host.queue : /\ host.queue[j].id = host.delivery
                                      /\ host.queue[j].texts = p.texts

\* What the host believes of the provider's work has an end in sight: the thread does
\* not sit at "Working" with nobody left to say that the turn, the delivery or the
\* background task is over.
Pending(what) == \E i \in DOMAIN News : News[i].is \in what
WorkingIsReal ==
  /\ host.turn => agent.prompts > 0 \/ Pending({"completed", "closed"})
  /\ host.delivery # 0 => OnTheWay # {} \/ Pending({"closed"})
  /\ host.tasks => agent.task \/ agent.prompts > 0 \/ Pending({"tasks", "closed"})

\* A live provider in an idle period has the timer that ends the period, and a thread
\* with a scheduled message has the timer that sends it.
TimersAreSet ==
  /\ Live(host) /\ host.idle # 0 => host.idle \in host.timers /\ ~HasWork(host)
  /\ Timed(host) # {} => host.alarm

\* A message that waits is on its way, withdrawn or sent some day, unless its provider
\* does not run or is kept from restarting by a background task.
EveryMessageSettles ==
  \A m \in Texts :
    m \in QueuedTexts(host) ~> m \notin QueuedTexts(host) \/ host.runtime = "idle" \/ host.tasks

===============================================================================
