---------------------------- MODULE PullRequestWatch ----------------------------
(***************************************************************************)
(* Threads that watch one pull request: passes of the watch worker read it *)
(* from its forge, news is persisted as a wake together with what the      *)
(* agent is then taken to know, and the wake is delivered to the thread's  *)
(* provider (src/crates/runtime/src/app/pull_request_watch.rs, src/crates/ *)
(* core/src/pull_request_watch.rs).                                        *)
(*                                                                         *)
(* A pass goes through the host's loop and awaits the forge in between;    *)
(* people, the provider and a restart of the host act meanwhile.  What the *)
(* forge answers is taken as of the step that uses it: until then nothing  *)
(* else looks at it.  The threads are of one project, so that their        *)
(* watches share one read.  News is a set of items.  Times are counted in  *)
(* half seconds: the forge tells whole seconds, and a watch starts between *)
(* two of them.                                                            *)
(***************************************************************************)
EXTENDS Naturals, Sequences, FiniteSets, SequencesExt, FiniteSetsExt

CONSTANTS
  Threads,
  Checks,
  Required,         \* the checks the forge says are required
  None,
  WakeLimit,        \* comment-only wakes in a row (WAKE_LIMIT)
  ReadFailureLimit, \* failed reads in a row (READ_FAILURE_LIMIT)
  MaxChanges,       \* bound: watches started and changes of the pull request, together
  MaxUpsets         \* bound: interrupts that pause watches and restarts of the host

ASSUME ChecksAssumption == IsFiniteSet(Checks) /\ Required \subseteq Checks
ASSUME BoundsAssumption ==
  /\ WakeLimit \in Nat \ {0} /\ ReadFailureLimit \in Nat \ {0}
  /\ {MaxChanges, MaxUpsets} \subseteq Nat

VARIABLES
  pr,     \* the pull request at its forge
  host,   \* what the host holds: each thread's watch, queue and turn, with the history
          \*   given, [ever, since, twice]: the news its providers were given, since the
          \*   last restart of the host, and given twice since; and the worker's state
  disk,   \* disk[t]: what is saved of thread t, [watch, paused]
  pass,   \* the pass under way
  starts, \* the watches started so far are 1..starts
  changes, upsets

counts == <<starts, changes, upsets>>
vars == <<pr, host, disk, pass, counts>>

Kinds == {"failed", "passed", "remark", "closed", "merged", "unreadable"}
News == [what : Kinds, of : Checks \union Nat \union {None}, n : Nat, gen : Nat]
Wakes == [id : Nat, text : Seq(SUBSET News), last : BOOLEAN]
Watches ==
  [gen : Nat, head : Nat \union {None}, failed : SUBSET Checks, passed : BOOLEAN,
   passedChecks : SUBSET Checks, from : Nat, through : Nat, ids : SUBSET Nat, wakes : Nat,
   pending : Wakes \union {None}]
Fingerprints ==
  [status : {"open", "closed", "merged"} \X Nat \X [{"pending", "failed", "passed"} -> Nat],
   remarks : Nat]
Passes ==
  [step : {"asked", "reading"}, targets : SUBSET (Threads \X Nat),
   print : Fingerprints \union {None}, activity : BOOLEAN]

ASSUME NoneAssumption == None \notin Wakes \union Watches \union Passes

-------------------------------------------------------------------------------
(* The pull request and what a fresh read of it adds *)

Item(what, of, n, gen) == [what |-> what, of |-> of, n |-> n, gen |-> gen]

\* A new watch takes whatever is not older than itself as news.
NewWatch(gen, at) ==
  [gen |-> gen, head |-> None, failed |-> {}, passed |-> FALSE, passedChecks |-> {},
   from |-> at, through |-> at, ids |-> {}, wakes |-> 0, pending |-> None]

Fingerprint(p) ==
  [status |-> <<p.state, p.head,
                [s \in {"pending", "failed", "passed"} |->
                  Cardinality({c \in Checks : p.checks[c] = s})]>>,
   remarks |-> Len(p.remarks)]

\* Remarks that were made after the watermark, or at it and not told.
Fresh(w, at) == {i \in DOMAIN at : at[i] > w.through \/ (at[i] = w.through /\ i \notin w.ids)}

\* evaluate, of the checks: a failure is told once as long as it lasts, and that the
\* checks passed when the required ones have, or all where none is required.
CheckNews(w, read) ==
  LET moved == read.head # w.head
      known == IF moved THEN {} ELSE w.failed
      failing == {c \in DOMAIN read.checks : read.checks[c] = "failed"}
      demanded == Required \intersect DOMAIN read.checks
      gate == IF demanded = {} THEN DOMAIN read.checks ELSE demanded
      passing == \A c \in gate : read.checks[c] = "passed"
      grew == demanded # {} /\ ~moved /\ ~(gate \subseteq w.passedChecks)
      told == passing /\ (moved \/ ~w.passed \/ grew)
  IN IF DOMAIN read.checks = {}
     THEN [failed |-> known, passed |-> w.passed /\ ~moved,
           passedChecks |-> IF moved THEN {} ELSE w.passedChecks, items |-> {}]
     ELSE [failed |-> failing, passed |-> passing,
           passedChecks |-> IF passing THEN gate ELSE {},
           items |-> {Item("failed", c, read.runs[c], w.gen) : c \in failing \ known}
                     \union {Item("passed", None, n, w.gen) :
                               n \in IF told THEN {Max({read.runs[c] : c \in gate})} ELSE {}}]

\* evaluate: what the agent was not told yet, and what it knows once it is told.
\* An incomplete list of remarks leaves them to a later pass.
Evaluate(w, read) ==
  LET checks == CheckNews(w, read)
      at == IF read.remarks = None THEN <<>> ELSE read.remarks
      fresh == Fresh(w, at)
      latest == Max({w.through} \union {at[i] : i \in fresh})
      newest == {i \in fresh : at[i] = latest}
      remarks == {Item("remark", i, at[i], w.gen) : i \in fresh}
      items == checks.items \union remarks
      commentsOnly == items # {} /\ items = remarks
      progress == read.head # w.head \/ (items # {} /\ ~commentsOnly)
      wakes == (IF progress THEN 0 ELSE w.wakes) + (IF commentsOnly THEN 1 ELSE 0)
  IN [items |-> items,
      exhausted |-> commentsOnly /\ wakes >= WakeLimit,
      next |-> [w EXCEPT
        !.head = read.head, !.failed = checks.failed, !.passed = checks.passed,
        !.passedChecks = checks.passedChecks, !.through = latest,
        !.ids = IF latest = w.through THEN @ \union newest ELSE newest,
        !.wakes = wakes]]

-------------------------------------------------------------------------------
(* Wakes *)

\* A wake's text is the sequence of the reports merged into it.
FreshId(th) ==
  LET used == {th.queue[i].id : i \in DOMAIN th.queue}
  IN CHOOSE n \in 1..(Len(th.queue) + 1) : n \notin used /\ \A m \in 1..(n - 1) : m \in used

\* The wake was taken, and an ending watch ends with it.
Delivered(th) ==
  [th EXCEPT !.watch = IF @.pending.last THEN None ELSE [@ EXCEPT !.pending = None]]

Queued(th) == \E i \in DOMAIN th.queue : th.queue[i].id = th.watch.pending.id

Gives(th, text) ==
  LET items == UNION ToSet(text)
  IN [th EXCEPT !.given = [ever |-> @.ever \union items, since |-> @.since \union items,
                           twice |-> @.twice \union (items \intersect @.since)]]

\* Mutant: a wake that is queued already is queued again.
DeliverMutant(th) ==
  IF th.paused THEN th
  ELSE IF th.agent = "steerable" THEN Delivered(Gives(th, th.watch.pending.text))
  ELSE [th EXCEPT !.queue =
         Append(@, [id |-> th.watch.pending.id, text |-> th.watch.pending.text])]

\* deliver_pull_request_wake: into the running turn, which counts as taken whatever the
\* provider makes of it, or else behind it; not while the watch is paused, nor when the
\* wake is queued already.
Deliver(th) ==
  IF th.paused \/ Queued(th) THEN th
  ELSE IF th.agent = "steerable"
       THEN Delivered(Gives(th, th.watch.pending.text))
       ELSE [th EXCEPT !.queue =
              Append(@, [id |-> th.watch.pending.id, text |-> th.watch.pending.text])]

Redeliver(th) == IF th.watch # None /\ th.watch.pending # None THEN Deliver(th) ELSE th

\* Mutant: an acceptance clears whatever is pending.
AcknowledgeMutant(th, id, text) ==
  IF th.watch = None \/ th.watch.pending = None \/ th.watch.pending.id # id THEN th
  ELSE Delivered(th)

\* acknowledge_pull_request_wake: what was merged into the wake after it was queued
\* is delivered as a wake of its own.
Acknowledge(th, id, text) ==
  IF th.watch = None \/ th.watch.pending = None \/ th.watch.pending.id # id THEN th
  ELSE LET pending == th.watch.pending
           rest == SubSeq(pending.text, Len(text) + 1, Len(pending.text))
       IN CASE pending.text = text -> Delivered(th)
            [] IsStrictPrefix(text, pending.text) ->
                 Deliver([th EXCEPT !.watch.pending =
                   [id |-> FreshId(th), text |-> rest, last |-> pending.last]])
            [] ~IsPrefix(text, pending.text) -> th

\* record_pull_request_watch: only the watch that was read takes the read.
Records(th, gen) == ~th.paused /\ th.watch # None /\ th.watch.gen = gen

\* Mutant: the wake replaces one that is still pending.
WakeMutant(th, next, items, last) ==
  Deliver([th EXCEPT !.watch = [next EXCEPT
    !.pending = [id |-> FreshId(th), text |-> <<items>>, last |-> last]]])

\* News is saved with the watermark it is news against, and joins what is pending.
Wake(th, next, items, last) ==
  LET pending == th.watch.pending
  IN Deliver([th EXCEPT !.watch = [next EXCEPT !.pending =
       IF pending = None THEN [id |-> FreshId(th), text |-> <<items>>, last |-> last]
       ELSE [id |-> pending.id, text |-> Append(pending.text, items), last |-> last]]])

End(th, why) == Wake(th, th.watch, {Item(why, None, 0, th.watch.gen)}, TRUE)

\* Mutant: also what the provider is accepting is dropped.
DiscardMutant(th) == [th EXCEPT !.queue = <<>>]

\* discard_pull_request_wakes: what the provider is already accepting, one message at most,
\* stays.
Discard(th) ==
  LET kept == {i \in DOMAIN th.queue : th.queue[i].id = th.delivery}
  IN [th EXCEPT !.queue = IF kept = {} THEN <<>> ELSE <<@[CHOOSE i \in kept : TRUE]>>]

-------------------------------------------------------------------------------
(* A pass of the watch worker *)

Watching(h, t) == h.threads[t].watch # None /\ ~h.threads[t].paused

\* A wake that waits is delivered again.  One of a watch that was resumed waits for
\* the read of this pass, unless it is the last.
Undelivered(h, t) ==
  /\ Watching(h, t) /\ h.threads[t].watch.pending # None
  /\ h.threads[t].watch.pending.last \/ t \notin h.refresh

\* sweep_pull_request_watches: a watch whose thread already shows the merge ends.
Sweep(h, merged) ==
  LET reads == {t \in Threads : Watching(h, t) /\ ~Undelivered(h, t)}
      some == \E t \in Threads : Watching(h, t)
  IN [h EXCEPT
       !.threads = [t \in Threads |->
         CASE Undelivered(h, t) -> Deliver(@[t])
           [] t \in reads /\ merged -> End(@[t], "merged")
           [] OTHER -> @[t]],
       !.refresh = {t \in @ : ~(Undelivered(h, t) /\ h.threads[t].watch.pending.last)},
       !.cache = IF some THEN @ ELSE None,
       !.failures = IF some THEN @ ELSE 0]

Targets(h, merged) ==
  {<<t, h.threads[t].watch.gen>> :
     t \in {u \in Threads : ~merged /\ Watching(h, u) /\ ~Undelivered(h, u)}}

NewPass(targets) ==
  IF targets = {} THEN None
  ELSE [step |-> "asked", targets |-> targets, print |-> None, activity |-> FALSE]

\* The pass begins with what the loop holds then.
Begin(h) ==
  \E merged \in {FALSE, pr.state = "merged"} :
    /\ host' = Sweep(h, merged)
    /\ pass' = NewPass(Targets(h, merged))

\* A pass asked for meanwhile follows at once.
PassOver(h) ==
  IF h.again THEN Begin([h EXCEPT !.again = FALSE]) ELSE host' = h /\ pass' = None

PassOnly == UNCHANGED <<pr, disk, counts>>

SweepStarts ==
  /\ pass = None
  /\ Begin(host)
  /\ PassOnly

\* The read of an earlier pass, if it was for all of these watches and none of them
\* was resumed since.
LastRead ==
  LET usable == /\ host.cache # None /\ pass.targets \subseteq host.cache.watches
                /\ \A target \in pass.targets : target[1] \notin host.refresh
  IN IF usable THEN host.cache ELSE None

\* plan, of the remarks; late is the time since the last read, or without fingerprints
\* what the thread's snapshot shows.
NeedsActivity(print, last, late) ==
  \/ last = None \/ late \/ ~last.complete
  \/ print = None /\ last.running
  \/ print # None /\ (last.print = None \/ last.print.remarks # print.remarks)

\* plan, of the state and the checks.
NeedsDetail(print, last, late) ==
  \/ NeedsActivity(print, last, late) \/ last.running
  \/ print # None /\ last.print.status # print.status

\* The forge asks to wait, or answers with a fingerprint or none, which tells what this
\* pass reads.
ForgeSaysWait ==
  /\ pass # None /\ pass.step = "asked"
  /\ PassOver(host)
  /\ PassOnly

Plan(print, late) ==
  /\ pass # None /\ pass.step = "asked"
  /\ LET last == LastRead
         planned == [host EXCEPT !.refresh =
                      {t \in @ : \A target \in pass.targets : target[1] # t}]
     IN IF NeedsDetail(print, last, late)
        THEN /\ host' = planned
             /\ pass' = [pass EXCEPT !.step = "reading", !.print = print,
                                     !.activity = NeedsActivity(print, last, late)]
        ELSE PassOver(planned)
  /\ PassOnly

Target(t) == {target[2] : target \in {u \in pass.targets : u[1] = t}}
Reads(t) == \E gen \in Target(t) : Records(host.threads[t], gen)

\* A read that failed: what waits is delivered, and after too many in a row the
\* watches end.
Unread(limited) ==
  LET failures == host.failures + (IF limited THEN 0 ELSE 1)
      given == ~limited /\ failures >= ReadFailureLimit
      told(t) == LET th == Redeliver(host.threads[t])
                 IN IF given /\ \E gen \in Target(t) : Records(th, gen)
                    THEN End(th, "unreadable") ELSE th
      landed == \A target \in pass.targets : Reads(target[1])
  IN [host EXCEPT
       !.cache = None,
       !.failures = IF given /\ landed THEN 0 ELSE Min({failures, ReadFailureLimit}),
       !.threads = [t \in Threads |-> IF Target(t) # {} THEN told(t) ELSE @[t]]]

\* The pull request is closed or merged: its watches end.
Over ==
  [host EXCEPT
    !.cache = None, !.failures = 0,
    !.threads = [t \in Threads |-> IF Reads(t) THEN End(@[t], pr.state) ELSE @[t]]]

\* A read may list no checks where the forge cannot read them, and the remarks
\* incompletely.
Reading(shown, complete) ==
  [head |-> pr.head, runs |-> pr.runs, checks |-> [c \in shown |-> pr.checks[c]],
   remarks |-> IF complete THEN pr.remarks ELSE None]

\* A watch takes from the read what is news to it.  One that has used up its wakes ends
\* with this one.
Told(t, read) ==
  LET th == host.threads[t]
      report == Evaluate(th.watch, read)
      noted == IF Reads(t) THEN [th EXCEPT !.watch = report.next] ELSE th
  IN CASE report.items = {} -> Redeliver(noted)
       [] report.items # {} /\ ~Reads(t) -> th
       [] report.items # {} /\ Reads(t) ->
            Wake(th, IF report.exhausted THEN th.watch ELSE report.next, report.items,
                 report.exhausted)

\* The fingerprint kept with a read is older than the read.
Cached(read) ==
  [print |-> pass.print, watches |-> pass.targets,
   running |-> \E c \in DOMAIN read.checks : read.checks[c] = "pending",
   complete |-> IF pass.activity THEN read.remarks # None
                ELSE host.cache # None /\ host.cache.complete]

Open(read) ==
  [host EXCEPT
    !.cache = Cached(read), !.failures = 0,
    !.threads = [t \in Threads |->
      IF Target(t) # {} /\ @[t].watch # None THEN Told(t, read) ELSE @[t]]]

\* finish_pull_request_watch_read
ReadFails ==
  /\ pass # None /\ pass.step = "reading"
  /\ \E limited \in BOOLEAN : PassOver(Unread(limited))
  /\ PassOnly

ReadOver ==
  /\ pass # None /\ pass.step = "reading" /\ pr.state # "open"
  /\ PassOver(Over)
  /\ PassOnly

ReadOpen(shown, complete) ==
  /\ pass # None /\ pass.step = "reading" /\ pr.state = "open"
  /\ complete => pass.activity
  /\ PassOver(Open(Reading(shown, complete)))
  /\ PassOnly

-------------------------------------------------------------------------------
(* What people ask of the watches *)

Becomes(t, th) == host' = [host EXCEPT !.threads[t] = th]
ActOnly == UNCHANGED <<pr, disk, changes>>
Upset == upsets < MaxUpsets /\ upsets' = upsets + 1

Active(th) == th.watch # None /\ (th.watch.pending = None \/ ~th.watch.pending.last)

\* set_pull_request_watch
Watch(t) ==
  /\ ~Active(host.threads[t]) /\ starts + changes < MaxChanges
  /\ starts' = starts + 1
  /\ Becomes(t, [host.threads[t] EXCEPT !.watch = NewWatch(starts', 2 * pr.clock + 1)])
  /\ UNCHANGED <<pass, upsets>> /\ ActOnly

Unwatch(t) ==
  /\ host.threads[t].watch # None
  /\ host' = [host EXCEPT !.threads[t] = Discard([@ EXCEPT !.watch = None]),
                          !.refresh = @ \ {t}]
  /\ UNCHANGED <<pass, starts, upsets>> /\ ActOnly

\* interrupt pauses the watches of its thread.
Pause(t) ==
  /\ Upset
  /\ Becomes(t, [Discard(host.threads[t]) EXCEPT !.paused = TRUE])
  /\ UNCHANGED <<pass, starts>> /\ ActOnly

\* Mutant: a resumed watch goes on from the last read.
ResumedMutant(t) == [host EXCEPT !.threads[t].paused = FALSE]

Resumed(t) ==
  [host EXCEPT !.threads[t].paused = FALSE,
               !.refresh = IF host.threads[t].watch # None THEN @ \union {t} ELSE @]

\* resume_pull_request_watches, by a message to the thread or on its own: what moved
\* meanwhile is read at once, or in the pass after the one under way.
Resume(t) ==
  /\ host.threads[t].paused
  /\ IF pass # None
       THEN host' = [Resumed(t) EXCEPT !.again = TRUE] /\ UNCHANGED pass
       ELSE Begin(Resumed(t))
  /\ UNCHANGED <<starts, upsets>> /\ ActOnly

\* Settling an idle thread ends its watches and drops what the host queued.
Settle(t) ==
  /\ LET th == host.threads[t] IN th.watch # None /\ th.agent = "idle" /\ th.delivery = 0
  /\ host' = [host EXCEPT
       !.threads[t] = [@ EXCEPT !.watch = None, !.paused = FALSE, !.queue = <<>>],
       !.refresh = @ \ {t}]
  /\ UNCHANGED <<pass, starts, upsets>> /\ ActOnly

-------------------------------------------------------------------------------
(* The thread's provider *)

AgentOnly == UNCHANGED <<pr, disk, pass, counts>>
Turns == {"idle", "steerable"}

\* Somebody's message opens a turn.  A turn that takes no steers is as good as none: what
\* is queued waits.
TurnBegins(t) ==
  /\ host.threads[t].agent = "idle" /\ host.threads[t].delivery = 0
  /\ Becomes(t, [host.threads[t] EXCEPT !.agent = "steerable"])
  /\ AgentOnly

TurnEnds(t) ==
  /\ host.threads[t].agent = "steerable"
  /\ Becomes(t, [host.threads[t] EXCEPT !.agent = "idle"])
  /\ AgentOnly

\* dispatch_next_queued
Dispatch(t) ==
  /\ LET th == host.threads[t]
     IN /\ th.agent = "idle" /\ th.delivery = 0 /\ th.queue # <<>>
        /\ Becomes(t, [th EXCEPT !.delivery = Head(th.queue).id])
  /\ AgentOnly

\* on_turn_accepted
Accept(t) ==
  /\ LET th == host.threads[t]
         next == Head(th.queue)
     IN /\ th.delivery # 0
        /\ \E agent \in Turns :
             Becomes(t, Acknowledge(
               Gives([th EXCEPT !.queue = Tail(@), !.delivery = 0, !.agent = agent], next.text),
               next.id, next.text))
  /\ AgentOnly

AgentDies(t) ==
  /\ Becomes(t, [host.threads[t] EXCEPT !.agent = "idle", !.delivery = 0])
  /\ AgentOnly

-------------------------------------------------------------------------------
(* The store and a restart of the host *)

Saved(t) == [watch |-> host.threads[t].watch, paused |-> host.threads[t].paused]

\* The store writer has come to the latest write of a thread.
Save(t) ==
  /\ disk[t] # Saved(t) /\ upsets < MaxUpsets
  /\ disk' = [disk EXCEPT ![t] = Saved(t)]
  /\ UNCHANGED <<pr, host, pass, counts>>

Resident(saved, ever) ==
  [watch |-> saved.watch, paused |-> saved.paused, queue |-> <<>>, delivery |-> 0,
   agent |-> "idle", given |-> [ever |-> ever, since |-> {}, twice |-> {}]]

HostWith(threads) ==
  [threads |-> threads, refresh |-> {}, cache |-> None, failures |-> 0, again |-> FALSE]

Restart ==
  /\ Upset
  /\ host' = HostWith([t \in Threads |-> Resident(disk[t], host.threads[t].given.ever)])
  /\ pass' = None
  /\ UNCHANGED <<pr, disk, starts, changes>>

-------------------------------------------------------------------------------
(* The pull request changes *)

Change == starts + changes < MaxChanges /\ changes' = changes + 1
ChangeOnly == UNCHANGED <<host, disk, pass, starts, upsets>>
Run == Max({pr.runs[c] : c \in Checks}) + 1
Seconds == {pr.clock, pr.clock + 1}

Remark ==
  /\ pr.state = "open" /\ Change
  /\ \E second \in Seconds :
       pr' = [pr EXCEPT !.clock = second, !.remarks = Append(@, 2 * second)]
  /\ ChangeOnly

Push ==
  /\ pr.state = "open" /\ Change
  /\ pr' = [pr EXCEPT !.head = @ + 1, !.checks = [c \in Checks |-> "pending"],
                      !.runs = [c \in Checks |-> Run]]
  /\ ChangeOnly

CheckMoves ==
  /\ pr.state = "open" /\ Change
  /\ \E c \in Checks, to \in {"pending", "failed", "passed"} :
       /\ (pr.checks[c] = "pending") # (to = "pending")
       /\ pr' = [pr EXCEPT !.checks[c] = to, !.runs[c] = IF to = "pending" THEN Run ELSE @]
  /\ ChangeOnly

\* A closed pull request may be opened again, a merged one not.
CloseOrMerge ==
  /\ Change
  /\ \/ pr.state = "open" /\ \E state \in {"closed", "merged"} : pr' = [pr EXCEPT !.state = state]
     \/ pr.state = "closed" /\ pr' = [pr EXCEPT !.state = "open"]
  /\ ChangeOnly

-------------------------------------------------------------------------------
Init ==
  /\ pr = [state |-> "open", clock |-> 0, head |-> 0, checks |-> [c \in Checks |-> "pending"],
           runs |-> [c \in Checks |-> 0], remarks |-> <<>>]
  /\ disk = [t \in Threads |-> [watch |-> None, paused |-> FALSE]]
  /\ host = HostWith([t \in Threads |-> Resident(disk[t], {})])
  /\ pass = None /\ starts = 0 /\ changes = 0 /\ upsets = 0

Prints == {None, Fingerprint(pr)}

Pass ==
  \/ SweepStarts \/ ForgeSaysWait \/ ReadFails \/ ReadOver
  \/ \E print \in Prints, late \in BOOLEAN : Plan(print, late)
  \/ \E shown \in {Checks, {}}, complete \in BOOLEAN : ReadOpen(shown, complete)

People(t) == Watch(t) \/ Unwatch(t) \/ Pause(t) \/ Resume(t) \/ Settle(t)

Agent(t) == TurnEnds(t) \/ Dispatch(t) \/ Accept(t)

PullRequest == Remark \/ Push \/ CheckMoves \/ CloseOrMerge

Next ==
  \/ Pass \/ PullRequest \/ Restart
  \/ \E t \in Threads : People(t) \/ Agent(t) \/ TurnBegins(t) \/ AgentDies(t) \/ Save(t)

Spec == Init /\ [][Next]_vars

-------------------------------------------------------------------------------
(* Properties *)

Gens == 1..starts
Items == {item \in News : item.gen \in Gens}
Waiting(w) == IF w.pending = None THEN {} ELSE UNION ToSet(w.pending.text)

IsText(text) == \A i \in DOMAIN text : text[i] \subseteq Items /\ text[i] # {}

IsWatch(w) ==
  /\ w.gen \in Gens /\ w.head \in 0..pr.head \union {None}
  /\ w.failed \subseteq Checks /\ w.passed \in BOOLEAN /\ w.passedChecks \subseteq Checks
  /\ w.from \in Nat /\ w.through \in Nat /\ w.ids \subseteq DOMAIN pr.remarks
  /\ w.wakes \in 0..WakeLimit
  /\ w.pending # None =>
       w.pending.id \in Nat \ {0} /\ IsText(w.pending.text) /\ w.pending.last \in BOOLEAN

\* Types; no two messages of a queue are the same wake, and what is being delivered heads
\* its queue (pull_request_watch.rs:729-734, send.rs:535-546).
TypeOK ==
  /\ pr.state \in {"open", "closed", "merged"} /\ pr.clock \in Nat /\ pr.head \in Nat
  /\ pr.checks \in [Checks -> {"pending", "failed", "passed"}]
  /\ pr.runs \in [Checks -> Nat] /\ pr.remarks \in Seq(Nat)
  /\ \A t \in Threads :
       LET th == host.threads[t]
       IN /\ \A saved \in {th, disk[t]} :
               (saved.watch = None \/ IsWatch(saved.watch)) /\ saved.paused \in BOOLEAN
          /\ \A i, j \in DOMAIN th.queue : i # j => th.queue[i].id # th.queue[j].id
          /\ \A i \in DOMAIN th.queue : IsText(th.queue[i].text)
          /\ th.delivery # 0 => th.queue # <<>> /\ th.delivery = Head(th.queue).id
          /\ th.agent \in Turns
          /\ th.given.ever \subseteq Items /\ th.given.since \subseteq th.given.ever
          /\ th.given.twice \subseteq th.given.since
  /\ host.refresh \subseteq Threads /\ host.failures \in Nat /\ host.again \in BOOLEAN
  /\ host.cache = None \/ host.cache.watches \subseteq Threads \X Gens
  /\ pass = None \/ (pass.step \in {"asked", "reading"} /\ pass.targets \subseteq Threads \X Gens)
  /\ {starts, changes} \subseteq 0..MaxChanges /\ upsets \in 0..MaxUpsets

\* What a watch takes its agent to know.
Knows(w) ==
  {Item("remark", i, pr.remarks[i], w.gen) :
     i \in {j \in DOMAIN pr.remarks :
              /\ w.from < pr.remarks[j]
              /\ pr.remarks[j] < w.through \/ (pr.remarks[j] = w.through /\ j \in w.ids)}}
KnowsFailures(w, told) ==
  \A c \in w.failed : \E item \in told : item.what = "failed" /\ item.of = c /\ item.gen = w.gen

\* What a watch takes its agent to know, in memory or as it is saved, the agent's providers
\* were given or the watch holds as a wake: neither a restart between two writes nor news
\* that comes while an older wake is being accepted opens a gap
\* (pull_request_watch.rs:636-710, 770-816).
KnownIsTold ==
  \A t \in Threads : \A w \in {host.threads[t].watch, disk[t].watch} \ {None} :
    LET told == host.threads[t].given.ever \union Waiting(w)
    IN Knows(w) \subseteq told /\ KnowsFailures(w, told)

\* Between two restarts of the host no news is given twice to a thread, though every pass
\* delivers again what waits (pull_request_watch.rs:254-268, 504-514, 712-766).
ToldOnce == \A t \in Threads : host.threads[t].given.twice = {}

\* The cached read is what the watch of t was last compared with.
Compared(t) ==
  /\ pass = None \/ pass.step = "asked"
  /\ Watching(host, t) /\ Active(host.threads[t]) /\ t \notin host.refresh
  /\ host.cache # None /\ <<t, host.threads[t].watch.gen>> \in host.cache.watches

\* A pass that skips the remarks, because the forge counts as many as when they were last
\* read in full, misses none: also not when remarks came between the fingerprint and the
\* read, or the watch was paused or new while its pull request was read
\* (pull_request_watch.rs:136-175, 357-372, 566-606).
CacheIsCurrent ==
  \A t \in Threads :
    Compared(t) /\ host.cache.complete /\ host.cache.print # None
      /\ host.cache.print.remarks = Len(pr.remarks)
      => Fresh(host.threads[t].watch, pr.remarks) = {}

\* A watch that ends without being asked to has said why: it was over, or its agent
\* was woken by comments alone once too often, and all it had pending is told.
SaysWhy(w, told) ==
  /\ Waiting(w) \subseteq told
  /\ \E item \in told :
       /\ item.gen = w.gen
       /\ \/ item.what \in {"closed", "merged", "unreadable"}
          \/ item.what = "remark" /\ w.wakes + 1 >= WakeLimit

\* No watch ends unasked before its agent was given the reason and all that was pending
\* (pull_request_watch.rs:672-697, 770-816).
EndsAreTold ==
  [][\A t \in Threads :
      LET w == host.threads[t].watch
      IN w # None /\ host'.threads[t].watch = None
           => SaysWhy(w, host'.threads[t].given.ever) \/ Unwatch(t) \/ Settle(t) \/ Restart]_vars
================================================================================
