------------------------------ MODULE ChildReports ------------------------------
(***************************************************************************)
(* A lead thread and the child it dispatched: the report the child owes    *)
(* for each message of the lead, and the callbacks that tell the lead what *)
(* became of it (src/crates/runtime/src/app/orchestrate.rs, with the parts *)
(* of events, lifecycle, send and sessions that call it).                  *)
(*                                                                         *)
(* The child is a thread as in TurnQueue, seen from farther away: what     *)
(* waits in its queue is a number, an event is taken as it is reported,    *)
(* and starts that were superseded, settings and timers are left out.  A   *)
(* process's end is still heard after it happened.  The lead is seen from  *)
(* farther still: its turns, its open channel, and the callbacks that are  *)
(* on their way to it.                                                     *)
(*                                                                         *)
(* The lead's messages are numbered, the dispatch brief is 1.  Approvals,  *)
(* questions, provider retries and settlement are left out.                *)
(***************************************************************************)
EXTENDS Naturals, Sequences

CONSTANTS
  ChildSteers,  \* whether the child's provider takes in steers: the values of this instance
  Tools,        \* whether it can be given tools, report_result among them
  LeadSteers,   \* whether the lead's takes in steers
  MaxMessages,  \* bound: the messages of the lead
  MaxReports,   \* bound: the calls of report_result that the child finishes
  MaxUpsets     \* bound: what people and failures do to either thread

ASSUME CapsAssumption ==
  ChildSteers \subseteq BOOLEAN /\ Tools \subseteq BOOLEAN /\ LeadSteers \subseteq BOOLEAN
ASSUME BoundsAssumption == MaxMessages \in Nat \ {0} /\ MaxReports \in Nat /\ MaxUpsets \in Nat

VARIABLES
  caps,      \* what the child's provider and the lead's can do
  meta,      \* what is stored of the child: its expectation, and whether it is put away
  made,      \* made[i]: the lead's messages written when the child finished report i
  child,     \* the child as the host's loop holds it
  agent,     \* the child's provider process
  lead,      \* the lead, its provider process, and the callbacks on their way to it
  calls,     \* history: the callbacks made since the host started
  told,      \* history: those of them that the lead's provider was given
  written,   \* history: the lead's messages
  left,      \* history: since its last message nobody is bound to answer the lead
  blind,     \* history: the messages sent while the child's transcript was not at hand
  dismissed, \* history: the lead cancelled the child and has not written since
  upsets     \* history: how much of MaxUpsets is used

history == <<written, left, blind, dismissed, upsets>>
stored == <<meta, made>>
callbacks == <<lead, calls, told>>
vars == <<caps, stored, child, agent, callbacks, history>>

-------------------------------------------------------------------------------
(* The child's thread *)

\* waiting: the entries of its queue; submitted: one of them is with the provider and
\* not yet accepted; turn and tasks: the flags the loop keeps of the provider's work;
\* seen: the last report in the transcript the loop holds; loading: that transcript is
\* still being read.
Gone ==
  [place |-> "none", runtime |-> "idle", waiting |-> 0, submitted |-> FALSE,
   turn |-> FALSE, tasks |-> FALSE, seen |-> 0, loading |-> FALSE]

Opened(place) == [Gone EXCEPT !.place = place, !.loading = TRUE]

Resting == [reading |-> FALSE, prompts |-> 0, open |-> FALSE, task |-> FALSE]

Live(c) == c.runtime = "live"
FullyIdle(c) == ~c.turn /\ ~c.submitted /\ c.waiting = 0 /\ ~c.tasks
Stopped(c) == [c EXCEPT !.runtime = "idle", !.submitted = FALSE, !.turn = FALSE, !.tasks = FALSE]

CanDispatch(c) == Live(c) /\ ~c.turn /\ ~c.submitted /\ c.waiting > 0

\* A closed channel refuses the command, and nothing changes.
Dispatch(c) == IF CanDispatch(c) /\ agent.reading THEN [c EXCEPT !.submitted = TRUE] ELSE c

EnsureStarted(c) ==
  IF c.place # "none" /\ c.runtime = "idle" THEN [c EXCEPT !.runtime = "starting"] ELSE c

\* deliver_to_child, a message that is not steered: it is the child's next turn.
Queued(c) ==
  LET resident == IF c.place = "none" THEN Opened("parked") ELSE c
  IN EnsureStarted(Dispatch([resident EXCEPT !.waiting = @ + 1]))

CanSteer(c) == c.turn /\ Live(c) /\ caps.childSteers

\* The process the loop lets go of does nothing any more.
ChildBecomes(c) ==
  /\ child' = c
  /\ agent' = IF Live(c) THEN agent ELSE Resting

-------------------------------------------------------------------------------
(* What the child owes *)

Owing(n, item) == [report |-> "expected", opened |-> n, item |-> item, reminded |-> FALSE]
Owed(m) == m.debt.report = "expected"
Nothing == [report |-> "none", opened |-> 0, item |-> 0, reminded |-> FALSE]

\* expectant_child: a child that is put away owes nothing for now, nor does one whose
\* lead is put away.
Expectant == meta.debt.report # "none" /\ ~meta.archived /\ ~meta.cancelled /\ ~lead.archived

\* deliver_orchestrate_callback_to_parent: a running turn is steered, and what a closed
\* channel refuses is dropped; otherwise the callback waits for the lead's next turn.
Tell(kind, item) ==
  LET n == Len(calls) + 1
  IN /\ calls' = Append(calls, [kind |-> kind, item |-> item, opened |-> meta.debt.opened,
                                void |-> dismissed])
     /\ lead' = IF lead.turn /\ caps.leadSteers
                THEN [lead EXCEPT !.inbox = IF lead.reading THEN @ \union {n} ELSE @]
                ELSE [lead EXCEPT !.queue = @ \union {n}]
     /\ UNCHANGED told

Closes(kind) == meta' = [meta EXCEPT !.debt.report = kind]

\* fail_child_expectation
Fails ==
  \/ /\ Expectant /\ Owed(meta)
     /\ Closes("failed") /\ Tell("failed", 0)
  \/ /\ ~(Expectant /\ Owed(meta))
     /\ UNCHANGED <<meta, callbacks>>

\* A report the lead has not been given, whatever else the child is doing.
HasNews(c) == c.seen # 0 /\ c.seen # meta.debt.item

\* Mutant: a delivered report is not remembered.
ReportsMutant(c) ==
  /\ HasNews(c)
  /\ meta' = [meta EXCEPT !.debt.report = "reported"]
  /\ Tell(IF meta.debt.item # 0 THEN "updated" ELSE "reported", c.seen)
  /\ child' = c

Reports(c) ==
  /\ HasNews(c)
  /\ meta' = [meta EXCEPT !.debt.report = "reported", !.debt.item = c.seen]
  /\ Tell(IF meta.debt.item # 0 THEN "updated" ELSE "reported", c.seen)
  /\ child' = c

\* thread_quiescent: nothing inside the child could still produce a report.
Quiescent(c) == FullyIdle(c) /\ c.runtime # "starting"

\* Mutant: the child is asked again each time it goes quiet.
RemindsMutant(c) ==
  /\ ~meta.debt.reminded /\ caps.tools
  /\ UNCHANGED <<meta, callbacks>>
  /\ child' = Queued(c)

\* A child that went quiet is asked once, as its next turn; one that cannot be asked
\* has failed.
Reminds(c) ==
  /\ ~meta.debt.reminded /\ caps.tools
  /\ IF c.place = "viewed" /\ Live(c) /\ ~agent.reading
     THEN /\ meta' = [meta EXCEPT !.debt.reminded = TRUE, !.debt.report = "failed"]
          /\ Tell("failed", 0)
     ELSE meta' = [meta EXCEPT !.debt.reminded = TRUE] /\ UNCHANGED callbacks
  /\ child' = Queued(c)

\* Its last message is delivered in the report's place.
FallsBack(c) ==
  /\ meta.debt.reminded \/ ~caps.tools
  /\ Closes("unreported") /\ Tell("unreported", 0)
  /\ child' = c

\* Nothing to say, or nothing yet; the user who stopped a child has it now.
Silent(c, status) ==
  \/ ~Expectant \/ c.turn
  \/ /\ ~HasNews(c)
     /\ ~Owed(meta) \/ status = "interrupted" \/ (status = "completed" /\ ~Quiescent(c))

\* settle_child_expectation: c is the child after the bookkeeping of the turn that ended.
Settles(c, status) ==
  \/ Silent(c, status) /\ child' = c /\ UNCHANGED <<meta, callbacks>>
  \/ ~Silent(c, status) /\ Reports(c)
  \/ ~Silent(c, status) /\ ~HasNews(c) /\ status = "failed" /\ Fails /\ child' = c
  \/ ~Silent(c, status) /\ ~HasNews(c) /\ status = "completed" /\ (Reminds(c) \/ FallsBack(c))

-------------------------------------------------------------------------------
(* What the lead does in a turn *)

Upset == upsets < MaxUpsets /\ upsets' = upsets + 1
LeadWorks == lead.turn /\ lead.open /\ lead.reading

\* Mutant: the message does not set earlier reports aside.
LastReportMutant(c) == 0

\* The report a message sets aside: the last one in the transcript the loop holds, and
\* of a child it does not hold none.
LastReport(c) == c.seen

\* Send: new work that a report is owed for.  Steered into the child's turn or queued as
\* its next one, it takes back a cancellation.
Send ==
  /\ LeadWorks /\ written < MaxMessages
  /\ written' = written + 1
  /\ meta' = [meta EXCEPT !.debt = Owing(written + 1, LastReport(child)), !.archived = FALSE,
                          !.cancelled = FALSE]
  /\ \/ CanSteer(child) /\ agent.reading /\ UNCHANGED <<child, agent>>
     \/ ~(CanSteer(child) /\ agent.reading) /\ ChildBecomes(Queued(child))
  /\ left' = FALSE /\ dismissed' = FALSE
  /\ blind' = IF child.seen = Len(made) THEN blind ELSE blind \union {written + 1}
  /\ UNCHANGED <<caps, made, callbacks, upsets>>

\* cancel_child: whatever the child does from now on is its own.
Cancelled(m) == [m EXCEPT !.cancelled = TRUE, !.debt = Nothing]

Cancel ==
  /\ LeadWorks /\ ~dismissed /\ Upset
  /\ meta' = Cancelled(meta)
  /\ ChildBecomes(IF child.place = "viewed" THEN [Stopped(child) EXCEPT !.waiting = 0] ELSE Gone)
  /\ dismissed' = TRUE
  /\ UNCHANGED <<caps, made, callbacks, written, left, blind>>

-------------------------------------------------------------------------------
(* What people do *)

\* select_session: a parked thread comes back as it was.
Select ==
  /\ child.place # "viewed" /\ ~meta.archived
  /\ ChildBecomes(IF child.place = "none" THEN Opened("viewed")
                  ELSE LET seen == Dispatch([child EXCEPT !.place = "viewed", !.loading = TRUE])
                       IN IF child.waiting > 0 THEN EnsureStarted(seen) ELSE seen)
  /\ UNCHANGED <<caps, stored, callbacks, history>>

\* park_active: a transcript still being read is given up, and a thread with nothing to
\* keep may be dropped at once.
Unselect ==
  /\ child.place = "viewed"
  /\ \/ ChildBecomes([child EXCEPT !.place = "parked", !.loading = FALSE])
     \/ FullyIdle(child) /\ child.runtime = "idle" /\ ChildBecomes(Gone)
  /\ UNCHANGED <<caps, stored, callbacks, history>>

\* A message of a person takes back a cancellation, and no report is owed for it.
UserSends ==
  /\ child.place = "viewed" /\ Upset
  /\ meta' = [meta EXCEPT !.cancelled = FALSE]
  /\ ChildBecomes(Queued(child))
  /\ UNCHANGED <<caps, made, callbacks, written, left, blind, dismissed>>

\* An entry that is on its way stays.
DropQueued ==
  /\ child.waiting > (IF child.submitted THEN 1 ELSE 0) /\ Upset
  /\ ChildBecomes([child EXCEPT !.waiting = @ - 1])
  /\ left' = TRUE
  /\ UNCHANGED <<caps, stored, callbacks, written, blind, dismissed>>

\* archive_session_ids: to its lead, a child archived before it settled is cancelled.
PutAway(m) == [m EXCEPT !.archived = TRUE, !.cancelled = TRUE]

Archive ==
  /\ ~meta.archived /\ FullyIdle(child) /\ Upset
  /\ meta' = PutAway(meta)
  /\ ChildBecomes(Gone)
  /\ UNCHANGED <<caps, made, callbacks, written, left, blind, dismissed>>

\* A lead takes its children along, whatever they do.
ArchiveLead ==
  /\ ~lead.archived /\ ~lead.turn /\ lead.queue = {} /\ Upset
  /\ meta' = PutAway(meta)
  /\ ChildBecomes(Gone)
  /\ lead' = [lead EXCEPT !.archived = TRUE, !.live = FALSE, !.reading = FALSE, !.open = FALSE,
                          !.inbox = {}]
  /\ left' = TRUE
  /\ UNCHANGED <<caps, made, calls, told, written, blind, dismissed>>

Unarchive ==
  /\ \/ meta.archived /\ meta' = [meta EXCEPT !.archived = FALSE] /\ UNCHANGED lead
     \/ lead.archived /\ lead' = [lead EXCEPT !.archived = FALSE]
        /\ meta' = [meta EXCEPT !.archived = FALSE]
  /\ UNCHANGED <<caps, made, child, agent, calls, told, history>>

\* The idle timer, or too many idle threads.
ReapIdle ==
  /\ FullyIdle(child)
  /\ \/ child.place = "parked" /\ ChildBecomes(Gone)
     \/ child.place = "viewed" /\ Live(child) /\ ChildBecomes(Stopped(child))
  /\ UNCHANGED <<caps, stored, callbacks, history>>

-------------------------------------------------------------------------------
(* The child's provider *)

\* The transcript has been read, with what was added to it meanwhile.
Loaded ==
  /\ child.loading
  /\ child' = [child EXCEPT !.loading = FALSE, !.seen = Len(made)]
  /\ UNCHANGED <<caps, stored, agent, callbacks, history>>

LaunchSucceeds ==
  /\ child.runtime = "starting"
  /\ LET up == [child EXCEPT !.runtime = "live"]
     IN child' = IF up.waiting > 0 THEN [up EXCEPT !.submitted = TRUE] ELSE up
  /\ agent' = [Resting EXCEPT !.reading = TRUE]
  /\ UNCHANGED <<caps, stored, callbacks, history>>

\* Mutant: the lead is not told.
LaunchFailsMutant ==
  /\ child.runtime = "starting" /\ Upset
  /\ ChildBecomes([Stopped(child) EXCEPT !.waiting = 0])
  /\ UNCHANGED <<caps, stored, callbacks, written, left, blind, dismissed>>

\* A child's queue is not kept for a later start: its lead hears why.
LaunchFails ==
  /\ child.runtime = "starting" /\ Upset
  /\ ChildBecomes([Stopped(child) EXCEPT !.waiting = 0])
  /\ Fails
  /\ UNCHANGED <<caps, made, written, left, blind, dismissed>>

\* The provider accepts the entry that was submitted.
TakesTurn ==
  /\ child.submitted /\ agent.reading
  /\ child' = [child EXCEPT !.submitted = FALSE, !.turn = TRUE, !.waiting = @ - 1]
  /\ agent' = [agent EXCEPT !.prompts = @ + 1]
  /\ UNCHANGED <<caps, stored, callbacks, history>>

\* Mutant: a turn begins with nothing to work on.
BeginsMutant ==
  /\ agent.reading /\ ~agent.open
  /\ agent' = [agent EXCEPT !.open = TRUE]
  /\ child' = [child EXCEPT !.turn = TRUE]
  /\ UNCHANGED <<caps, stored, callbacks, history>>

Begins ==
  /\ agent.reading /\ ~agent.open /\ agent.prompts > 0
  /\ agent' = [agent EXCEPT !.open = TRUE]
  /\ child' = [child EXCEPT !.turn = TRUE]
  /\ UNCHANGED <<caps, stored, callbacks, history>>

\* The child's call of report_result finishes: it is an item of the transcript, and the
\* end of the turn finds it there.
Report ==
  /\ agent.reading /\ agent.open /\ caps.tools /\ Len(made) < MaxReports
  /\ made' = Append(made, written)
  /\ child' = [child EXCEPT !.seen = Len(made) + 1]
  /\ UNCHANGED <<caps, meta, agent, callbacks, history>>

\* A result carries the background tasks that are left before it ends the turn; then
\* what waits is sent.  A process that died may have reported it before.
Finishes(status) ==
  /\ agent.open
  /\ agent' = [agent EXCEPT !.open = FALSE, !.prompts = @ - 1]
  /\ Settles(Dispatch([child EXCEPT !.turn = FALSE, !.tasks = agent.task]), status)
  /\ UNCHANGED <<caps, made, written, blind, dismissed>>

\* The user who stopped the child has it now.
Ends ==
  \/ \E status \in {"completed", "failed"} : Finishes(status) /\ UNCHANGED <<left, upsets>>
  \/ Finishes("interrupted") /\ Upset /\ left' = TRUE

StartsTask ==
  /\ agent.reading /\ agent.open /\ ~agent.task /\ Upset
  /\ agent' = [agent EXCEPT !.task = TRUE]
  /\ child' = [child EXCEPT !.tasks = TRUE]
  /\ UNCHANGED <<caps, stored, callbacks, written, left, blind, dismissed>>

\* The end of a task opens a turn of the provider's own, whose result reports it.
EndsTask ==
  /\ agent.reading /\ agent.task
  /\ agent' = [agent EXCEPT !.task = FALSE, !.prompts = @ + 1]
  /\ UNCHANGED <<caps, stored, child, callbacks, history>>

\* Other providers report it at once, and no turn may follow.
TaskIsOver ==
  /\ agent.reading /\ agent.task
  /\ agent' = [agent EXCEPT !.task = FALSE]
  /\ Settles([child EXCEPT !.tasks = FALSE], "completed")
  /\ UNCHANGED <<caps, made, history>>

\* The process ends; the last turn may have ended before.
Dies ==
  /\ agent.reading /\ Upset
  /\ \E open \in {FALSE, agent.open} :
       agent' = [agent EXCEPT !.reading = FALSE, !.open = open, !.task = FALSE]
  /\ UNCHANGED <<caps, stored, child, callbacks, written, left, blind, dismissed>>

\* SessionClosed: a parked child keeps what was never sent and may say it later; with
\* nothing to say it is forgotten.
Closed ==
  /\ Live(child) /\ ~agent.reading /\ ~agent.open
  /\ IF child.place = "parked" /\ child.waiting > 0 THEN UNCHANGED <<meta, callbacks>> ELSE Fails
  /\ ChildBecomes(IF child.place = "parked" /\ child.waiting = 0 THEN Gone ELSE Stopped(child))
  /\ UNCHANGED <<caps, made, history>>

-------------------------------------------------------------------------------
(* The lead and its provider *)

\* A turn of its own, or for the callbacks that wait.
LeadTurn ==
  /\ ~lead.turn /\ ~lead.archived
  /\ ~lead.live \/ lead.reading
  /\ lead' = [lead EXCEPT !.live = TRUE, !.reading = TRUE, !.turn = TRUE, !.open = TRUE,
                          !.queue = {}]
  /\ told' = told \union lead.queue
  /\ UNCHANGED <<caps, stored, child, agent, calls, history>>

LeadReads ==
  /\ lead.open /\ lead.inbox # {}
  /\ lead' = [lead EXCEPT !.inbox = {}]
  /\ told' = told \union lead.inbox
  /\ UNCHANGED <<caps, stored, child, agent, calls, history>>

\* The turn ends, and the loop hears of it later.  A steer the turn did not take in is
\* rejected, and nothing keeps the text of a callback.
LeadEnds ==
  /\ lead.open
  /\ lead' = [lead EXCEPT !.open = FALSE]
  /\ UNCHANGED <<caps, stored, child, agent, calls, told, history>>

LeadEnded ==
  /\ lead.turn /\ lead.reading /\ ~lead.open
  /\ lead' = [lead EXCEPT !.turn = FALSE, !.inbox = {}]
  /\ UNCHANGED <<caps, stored, child, agent, calls, told, history>>

LeadDies ==
  /\ lead.live /\ lead.reading /\ Upset
  /\ lead' = [lead EXCEPT !.reading = FALSE, !.open = FALSE, !.inbox = {}]
  /\ UNCHANGED <<caps, stored, child, agent, calls, told, written, left, blind, dismissed>>

\* close_orchestrator_children: the children that are not shown are let go of.
LeadClosed ==
  /\ lead.live /\ ~lead.reading
  /\ lead' = [lead EXCEPT !.live = FALSE, !.turn = FALSE]
  /\ \/ child.place = "parked" /\ ChildBecomes(Gone) /\ left' = TRUE
     \/ child.place # "parked" /\ UNCHANGED <<child, agent, left>>
  /\ UNCHANGED <<caps, stored, calls, told, written, blind, dismissed, upsets>>

-------------------------------------------------------------------------------
(* The host *)

AtRest ==
  [live |-> FALSE, reading |-> FALSE, turn |-> FALSE, open |-> FALSE, queue |-> {}, inbox |-> {},
   archived |-> FALSE]

\* What is stored is there again, and no child goes on by itself.
Restart ==
  /\ Upset
  /\ child' = Gone /\ agent' = Resting
  /\ lead' = [AtRest EXCEPT !.archived = lead.archived]
  /\ calls' = <<>> /\ told' = {}
  /\ left' = TRUE /\ dismissed' = FALSE
  /\ UNCHANGED <<caps, stored, written, blind>>

\* install_child_session: the child has just been dispatched, by a turn of its lead.
Init ==
  /\ caps \in [childSteers : ChildSteers, tools : Tools, leadSteers : LeadSteers]
  /\ meta = [debt |-> Owing(1, 0), archived |-> FALSE, cancelled |-> FALSE]
  /\ made = <<>>
  /\ child = [Gone EXCEPT !.place = "parked", !.runtime = "starting", !.waiting = 1]
  /\ agent = Resting
  /\ lead = [AtRest EXCEPT !.live = TRUE, !.reading = TRUE, !.turn = TRUE, !.open = TRUE]
  /\ calls = <<>> /\ told = {}
  /\ written = 1 /\ left = FALSE /\ blind = {} /\ dismissed = FALSE /\ upsets = 0

People == Select \/ Unselect \/ UserSends \/ DropQueued \/ Archive \/ ArchiveLead \/ Unarchive
Launch == LaunchSucceeds \/ LaunchFails
Provider == TakesTurn \/ Begins \/ Ends \/ Closed
Lead == LeadReads \/ LeadTurn \/ LeadEnded \/ LeadClosed

Next ==
  \/ Send \/ Cancel \/ People \/ ReapIdle \/ Loaded \/ Launch \/ Provider \/ Report
  \/ StartsTask \/ EndsTask \/ TaskIsOver \/ Dies
  \/ Lead \/ LeadEnds \/ LeadDies \/ Restart

\* A launch ends, the child's provider takes its prompts and ends its turns, and the loop
\* hears of its end.  The lead's provider reads what it is sent, and its turns end.
\* Nobody has to act, and no background task has to end.
Fairness ==
  /\ WF_vars(Launch) /\ WF_vars(Provider)
  /\ WF_vars(Lead) /\ WF_vars(LeadEnds)

Spec == Init /\ [][Next]_vars
FairSpec == Spec /\ Fairness

-------------------------------------------------------------------------------
(* Properties *)

Messages == 1..MaxMessages
Items == 0..MaxReports
Verdicts == {"failed", "unreported"}

DebtType ==
  [report : {"none", "expected", "reported"} \union Verdicts, opened : {0} \union Messages,
   item : Items, reminded : BOOLEAN]

MetaType == [debt : DebtType, archived : BOOLEAN, cancelled : BOOLEAN]

ChildType ==
  [place : {"none", "viewed", "parked"}, runtime : {"idle", "starting", "live"}, waiting : Nat,
   submitted : BOOLEAN, turn : BOOLEAN, tasks : BOOLEAN, seen : Items, loading : BOOLEAN]

AgentType == [reading : BOOLEAN, prompts : Nat, open : BOOLEAN, task : BOOLEAN]

LeadType ==
  [live : BOOLEAN, reading : BOOLEAN, turn : BOOLEAN, open : BOOLEAN, queue : SUBSET (DOMAIN calls),
   inbox : SUBSET (DOMAIN calls), archived : BOOLEAN]

CallType ==
  [kind : {"reported", "updated"} \union Verdicts, item : Items, opened : Messages,
   void : BOOLEAN]

\* Every variable has its type; a provider that works has a prompt to work on, and an
\* entry that was submitted is in the queue.
TypeOK ==
  /\ caps \in [childSteers : ChildSteers, tools : Tools, leadSteers : LeadSteers]
  /\ meta \in MetaType
  /\ made \in Seq(Messages) /\ Len(made) <= MaxReports
  /\ child \in ChildType /\ (child.submitted => child.waiting > 0)
  /\ agent \in AgentType /\ (agent.open => agent.prompts > 0)
  /\ lead \in LeadType
  /\ calls \in Seq(CallType) /\ told \subseteq DOMAIN calls
  /\ written \in Messages /\ left \in BOOLEAN /\ blind \subseteq Messages
  /\ dismissed \in BOOLEAN /\ upsets \in 0..MaxUpsets

\* The lead is told each report of a message once, and at most one verdict, which says
\* that no report came: it follows nothing else told for the same message.
ToldOnce ==
  \A i, j \in DOMAIN calls : i < j /\ calls[i].opened = calls[j].opened =>
    calls[j].item # calls[i].item /\ calls[j].kind \notin Verdicts

\* What the lead is told answers the message it waits for: a report was made after that
\* message, and a child it cancelled says nothing until it is written to again.  A
\* message sent while the child's transcript was not at hand is left out.
AnswersTheMessage ==
  \A i \in DOMAIN calls :
    /\ ~calls[i].void
    /\ calls[i].item # 0 /\ calls[i].opened \notin blind => made[calls[i].item] >= calls[i].opened

\* Something that ends the wait, without anybody's help, is under way.
Coming(c) ==
  \/ c.turn \/ c.submitted \/ c.runtime = "starting" \/ c.tasks
  \/ Live(c) /\ ~agent.reading

\* A parked child whose provider died keeps what was not sent until somebody opens it.
Stranded(c) == c.runtime = "idle" /\ c.waiting > 0

Waits == Owed(meta) /\ ~meta.cancelled /\ ~meta.archived /\ ~left

\* A lead does not wait for a child that went quiet: while a report is owed, a turn, a
\* launch, a background task or the end of the process is still to be heard of.
OwedIsComing == Waits => Coming(child) \/ Stranded(child)

Answered(n) == \E i \in told : calls[i].opened = n
Dropped(n) ==
  \E i \in DOMAIN calls : calls[i].opened = n /\ i \notin told \union lead.queue \union lead.inbox

\* Every message of the lead is answered some day: by a report, by the child's last
\* words, or by what went wrong.  Beside what Waits leaves out, the wait lasts as long as
\* a background task or a stranded queue, and the answer is lost when a steer is.
EveryMessageIsAnswered ==
  \A n \in Messages :
    Waits /\ meta.debt.opened = n
      ~> Answered(n) \/ meta.debt.opened # n \/ meta.cancelled \/ meta.archived \/ left
         \/ child.tasks \/ Stranded(child) \/ Dropped(n)

===============================================================================
