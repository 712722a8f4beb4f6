-------------------------- MODULE ChildReportsProofs --------------------------
(***************************************************************************)
(* A lead does not wait for a child that went quiet, proved for every      *)
(* value of the constants.                                                 *)
(*                                                                         *)
(* OwedIsComing says that something is under way while a report is owed;   *)
(* it is not inductive, as it forgets what is in the child's queue.        *)
(* WaitPart says instead that the child is not fully idle, and ChildPart   *)
(* that what is in its queue is on its way while its provider reads        *)
(* (Served).  Three kinds of lemmas carry the proof: what an operator on   *)
(* the child's record returns, what a callback or a settlement does to the *)
(* debt, and what each action keeps of the two parts.                      *)
(*                                                                         *)
(* ToldOnce and AnswersTheMessage look back at the callbacks made, while   *)
(* the debt in the child's record decides whether the next one fits them.  *)
(* NewsPart ties the two, and TellNews shows that a callback may be added, *)
(* by whatever path it is reached.                                         *)
(***************************************************************************)
EXTENDS ChildReports, SequenceTheorems, TLAPS

-------------------------------------------------------------------------------
(* The child's record *)

\* A thread of the loop that fits its n reports: it has its type, what it submitted is in
\* its queue, one that is not in the memory does nothing, and it has read all reports or
\* none.
ChildOK(c, n) ==
  /\ c \in ChildType
  /\ c.submitted => c.waiting > 0
  /\ c.place = "none" => c.runtime = "idle" /\ FullyIdle(c)
  /\ c.seen \in {0, n}

\* What waits is sent while the provider reads.
Served(c, reads) == Live(c) /\ reads /\ c.waiting > 0 => c.turn \/ c.submitted

LEMMA GoneIsOK ==
  ASSUME NEW n \in Items
  PROVE  ChildOK(Gone, n) /\ ~Live(Gone) /\ Gone.place = "none"
BY BoundsAssumption DEF ChildOK, ChildType, FullyIdle, Gone, Live, Items

LEMMA OpenedIsOK ==
  ASSUME NEW n \in Items, NEW place \in {"viewed", "parked"}
  PROVE  /\ ChildOK(Opened(place), n) /\ ~Live(Opened(place))
         /\ Opened(place).place = place /\ Opened(place).runtime = "idle"
         /\ Opened(place).waiting = 0 /\ Opened(place).seen = 0
<1>1. Gone \in ChildType
  BY BoundsAssumption DEF ChildType, Gone, Items
<1>2. Opened(place) \in ChildType
  BY <1>1 DEF ChildType, Opened
<1>3. /\ Opened(place).place = place /\ Opened(place).runtime = Gone.runtime
      /\ Opened(place).waiting = Gone.waiting /\ Opened(place).seen = Gone.seen
      /\ Opened(place).submitted = Gone.submitted
  BY <1>1 DEF ChildType, Opened
<1> QED BY <1>2, <1>3 DEF ChildOK, FullyIdle, Gone, Live

LEMMA DispatchIsOK ==
  ASSUME NEW n \in Items, NEW c, ChildOK(c, n), agent \in AgentType
  PROVE  /\ ChildOK(Dispatch(c), n)
         /\ Served(Dispatch(c), agent.reading)
         /\ Dispatch(c).place = c.place /\ Dispatch(c).runtime = c.runtime
         /\ Dispatch(c).waiting = c.waiting /\ Dispatch(c).seen = c.seen
         /\ Dispatch(c).turn = c.turn /\ Dispatch(c).tasks = c.tasks
         /\ FullyIdle(Dispatch(c)) => FullyIdle(c)
<1>1. CASE CanDispatch(c) /\ agent.reading
  BY <1>1 DEF ChildOK, ChildType, FullyIdle, Dispatch, CanDispatch, Served, Live
<1>2. CASE ~(CanDispatch(c) /\ agent.reading)
  BY <1>2 DEF ChildOK, ChildType, FullyIdle, Dispatch, CanDispatch, Served, Live
<1> QED BY <1>1, <1>2

LEMMA EnsureStartedIsOK ==
  ASSUME NEW n \in Items, NEW c, ChildOK(c, n)
  PROVE  /\ ChildOK(EnsureStarted(c), n)
         /\ Live(EnsureStarted(c)) <=> Live(c)
         /\ EnsureStarted(c).place = c.place /\ EnsureStarted(c).waiting = c.waiting
         /\ EnsureStarted(c).seen = c.seen
         /\ FullyIdle(EnsureStarted(c)) => FullyIdle(c)
         /\ Live(c) => EnsureStarted(c) = c
<1>1. CASE c.place # "none" /\ c.runtime = "idle"
  BY <1>1 DEF ChildOK, ChildType, FullyIdle, EnsureStarted, Live
<1>2. CASE ~(c.place # "none" /\ c.runtime = "idle")
  BY <1>2 DEF ChildOK, ChildType, FullyIdle, EnsureStarted, Live
<1> QED BY <1>1, <1>2

LEMMA QueuedIsOK ==
  ASSUME NEW n \in Items, NEW c, ChildOK(c, n), agent \in AgentType
  PROVE  /\ ChildOK(Queued(c), n)
         /\ Served(Queued(c), agent.reading)
         /\ Live(Queued(c)) <=> Live(c)
         /\ Queued(c).waiting > 0
         /\ c.place = "viewed" <=> Queued(c).place = "viewed"
<1> DEFINE resident == IF c.place = "none" THEN Opened("parked") ELSE c
           longer == [resident EXCEPT !.waiting = @ + 1]
<1>1. /\ ChildOK(resident, n)
      /\ Live(resident) <=> Live(c)
      /\ c.place = "viewed" <=> resident.place = "viewed"
      /\ resident.place # "none"
  <2>1. CASE c.place = "none"
    BY <2>1, OpenedIsOK DEF ChildOK, FullyIdle, Live
  <2>2. CASE c.place # "none"
    BY <2>2
  <2> QED BY <2>1, <2>2
<1>2. Queued(c) = EnsureStarted(Dispatch(longer))
  BY DEF Queued
<1> HIDE DEF resident
<1>3. /\ ChildOK(longer, n)
      /\ Live(longer) <=> Live(resident)
      /\ longer.waiting > 0 /\ longer.place = resident.place
  BY <1>1 DEF ChildOK, ChildType, FullyIdle, Live
<1> HIDE DEF longer
<1>4. /\ ChildOK(Dispatch(longer), n) /\ Served(Dispatch(longer), agent.reading)
      /\ Dispatch(longer).place = longer.place /\ Dispatch(longer).waiting > 0
      /\ Live(Dispatch(longer)) <=> Live(longer)
  BY <1>3, DispatchIsOK DEF Live
<1>5. /\ ChildOK(Queued(c), n)
      /\ Live(Queued(c)) <=> Live(Dispatch(longer))
      /\ Queued(c).place = longer.place /\ Queued(c).waiting > 0
      /\ Live(Dispatch(longer)) => Queued(c) = Dispatch(longer)
  BY <1>2, <1>4, EnsureStartedIsOK
<1>6. Served(Queued(c), agent.reading)
  BY <1>4, <1>5 DEF Served
<1> QED BY <1>1, <1>3, <1>4, <1>5, <1>6

LEMMA StoppedIsOK ==
  ASSUME NEW n \in Items, NEW c, ChildOK(c, n)
  PROVE  /\ ChildOK(Stopped(c), n) /\ ~Live(Stopped(c))
         /\ Stopped(c).place = c.place /\ Stopped(c).waiting = c.waiting
         /\ Stopped(c).runtime = "idle" /\ Stopped(c).submitted = FALSE
BY DEF ChildOK, ChildType, FullyIdle, Stopped, Live

LEMMA EmptiedIsOK ==
  ASSUME NEW n \in Items, NEW c, ChildOK(c, n)
  PROVE  /\ ChildOK([Stopped(c) EXCEPT !.waiting = 0], n)
         /\ ~Live([Stopped(c) EXCEPT !.waiting = 0])
         /\ [Stopped(c) EXCEPT !.waiting = 0].place = c.place
<1> DEFINE s == Stopped(c)
<1>1. ChildOK(s, n) /\ s.runtime = "idle" /\ s.submitted = FALSE /\ s.place = c.place
  BY StoppedIsOK
<1> HIDE DEF s
<1>2. ChildOK([s EXCEPT !.waiting = 0], n) /\ ~Live([s EXCEPT !.waiting = 0])
      /\ [s EXCEPT !.waiting = 0].place = s.place
  BY <1>1 DEF ChildOK, ChildType, FullyIdle, Live
<1> QED BY <1>1, <1>2 DEF s

-------------------------------------------------------------------------------
(* The debt and the callbacks *)

\* A debt names the message that opened it, and the callbacks are numbered.
TalkOK ==
  /\ meta \in MetaType
  /\ meta.debt.report # "none" => meta.debt.opened # 0
  /\ calls \in Seq(CallType) /\ told \subseteq DOMAIN calls
  /\ lead \in LeadType

\* What is stored of the child beside its debt, and what the lead does.
SameBesides ==
  /\ meta'.archived = meta.archived /\ meta'.cancelled = meta.cancelled
  /\ lead'.archived = lead.archived /\ lead'.open = lead.open

LEMMA TellTalks ==
  ASSUME TalkOK, caps.leadSteers \in BOOLEAN, dismissed \in BOOLEAN, meta.debt.report # "none",
         NEW kind \in {"reported", "updated"} \union Verdicts, NEW item \in Items,
         Tell(kind, item)
  PROVE  /\ calls' \in Seq(CallType) /\ Len(calls') = Len(calls) + 1
         /\ \A i \in 1..Len(calls) : calls'[i] = calls[i]
         /\ calls'[Len(calls) + 1] = [kind |-> kind, item |-> item, opened |-> meta.debt.opened,
                                       void |-> dismissed]
         /\ DOMAIN calls \subseteq DOMAIN calls' /\ told' = told /\ lead' \in LeadType'
         /\ lead'.archived = lead.archived /\ lead'.open = lead.open
<1> DEFINE call == [kind |-> kind, item |-> item, opened |-> meta.debt.opened, void |-> dismissed]
           n == Len(calls) + 1
<1>1. meta.debt.opened \in Messages
  BY DEF TalkOK, MetaType, DebtType
<1>2. call \in CallType
  BY <1>1 DEF CallType
<1>3. calls' = Append(calls, call) /\ told' = told
  BY DEF Tell
<1>4. calls \in Seq(CallType)
  BY DEF TalkOK
<1> HIDE DEF call
<1>5. /\ calls' \in Seq(CallType) /\ Len(calls') = Len(calls) + 1
      /\ \A i \in 1..Len(calls) : calls'[i] = calls[i]
      /\ calls'[Len(calls) + 1] = call
  BY <1>2, <1>3, <1>4, AppendProperties
<1>6. DOMAIN calls \subseteq DOMAIN calls' /\ n \in DOMAIN calls'
  BY <1>4, <1>5, LenProperties
<1>7. lead' \in LeadType' /\ lead'.archived = lead.archived /\ lead'.open = lead.open
  <2>1. lead \in LeadType'
    BY <1>6 DEF TalkOK, LeadType
  <2>2. CASE lead.turn /\ caps.leadSteers
    <3>1. lead' = [lead EXCEPT !.inbox = IF lead.reading THEN @ \union {n} ELSE @]
      BY <2>2 DEF Tell
    <3> QED BY <1>6, <2>1, <3>1 DEF LeadType
  <2>3. CASE ~(lead.turn /\ caps.leadSteers)
    <3>1. lead' = [lead EXCEPT !.queue = @ \union {n}]
      BY <2>3 DEF Tell
    <3> QED BY <1>6, <2>1, <3>1 DEF LeadType
  <2> QED BY <2>2, <2>3
<1> QED BY <1>3, <1>5, <1>6, <1>7 DEF call

\* The debt after a report or a verdict.
LEMMA FailsTalks ==
  ASSUME TalkOK, caps.leadSteers \in BOOLEAN, dismissed \in BOOLEAN, Fails
  PROVE  /\ TalkOK' /\ SameBesides
         /\ Owed(meta') => Owed(meta) /\ ~Expectant
<1>1. CASE Expectant /\ Owed(meta)
  <2>1. meta' = [meta EXCEPT !.debt.report = "failed"] /\ Tell("failed", 0)
    BY <1>1 DEF Fails, Closes
  <2>2. meta' \in MetaType /\ meta'.debt.report = "failed" /\ meta'.debt.opened = meta.debt.opened
        /\ meta'.archived = meta.archived /\ meta'.cancelled = meta.cancelled
    BY <2>1 DEF TalkOK, MetaType, DebtType, Verdicts
  <2>3. meta.debt.report # "none" /\ 0 \in Items
    BY <1>1, BoundsAssumption DEF Owed, Items
  <2> QED BY <2>1, <2>2, <2>3, TellTalks DEF TalkOK, SameBesides, Owed, Verdicts
<1>2. CASE ~(Expectant /\ Owed(meta))
  BY <1>2 DEF Fails, callbacks, TalkOK, SameBesides, CallType, LeadType
<1> QED BY <1>1, <1>2

LEMMA ReportsTalks ==
  ASSUME NEW n \in Items, NEW c, ChildOK(c, n), TalkOK, caps.leadSteers \in BOOLEAN,
         dismissed \in BOOLEAN, Expectant, Reports(c)
  PROVE  TalkOK' /\ SameBesides /\ child' = c /\ ~Owed(meta')
<1> DEFINE kind == IF meta.debt.item # 0 THEN "updated" ELSE "reported"
<1>1. c.seen \in Items
  BY DEF ChildOK, ChildType
<1>2. kind \in {"reported", "updated"} \union Verdicts
  OBVIOUS
<1>3. /\ meta' = [meta EXCEPT !.debt.report = "reported", !.debt.item = c.seen]
      /\ Tell(kind, c.seen) /\ child' = c
  BY DEF Reports
<1> HIDE DEF kind
<1>4. /\ meta' \in MetaType /\ meta'.debt.report = "reported"
      /\ meta'.debt.opened = meta.debt.opened
      /\ meta'.archived = meta.archived /\ meta'.cancelled = meta.cancelled
  BY <1>1, <1>3 DEF TalkOK, MetaType, DebtType
<1>5. meta.debt.report # "none"
  BY DEF Expectant
<1> QED BY <1>1, <1>2, <1>3, <1>4, <1>5, TellTalks DEF TalkOK, SameBesides, Owed

LEMMA FallsBackTalks ==
  ASSUME NEW c, TalkOK, caps.leadSteers \in BOOLEAN, dismissed \in BOOLEAN, Expectant,
         FallsBack(c)
  PROVE  TalkOK' /\ SameBesides /\ child' = c /\ ~Owed(meta')
<1>1. meta' = [meta EXCEPT !.debt.report = "unreported"] /\ Tell("unreported", 0) /\ child' = c
  BY DEF FallsBack, Closes
<1>2. /\ meta' \in MetaType /\ meta'.debt.report = "unreported"
      /\ meta'.debt.opened = meta.debt.opened
      /\ meta'.archived = meta.archived /\ meta'.cancelled = meta.cancelled
  BY <1>1 DEF TalkOK, MetaType, DebtType, Verdicts
<1>3. meta.debt.report # "none" /\ 0 \in Items
  BY BoundsAssumption DEF Expectant, Items
<1> QED BY <1>1, <1>2, <1>3, TellTalks DEF TalkOK, SameBesides, Owed, Verdicts

LEMMA RemindsTalks ==
  ASSUME NEW c, TalkOK, caps.leadSteers \in BOOLEAN, dismissed \in BOOLEAN, Expectant,
         Reminds(c)
  PROVE  TalkOK' /\ SameBesides /\ child' = Queued(c)
<1>1. child' = Queued(c)
  BY DEF Reminds
<1>2. meta.debt.report # "none" /\ 0 \in Items
  BY BoundsAssumption DEF Expectant, Items
<1>3. CASE c.place = "viewed" /\ Live(c) /\ ~agent.reading
  <2>1. /\ meta' = [meta EXCEPT !.debt.reminded = TRUE, !.debt.report = "failed"]
        /\ Tell("failed", 0)
    BY <1>3 DEF Reminds
  <2>2. /\ meta' \in MetaType /\ meta'.debt.report = "failed"
        /\ meta'.debt.opened = meta.debt.opened
        /\ meta'.archived = meta.archived /\ meta'.cancelled = meta.cancelled
    BY <2>1 DEF TalkOK, MetaType, DebtType, Verdicts
  <2> QED BY <1>1, <1>2, <2>1, <2>2, TellTalks DEF TalkOK, SameBesides, Verdicts
<1>4. CASE ~(c.place = "viewed" /\ Live(c) /\ ~agent.reading)
  <2>1. meta' = [meta EXCEPT !.debt.reminded = TRUE] /\ UNCHANGED callbacks
    BY <1>4 DEF Reminds
  <2>2. /\ meta' \in MetaType /\ meta'.debt.opened = meta.debt.opened
        /\ meta'.archived = meta.archived /\ meta'.cancelled = meta.cancelled
    BY <2>1 DEF TalkOK, MetaType, DebtType
  <2>3. CallType' = CallType /\ LeadType' = LeadType
    BY <2>1 DEF callbacks, CallType, LeadType
  <2> QED BY <1>1, <1>2, <2>1, <2>2, <2>3 DEF callbacks, TalkOK, SameBesides
<1> QED BY <1>1, <1>3, <1>4

\* A settled child that still owes a report has something to do.
LEMMA SettlesTalks ==
  ASSUME NEW n \in Items, NEW c, ChildOK(c, n), Live(c), Served(c, agent.reading),
         agent \in AgentType, TalkOK, caps.leadSteers \in BOOLEAN, dismissed \in BOOLEAN,
         NEW status \in {"completed", "failed", "interrupted"}, Settles(c, status)
  PROVE  /\ TalkOK' /\ SameBesides
         /\ ChildOK(child', n) /\ Live(child') /\ Served(child', agent.reading)
         /\ c.place = "viewed" <=> child'.place = "viewed"
         /\ Owed(meta') /\ ~meta.archived /\ ~meta.cancelled /\ ~lead.archived
              /\ status # "interrupted" => ~FullyIdle(child')
<1> DEFINE Goal == /\ TalkOK' /\ SameBesides
                   /\ ChildOK(child', n) /\ Live(child') /\ Served(child', agent.reading)
                   /\ c.place = "viewed" <=> child'.place = "viewed"
                   /\ Owed(meta') /\ ~meta.archived /\ ~meta.cancelled /\ ~lead.archived
                        /\ status # "interrupted" => ~FullyIdle(child')
<1>1. CASE Silent(c, status) /\ child' = c /\ UNCHANGED <<meta, callbacks>>
  <2>1. TalkOK' /\ SameBesides
    BY <1>1 DEF callbacks, TalkOK, SameBesides, CallType, LeadType
  <2>2. Owed(meta) /\ ~meta.archived /\ ~meta.cancelled /\ ~lead.archived => Expectant
    BY DEF Owed, Expectant
  <2>3. Owed(meta) /\ Expectant /\ status # "interrupted"
          => c.turn \/ ~Quiescent(c) \/ status = "failed"
    BY <1>1 DEF Silent
  <2> QED BY <1>1, <2>1, <2>2, <2>3 DEF Quiescent, FullyIdle, Live, Silent
<1>2. CASE ~Silent(c, status) /\ Reports(c)
  BY <1>2, ReportsTalks DEF Silent
<1>3. CASE ~Silent(c, status) /\ Fails /\ child' = c
  BY <1>3, FailsTalks DEF Silent
<1>4. CASE ~Silent(c, status) /\ Reminds(c)
  <2>1. Expectant
    BY <1>4 DEF Silent
  <2> QED BY <1>4, <2>1, RemindsTalks, QueuedIsOK DEF FullyIdle, ChildOK, ChildType
<1>5. CASE ~Silent(c, status) /\ FallsBack(c)
  BY <1>5, FallsBackTalks DEF Silent
<1> QED BY <1>1, <1>2, <1>3, <1>4, <1>5 DEF Settles

-------------------------------------------------------------------------------
(* The types *)

PlainTypes ==
  /\ caps \in [childSteers : ChildSteers, tools : Tools, leadSteers : LeadSteers]
  /\ made \in Seq(Messages) /\ Len(made) <= MaxReports
  /\ written \in Messages /\ left \in BOOLEAN /\ blind \subseteq Messages
  /\ dismissed \in BOOLEAN /\ upsets \in 0..MaxUpsets

\* The child's thread and its provider, which is at rest when no thread listens to it.
ChildPart ==
  /\ ChildOK(child, Len(made))
  /\ Served(child, agent.reading)
  /\ agent \in AgentType /\ (agent.open => agent.prompts > 0)
  /\ ~Live(child) => agent = Resting

Quiet == Select \/ Unselect \/ ReapIdle \/ Loaded \/ LaunchSucceeds \/ TakesTurn \/ Begins
Silences == UserSends \/ DropQueued \/ Archive \/ StartsTask \/ Dies \/ LaunchFails

LEMMA PlainTypesStep ==
  ASSUME PlainTypes, Next
  PROVE  PlainTypes'
<1>1. written \in Nat /\ MaxMessages \in Nat /\ MaxUpsets \in Nat /\ upsets \in Nat
  BY BoundsAssumption DEF PlainTypes, Messages
<1>2. ASSUME UNCHANGED <<caps, made, written, blind, dismissed>>, left' \in BOOLEAN,
             Upset \/ UNCHANGED upsets
      PROVE  PlainTypes'
  BY <1>1, <1>2 DEF PlainTypes, Upset
<1>3. CASE Quiet \/ Closed \/ TaskIsOver \/ EndsTask \/ LeadTurn \/ LeadReads \/ LeadEnds
           \/ LeadEnded \/ Unarchive
  BY <1>2, <1>3 DEF Quiet, Select, Unselect, ReapIdle, Loaded, LaunchSucceeds, TakesTurn, Begins,
    Closed, TaskIsOver, EndsTask, LeadTurn, LeadReads, LeadEnds, LeadEnded, Unarchive, history,
    stored, PlainTypes
<1>4. CASE Silences \/ ArchiveLead \/ LeadDies \/ LeadClosed
  BY <1>2, <1>4 DEF Silences, UserSends, DropQueued, Archive, StartsTask, Dies, LaunchFails,
    ArchiveLead, LeadDies, LeadClosed, stored, PlainTypes
<1>5. CASE Ends
  BY <1>2, <1>5 DEF Ends, Finishes, PlainTypes
<1>6. CASE Send
  <2>1. /\ written < MaxMessages /\ written' = written + 1 /\ left' = FALSE /\ dismissed' = FALSE
        /\ blind' = blind \/ blind' = blind \union {written + 1}
        /\ caps' = caps /\ made' = made /\ upsets' = upsets
    BY <1>6 DEF Send
  <2>2. written + 1 \in Messages
    BY <1>1, <2>1 DEF Messages
  <2> QED BY <2>1, <2>2 DEF PlainTypes
<1>7. CASE Cancel
  BY <1>1, <1>7 DEF Cancel, Upset, PlainTypes
<1>8. CASE Restart
  <2>1. /\ upsets < MaxUpsets /\ upsets' = upsets + 1 /\ left' = TRUE /\ dismissed' = FALSE
        /\ caps' = caps /\ made' = made /\ written' = written /\ blind' = blind
    BY <1>8 DEF Restart, Upset, stored
  <2>2. upsets' \in 0..MaxUpsets
    BY <1>1, <2>1
  <2> QED BY <2>1, <2>2 DEF PlainTypes
<1>9. CASE Report
  <2>1. made' = Append(made, written) /\ Len(made) < MaxReports
        /\ UNCHANGED <<caps, written, left, blind, dismissed, upsets>>
    BY <1>9 DEF Report, history
  <2>2. made' \in Seq(Messages) /\ Len(made') = Len(made) + 1
    BY <2>1, AppendProperties DEF PlainTypes
  <2>3. Len(made') <= MaxReports
    BY <2>1, <2>2, BoundsAssumption, LenProperties DEF PlainTypes
  <2> QED BY <2>1, <2>2, <2>3 DEF PlainTypes
<1> QED
  BY <1>3, <1>4, <1>5, <1>6, <1>7, <1>8, <1>9 DEF Next, People, Launch, Provider, Lead, Quiet,
    Silences

\* The child whose turn ended, with what waits on its way, as it is settled.
LEMMA EndedIsOK ==
  ASSUME PlainTypes, TalkOK, ChildPart, NEW status \in {"completed", "failed", "interrupted"},
         Finishes(status)
  PROVE  /\ TalkOK' /\ SameBesides
         /\ ChildPart' /\ (child.place = "viewed" <=> child'.place = "viewed")
         /\ Owed(meta') /\ ~meta.archived /\ ~meta.cancelled /\ ~lead.archived
              /\ status # "interrupted" => ~FullyIdle(child')
<1> DEFINE n == Len(made)
           over == [child EXCEPT !.turn = FALSE, !.tasks = agent.task]
           c == Dispatch(over)
<1>1. n \in Items /\ caps.leadSteers \in BOOLEAN /\ dismissed \in BOOLEAN
  BY CapsAssumption, BoundsAssumption, LenProperties DEF PlainTypes, Items
<1>2. /\ agent \in AgentType /\ agent.open /\ agent.prompts > 0
      /\ agent' = [agent EXCEPT !.open = FALSE, !.prompts = @ - 1]
      /\ Settles(c, status) /\ made' = made
  BY DEF ChildPart, Finishes
<1>3. Live(child) /\ ChildOK(child, n)
  BY <1>2 DEF ChildPart, Resting
<1>4. ChildOK(over, n) /\ Live(over) /\ over.place = child.place
  BY <1>2, <1>3 DEF ChildOK, ChildType, AgentType, FullyIdle, Live
<1> HIDE DEF over
<1>5. ChildOK(c, n) /\ Live(c) /\ Served(c, agent.reading) /\ c.place = child.place
  BY <1>1, <1>2, <1>4, DispatchIsOK DEF Live
<1> HIDE DEF c
<1>6. /\ agent' \in AgentType /\ agent'.reading = agent.reading /\ agent'.open = FALSE
  <2>1. agent.prompts - 1 \in Nat
    BY <1>2 DEF AgentType
  <2> QED BY <1>2, <2>1 DEF AgentType
<1> HIDE DEF n
<1>7. /\ TalkOK' /\ SameBesides
      /\ ChildOK(child', n) /\ Live(child') /\ Served(child', agent.reading)
      /\ c.place = "viewed" <=> child'.place = "viewed"
      /\ Owed(meta') /\ ~meta.archived /\ ~meta.cancelled /\ ~lead.archived
              /\ status # "interrupted" => ~FullyIdle(child')
  BY <1>1, <1>2, <1>5, SettlesTalks
<1>8. ChildPart'
  BY <1>2, <1>6, <1>7 DEF ChildPart, n
<1> QED BY <1>5, <1>7, <1>8

LEMMA TaskIsOverIsOK ==
  ASSUME PlainTypes, TalkOK, ChildPart, TaskIsOver
  PROVE  /\ TalkOK' /\ SameBesides
         /\ ChildPart' /\ (child.place = "viewed" <=> child'.place = "viewed")
         /\ Owed(meta') /\ ~meta.archived /\ ~meta.cancelled /\ ~lead.archived
              => ~FullyIdle(child')
<1> DEFINE n == Len(made)
           c == [child EXCEPT !.tasks = FALSE]
<1>1. n \in Items /\ caps.leadSteers \in BOOLEAN /\ dismissed \in BOOLEAN
  BY CapsAssumption, BoundsAssumption, LenProperties DEF PlainTypes, Items
<1>2. /\ agent \in AgentType /\ agent.task /\ (agent.open => agent.prompts > 0)
      /\ agent' = [agent EXCEPT !.task = FALSE]
      /\ Settles(c, "completed") /\ made' = made
  BY DEF ChildPart, TaskIsOver
<1>3. Live(child) /\ ChildOK(child, n) /\ Served(child, agent.reading)
  BY <1>2 DEF ChildPart, Resting
<1>4. ChildOK(c, n) /\ Live(c) /\ c.place = child.place /\ Served(c, agent.reading)
  BY <1>2, <1>3 DEF ChildOK, ChildType, FullyIdle, Live, Served
<1> HIDE DEF c
<1>5. /\ agent' \in AgentType /\ agent'.reading = agent.reading /\ agent'.open = agent.open
      /\ agent'.prompts = agent.prompts
  BY <1>2 DEF AgentType
<1> HIDE DEF n
<1>6. /\ TalkOK' /\ SameBesides
      /\ ChildOK(child', n) /\ Live(child') /\ Served(child', agent.reading)
      /\ c.place = "viewed" <=> child'.place = "viewed"
      /\ Owed(meta') /\ ~meta.archived /\ ~meta.cancelled /\ ~lead.archived
              => ~FullyIdle(child')
  BY <1>1, <1>2, <1>4, SettlesTalks
<1>7. ChildPart'
  BY <1>2, <1>5, <1>6 DEF ChildPart, n
<1> QED BY <1>4, <1>6, <1>7

LEMMA TalkStep ==
  ASSUME PlainTypes, TalkOK, ChildPart, Next
  PROVE  TalkOK'
<1>1. caps.leadSteers \in BOOLEAN /\ dismissed \in BOOLEAN /\ written \in Messages
      /\ MaxMessages \in Nat /\ child.seen \in Items
  BY CapsAssumption, BoundsAssumption DEF PlainTypes, ChildPart, ChildOK, ChildType
<1>2. ASSUME UNCHANGED <<calls, told>>, meta' \in MetaType,
             meta'.debt.report # "none" => meta'.debt.opened # 0, lead' \in LeadType
      PROVE  TalkOK'
  BY <1>2 DEF TalkOK, CallType, LeadType
<1>3. CASE Quiet \/ DropQueued \/ StartsTask \/ Dies \/ EndsTask \/ Report
  BY <1>2, <1>3 DEF Quiet, Select, Unselect, ReapIdle, Loaded, LaunchSucceeds, TakesTurn, Begins,
    DropQueued, StartsTask, Dies, EndsTask, Report, stored, callbacks, TalkOK
<1>4. CASE Ends
  BY <1>4, EndedIsOK DEF Ends
<1>5. CASE TaskIsOver
  BY <1>5, TaskIsOverIsOK
<1>6. CASE LaunchFails
  BY <1>1, <1>6, FailsTalks DEF LaunchFails
<1>7. CASE Closed
  BY <1>1, <1>2, <1>7, FailsTalks DEF Closed, callbacks, TalkOK
<1>8. CASE Send
  <2>1. /\ written < MaxMessages /\ UNCHANGED callbacks
        /\ meta' = [meta EXCEPT !.debt = Owing(written + 1, child.seen), !.archived = FALSE,
                                !.cancelled = FALSE]
    BY <1>8 DEF Send, LastReport
  <2> DEFINE debt == Owing(written + 1, child.seen)
  <2>2. written + 1 \in Messages /\ written + 1 # 0
    BY <1>1, <2>1 DEF Messages
  <2>3. debt \in DebtType /\ debt.opened = written + 1
    BY <1>1, <2>2 DEF DebtType, Owing
  <2>4. meta' = [meta EXCEPT !.debt = debt, !.archived = FALSE, !.cancelled = FALSE]
    BY <2>1
  <2> HIDE DEF debt
  <2>5. meta' \in MetaType /\ meta'.debt = debt
    BY <2>3, <2>4 DEF TalkOK, MetaType
  <2> QED BY <1>2, <2>1, <2>2, <2>3, <2>5 DEF callbacks, TalkOK
<1>9. CASE Cancel
  <2>1. meta' = [meta EXCEPT !.cancelled = TRUE, !.debt = Nothing] /\ UNCHANGED callbacks
    BY <1>9 DEF Cancel, Cancelled
  <2>2. Nothing \in DebtType /\ Nothing.report = "none"
    BY BoundsAssumption DEF DebtType, Nothing, Items
  <2>3. meta' \in MetaType /\ meta'.debt = Nothing
    BY <2>1, <2>2 DEF TalkOK, MetaType
  <2> QED BY <1>2, <2>1, <2>2, <2>3 DEF callbacks, TalkOK
<1>10. CASE UserSends \/ Archive \/ Unarchive
  <2>1. meta' \in MetaType /\ meta'.debt = meta.debt
    BY <1>10 DEF UserSends, Archive, Unarchive, PutAway, TalkOK, MetaType
  <2>2. lead' \in LeadType /\ UNCHANGED <<calls, told>>
    BY <1>10 DEF UserSends, Archive, Unarchive, callbacks, TalkOK, LeadType
  <2> QED BY <1>2, <2>1, <2>2 DEF TalkOK
<1>11. CASE ArchiveLead
  <2>1. meta' \in MetaType /\ meta'.debt = meta.debt
    BY <1>11 DEF ArchiveLead, PutAway, TalkOK, MetaType
  <2>2. lead' \in LeadType /\ UNCHANGED <<calls, told>>
    BY <1>11 DEF ArchiveLead, TalkOK, LeadType
  <2> QED BY <1>2, <2>1, <2>2 DEF TalkOK
<1>12. CASE LeadEnds \/ LeadEnded \/ LeadDies \/ LeadClosed
  <2>1. lead' \in LeadType /\ UNCHANGED <<meta, calls, told>>
    BY <1>12 DEF LeadEnds, LeadEnded, LeadDies, LeadClosed, stored, TalkOK, LeadType
  <2> QED BY <1>2, <2>1 DEF TalkOK
<1>13. CASE LeadTurn \/ LeadReads
  <2>1. lead' \in LeadType /\ UNCHANGED <<meta, calls>> /\ told' \subseteq DOMAIN calls
    BY <1>13 DEF LeadTurn, LeadReads, stored, TalkOK, LeadType
  <2> QED BY <2>1 DEF TalkOK, CallType, LeadType
<1>14. CASE Restart
  <2>1. /\ lead' = [AtRest EXCEPT !.archived = lead.archived]
        /\ calls' = <<>> /\ told' = {} /\ meta' = meta
    BY <1>14 DEF Restart, stored
  <2>2. lead' = [live |-> FALSE, reading |-> FALSE, turn |-> FALSE, open |-> FALSE, queue |-> {},
                 inbox |-> {}, archived |-> lead.archived]
    BY <2>1 DEF AtRest
  <2>3. lead.archived \in BOOLEAN
    BY DEF TalkOK, LeadType
  <2>4. lead' \in LeadType'
    BY <2>2, <2>3 DEF LeadType
  <2>5. calls' \in Seq(CallType)
    BY <2>1, EmptySeq
  <2> QED BY <2>1, <2>4, <2>5 DEF TalkOK, CallType
<1> QED
  BY <1>3, <1>4, <1>5, <1>6, <1>7, <1>8, <1>9, <1>10, <1>11, <1>12, <1>13, <1>14 DEF Next, People,
    Launch, Provider, Lead, Quiet

-------------------------------------------------------------------------------
(* A child that is waited for has something to do *)

\* While the lead waits the child has work; who put a thread away does not wait for it,
\* and nobody shows it.
WaitPart ==
  /\ lead.archived => left /\ ~lead.open
  /\ meta.archived => meta.cancelled /\ child.place # "viewed"
  /\ Waits => ~FullyIdle(child)

LEMMA BecomesPart ==
  ASSUME ChildPart, made' = made, NEW c, ChildOK(c, Len(made)), Served(c, agent.reading),
         ChildBecomes(c)
  PROVE  ChildPart' /\ child' = c
<1>1. Resting \in AgentType /\ Resting.open = FALSE
  BY DEF Resting, AgentType
<1>2. CASE Live(c)
  BY <1>2 DEF ChildBecomes, ChildPart
<1>3. CASE ~Live(c)
  BY <1>1, <1>3 DEF ChildBecomes, ChildPart, Served
<1> QED BY <1>2, <1>3

LEMMA StaysBusy ==
  ASSUME WaitPart, UNCHANGED <<meta, lead, left>>,
         child'.place = "viewed" => child.place = "viewed" \/ ~meta.archived,
         FullyIdle(child') => FullyIdle(child)
  PROVE  WaitPart'
BY DEF WaitPart, Waits

LEMMA SelectKeeps ==
  ASSUME PlainTypes, ChildPart, WaitPart, Select
  PROVE  ChildPart' /\ WaitPart'
<1> DEFINE n == Len(made)
<1>1. /\ n \in Items /\ agent \in AgentType /\ ChildOK(child, n)
      /\ Served(child, agent.reading)
  BY BoundsAssumption, LenProperties DEF PlainTypes, ChildPart, Items
<1>2. UNCHANGED <<made, meta, lead, left>> /\ ~meta.archived
  BY DEF Select, stored, callbacks, history
<1>3. CASE child.place = "none"
  <2>1. ChildBecomes(Opened("viewed"))
    BY <1>3 DEF Select
  <2>2. ChildPart' /\ child' = Opened("viewed")
    BY <1>1, <1>2, <2>1, OpenedIsOK, BecomesPart DEF Served
  <2>3. FullyIdle(child)
    BY <1>1, <1>3 DEF ChildOK
  <2> QED BY <1>2, <2>2, <2>3, StaysBusy
<1>4. CASE child.place # "none"
  <2> DEFINE shown == [child EXCEPT !.place = "viewed", !.loading = TRUE]
             seen == Dispatch(shown)
             c == IF child.waiting > 0 THEN EnsureStarted(seen) ELSE seen
  <2>1. ChildBecomes(c)
    BY <1>4 DEF Select
  <2>2. ChildOK(shown, n) /\ (FullyIdle(shown) => FullyIdle(child))
    BY <1>1 DEF ChildOK, ChildType, FullyIdle
  <2> HIDE DEF shown
  <2>3. /\ ChildOK(seen, n) /\ (FullyIdle(seen) => FullyIdle(shown))
        /\ Served(seen, agent.reading)
    BY <1>1, <2>2, DispatchIsOK
  <2> HIDE DEF seen, n
  <2>4. /\ ChildOK(c, n) /\ (FullyIdle(c) => FullyIdle(seen)) /\ Served(c, agent.reading)
    BY <1>1, <2>3, EnsureStartedIsOK DEF Served
  <2> HIDE DEF c
  <2>5. ChildPart' /\ child' = c
    BY <1>2, <2>1, <2>4, BecomesPart DEF n
  <2> QED BY <1>2, <2>2, <2>3, <2>4, <2>5, StaysBusy
<1> QED BY <1>3, <1>4

LEMMA UnselectKeeps ==
  ASSUME PlainTypes, ChildPart, WaitPart, Unselect \/ ReapIdle
  PROVE  ChildPart' /\ WaitPart'
<1> DEFINE n == Len(made)
           parked == [child EXCEPT !.place = "parked", !.loading = FALSE]
<1>1. /\ n \in Items /\ agent \in AgentType /\ ChildOK(child, n)
      /\ Served(child, agent.reading)
  BY BoundsAssumption, LenProperties DEF PlainTypes, ChildPart, Items
<1>2. UNCHANGED <<made, meta, lead, left>>
  BY DEF Unselect, ReapIdle, stored, callbacks, history
<1>3. CASE FullyIdle(child) /\ ChildBecomes(Gone)
  <2>1. ChildPart' /\ child' = Gone
    BY <1>1, <1>2, <1>3, GoneIsOK, BecomesPart DEF Served
  <2> QED BY <1>1, <1>2, <1>3, <2>1, GoneIsOK, StaysBusy
<1>4. CASE FullyIdle(child) /\ child.place = "viewed" /\ ChildBecomes(Stopped(child))
  <2>1. ChildPart' /\ child' = Stopped(child)
    BY <1>1, <1>2, <1>4, StoppedIsOK, BecomesPart DEF Served
  <2> QED BY <1>1, <1>2, <1>4, <2>1, StoppedIsOK, StaysBusy
<1>5. CASE ChildBecomes(parked)
  <2>1. /\ ChildOK(parked, n) /\ Served(parked, agent.reading) /\ parked.place = "parked"
        /\ FullyIdle(parked) => FullyIdle(child)
    BY <1>1 DEF ChildOK, ChildType, FullyIdle, Served, Live
  <2> HIDE DEF parked
  <2>2. ChildPart' /\ child' = parked
    BY <1>2, <1>5, <2>1, BecomesPart
  <2> QED BY <1>2, <2>1, <2>2, StaysBusy
<1> QED BY <1>3, <1>4, <1>5 DEF Unselect, ReapIdle

LEMMA UserSendsKeeps ==
  ASSUME PlainTypes, TalkOK, ChildPart, WaitPart, UserSends
  PROVE  ChildPart' /\ WaitPart'
<1>1. /\ Len(made) \in Items /\ agent \in AgentType /\ ChildOK(child, Len(made))
  BY BoundsAssumption, LenProperties DEF PlainTypes, ChildPart, Items
<1>2. /\ UNCHANGED <<made, lead, left>> /\ child.place = "viewed" /\ ChildBecomes(Queued(child))
      /\ meta' = [meta EXCEPT !.cancelled = FALSE]
  BY DEF UserSends, callbacks
<1>3. meta'.archived = FALSE
  BY <1>2 DEF WaitPart, TalkOK, MetaType
<1>4. /\ ChildOK(Queued(child), Len(made)) /\ Served(Queued(child), agent.reading)
      /\ Queued(child).waiting > 0
  BY <1>1, QueuedIsOK
<1>5. ChildPart' /\ child' = Queued(child)
  BY <1>2, <1>4, BecomesPart
<1>6. ~FullyIdle(child')
  BY <1>4, <1>5 DEF FullyIdle, ChildOK, ChildType
<1> QED BY <1>2, <1>3, <1>5, <1>6 DEF WaitPart

LEMMA DropQueuedKeeps ==
  ASSUME PlainTypes, ChildPart, WaitPart, DropQueued
  PROVE  ChildPart' /\ WaitPart'
<1> DEFINE n == Len(made)
           c == [child EXCEPT !.waiting = @ - 1]
<1>1. /\ n \in Items /\ agent \in AgentType /\ ChildOK(child, n)
      /\ Served(child, agent.reading)
  BY BoundsAssumption, LenProperties DEF PlainTypes, ChildPart, Items
<1>2. /\ UNCHANGED <<made, meta, lead>> /\ left' = TRUE /\ ChildBecomes(c)
      /\ child.waiting > 0 /\ (child.submitted => child.waiting > 1)
  BY <1>1 DEF DropQueued, stored, callbacks, ChildOK, ChildType
<1>3. child.waiting - 1 \in Nat
  BY <1>1, <1>2 DEF ChildOK, ChildType
<1>4. ChildOK(c, n) /\ Served(c, agent.reading) /\ c.place = child.place
  BY <1>1, <1>2, <1>3 DEF ChildOK, ChildType, FullyIdle, Served, Live
<1> HIDE DEF c
<1>5. ChildPart' /\ child' = c
  BY <1>2, <1>4, BecomesPart
<1> QED BY <1>2, <1>4, <1>5 DEF WaitPart, Waits

LEMMA PutAwayKeeps ==
  ASSUME PlainTypes, TalkOK, ChildPart, WaitPart, Archive \/ ArchiveLead \/ Unarchive
  PROVE  ChildPart' /\ WaitPart'
<1>1. /\ Len(made) \in Items /\ Served(Gone, agent.reading) /\ Gone.place = "none"
      /\ ChildOK(Gone, Len(made))
  BY BoundsAssumption, LenProperties, GoneIsOK DEF PlainTypes, Items, Served
<1>2. meta \in MetaType /\ lead \in LeadType
  BY DEF TalkOK
<1>3. CASE Archive \/ ArchiveLead
  <2>1. UNCHANGED made /\ ChildBecomes(Gone)
    BY <1>3 DEF Archive, ArchiveLead
  <2>2. ChildPart' /\ child' = Gone
    BY <1>1, <2>1, BecomesPart
  <2>3. meta'.archived /\ meta'.cancelled
    BY <1>2, <1>3 DEF Archive, ArchiveLead, PutAway, MetaType
  <2>4. lead'.archived => left' /\ ~lead'.open
    BY <1>2, <1>3 DEF Archive, ArchiveLead, callbacks, WaitPart, LeadType
  <2> QED BY <1>1, <2>2, <2>3, <2>4 DEF WaitPart, Waits
<1>4. CASE Unarchive
  <2>1. UNCHANGED <<made, child, agent, left>>
    BY <1>4 DEF Unarchive, history
  <2>2. ~meta'.archived /\ meta'.cancelled = meta.cancelled /\ (lead'.archived => lead' = lead)
    BY <1>2, <1>4 DEF Unarchive, MetaType, LeadType
  <2>3. meta.cancelled \/ left
    BY <1>4 DEF Unarchive, WaitPart
  <2> QED BY <2>1, <2>2, <2>3 DEF WaitPart, Waits, ChildPart
<1> QED BY <1>3, <1>4

\* What the lead does to the child, and what becomes of the lead.
LEMMA SendKeeps ==
  ASSUME PlainTypes, TalkOK, ChildPart, WaitPart, Send
  PROVE  ChildPart' /\ WaitPart'
<1>1. /\ Len(made) \in Items /\ agent \in AgentType /\ ChildOK(child, Len(made))
  BY BoundsAssumption, LenProperties DEF PlainTypes, ChildPart, Items
<1>2. lead.open /\ UNCHANGED <<made, lead>>
  BY DEF Send, LeadWorks, callbacks
<1>3. ~meta'.archived
  BY DEF Send, TalkOK, MetaType
<1>4. CASE CanSteer(child) /\ UNCHANGED <<child, agent>>
  BY <1>1, <1>2, <1>3, <1>4 DEF CanSteer, FullyIdle, ChildPart, WaitPart
<1>5. CASE ChildBecomes(Queued(child))
  <2>1. /\ ChildOK(Queued(child), Len(made)) /\ Served(Queued(child), agent.reading)
        /\ Queued(child).waiting > 0
    BY <1>1, QueuedIsOK
  <2>2. ChildPart' /\ child' = Queued(child)
    BY <1>2, <1>5, <2>1, BecomesPart
  <2>3. ~FullyIdle(child')
    BY <2>1, <2>2 DEF FullyIdle, ChildOK, ChildType
  <2> QED BY <1>2, <1>3, <2>2, <2>3 DEF WaitPart
<1> QED BY <1>4, <1>5 DEF Send

LEMMA CancelKeeps ==
  ASSUME PlainTypes, TalkOK, ChildPart, WaitPart, Cancel
  PROVE  ChildPart' /\ WaitPart'
<1> DEFINE n == Len(made)
           empty == [Stopped(child) EXCEPT !.waiting = 0]
<1>1. /\ n \in Items /\ ChildOK(child, n)
  BY BoundsAssumption, LenProperties DEF PlainTypes, ChildPart, Items
<1>2. UNCHANGED <<made, lead>> /\ lead.open
  BY DEF Cancel, LeadWorks, callbacks
<1>3. ~Owed(meta') /\ meta'.cancelled
  BY DEF Cancel, Cancelled, Owed, Nothing, TalkOK, MetaType
<1>4. /\ ChildOK(empty, n) /\ ~Live(empty) /\ ChildOK(Gone, n) /\ ~Live(Gone)
      /\ Gone.place = "none"
  BY <1>1, EmptiedIsOK, GoneIsOK
<1>5. (child.place = "viewed" /\ ChildBecomes(empty)) \/ ChildBecomes(Gone)
  BY DEF Cancel
<1> HIDE DEF empty
<1>6. ChildPart' /\ (child'.place = "viewed" => child.place = "viewed")
  BY <1>2, <1>4, <1>5, BecomesPart DEF Served
<1>7. meta'.archived = meta.archived
  BY DEF Cancel, Cancelled, TalkOK, MetaType
<1> QED BY <1>2, <1>3, <1>6, <1>7 DEF WaitPart, Waits

LEMMA LeadKeeps ==
  ASSUME PlainTypes, TalkOK, ChildPart, WaitPart,
         LeadTurn \/ LeadReads \/ LeadEnds \/ LeadEnded \/ LeadDies
  PROVE  ChildPart' /\ WaitPart'
<1>1. UNCHANGED <<made, child, agent, meta, left>>
  BY DEF LeadTurn, LeadReads, LeadEnds, LeadEnded, LeadDies, stored, history
<1>2. lead'.archived => lead.archived /\ (lead'.open => lead.open)
  BY DEF LeadTurn, LeadReads, LeadEnds, LeadEnded, LeadDies, TalkOK, LeadType
<1> QED BY <1>1, <1>2 DEF ChildPart, WaitPart, Waits

LEMMA LeadClosedKeeps ==
  ASSUME PlainTypes, TalkOK, ChildPart, WaitPart, LeadClosed
  PROVE  ChildPart' /\ WaitPart'
<1>1. /\ Len(made) \in Items /\ Served(Gone, agent.reading) /\ Gone.place = "none"
      /\ ChildOK(Gone, Len(made))
  BY BoundsAssumption, LenProperties, GoneIsOK DEF PlainTypes, Items, Served
<1>2. UNCHANGED <<made, meta>> /\ lead'.archived = lead.archived /\ lead'.open = lead.open
  BY DEF LeadClosed, stored, TalkOK, LeadType
<1>3. CASE ChildBecomes(Gone) /\ left' = TRUE
  <2>1. ChildPart' /\ child' = Gone
    BY <1>1, <1>2, <1>3, BecomesPart
  <2> QED BY <1>1, <1>2, <1>3, <2>1 DEF WaitPart, Waits
<1>4. CASE UNCHANGED <<child, agent, left>>
  BY <1>2, <1>4 DEF ChildPart, WaitPart, Waits
<1> QED BY <1>3, <1>4 DEF LeadClosed

\* What the child's provider does.
LEMMA ProviderKeeps ==
  ASSUME PlainTypes, TalkOK, ChildPart, WaitPart,
         Loaded \/ LaunchSucceeds \/ TakesTurn \/ Begins \/ Report \/ StartsTask \/ EndsTask \/ Dies
  PROVE  ChildPart' /\ WaitPart'
<1> DEFINE n == Len(made)
<1>1. /\ n \in Items /\ agent \in AgentType /\ (agent.open => agent.prompts > 0)
      /\ ChildOK(child, n) /\ Served(child, agent.reading) /\ (~Live(child) => agent = Resting)
  BY BoundsAssumption, LenProperties DEF PlainTypes, ChildPart, Items
<1>2. UNCHANGED <<meta, lead>> /\ left' = left
  BY DEF Loaded, LaunchSucceeds, TakesTurn, Begins, Report, StartsTask, EndsTask, Dies, stored,
    callbacks, history
<1>3. CASE Loaded
  <2>1. child' = [child EXCEPT !.loading = FALSE, !.seen = n] /\ UNCHANGED <<made, agent>>
    BY <1>3 DEF Loaded, stored
  <2> HIDE DEF n
  <2>2. /\ ChildOK(child', n) /\ Served(child', agent.reading) /\ (Live(child') <=> Live(child))
        /\ child'.place = child.place /\ (FullyIdle(child') => FullyIdle(child))
    BY <1>1, <2>1 DEF ChildOK, ChildType, FullyIdle, Served, Live
  <2> QED BY <1>1, <1>2, <2>1, <2>2, StaysBusy DEF ChildPart, n
<1>4. CASE LaunchSucceeds
  <2> DEFINE up == [child EXCEPT !.runtime = "live"]
             c == IF up.waiting > 0 THEN [up EXCEPT !.submitted = TRUE] ELSE up
  <2>1. /\ child.runtime = "starting" /\ child' = c
        /\ agent' = [Resting EXCEPT !.reading = TRUE] /\ made' = made
    BY <1>4 DEF LaunchSucceeds, stored
  <2>2. /\ ChildOK(up, n) /\ Live(up) /\ up.place = child.place
        /\ FullyIdle(up) => FullyIdle(child)
    BY <1>1, <2>1 DEF ChildOK, ChildType, FullyIdle, Live
  <2> HIDE DEF up
  <2>3. /\ ChildOK(c, n) /\ Live(c) /\ c.place = up.place
        /\ FullyIdle(c) => FullyIdle(up)
        /\ Served(c, TRUE)
    BY <2>2 DEF ChildOK, ChildType, FullyIdle, Live, Served
  <2> HIDE DEF c, n
  <2>4. agent' \in AgentType /\ agent'.open = FALSE /\ agent'.reading = TRUE
    BY <2>1 DEF Resting, AgentType
  <2> QED BY <1>1, <1>2, <2>1, <2>2, <2>3, <2>4, StaysBusy DEF ChildPart, n
<1>5. CASE TakesTurn
  <2>1. /\ child.submitted /\ agent.reading /\ made' = made
        /\ child' = [child EXCEPT !.submitted = FALSE, !.turn = TRUE, !.waiting = @ - 1]
        /\ agent' = [agent EXCEPT !.prompts = @ + 1]
    BY <1>5 DEF TakesTurn, stored
  <2>2. child.waiting - 1 \in Nat
    BY <1>1, <2>1 DEF ChildOK, ChildType
  <2>3. /\ ChildOK(child', n) /\ (Live(child') <=> Live(child)) /\ child'.turn
        /\ child'.place = child.place
    BY <1>1, <2>1, <2>2 DEF ChildOK, ChildType, FullyIdle, Live
  <2>4. agent' \in AgentType /\ (agent'.open => agent'.prompts > 0)
    BY <1>1, <2>1 DEF AgentType
  <2>5. Live(child)
    BY <1>1, <2>1 DEF Resting
  <2> HIDE DEF n
  <2> QED BY <1>2, <2>1, <2>3, <2>4, <2>5, StaysBusy DEF ChildPart, Served, FullyIdle, n
<1>6. CASE Begins
  <2>1. /\ agent.reading /\ agent.prompts > 0 /\ made' = made
        /\ agent' = [agent EXCEPT !.open = TRUE] /\ child' = [child EXCEPT !.turn = TRUE]
    BY <1>6 DEF Begins, stored
  <2>2. Live(child)
    BY <1>1, <2>1 DEF Resting
  <2>3. /\ ChildOK(child', n) /\ Live(child') /\ child'.turn /\ child'.place = child.place
    BY <1>1, <2>1, <2>2 DEF ChildOK, ChildType, FullyIdle, Live
  <2>4. agent' \in AgentType /\ agent'.prompts > 0
    BY <1>1, <2>1 DEF AgentType
  <2> HIDE DEF n
  <2> QED BY <1>2, <2>1, <2>3, <2>4, StaysBusy DEF ChildPart, Served, FullyIdle, n
<1>7. CASE Report
  <2>1. /\ agent.reading /\ Len(made) < MaxReports /\ made' = Append(made, written)
        /\ child' = [child EXCEPT !.seen = n + 1] /\ agent' = agent
    BY <1>7 DEF Report
  <2>2. Len(made') = n + 1 /\ n + 1 \in Items
    BY <1>1, <2>1, BoundsAssumption, AppendProperties DEF PlainTypes, Items
  <2>3. Live(child)
    BY <1>1, <2>1 DEF Resting
  <2> HIDE DEF n
  <2>4. /\ ChildOK(child', n + 1) /\ Live(child') /\ child'.place = child.place
        /\ Served(child', agent.reading) /\ (FullyIdle(child') => FullyIdle(child))
    BY <1>1, <2>1, <2>2, <2>3 DEF ChildOK, ChildType, FullyIdle, Live, Served
  <2> QED BY <1>1, <1>2, <2>1, <2>2, <2>4, StaysBusy DEF ChildPart
<1>8. CASE StartsTask
  <2>1. /\ agent.reading /\ made' = made
        /\ agent' = [agent EXCEPT !.task = TRUE] /\ child' = [child EXCEPT !.tasks = TRUE]
    BY <1>8 DEF StartsTask, stored
  <2>2. Live(child)
    BY <1>1, <2>1 DEF Resting
  <2>3. /\ ChildOK(child', n) /\ Live(child') /\ child'.tasks /\ child'.place = child.place
        /\ Served(child', agent.reading)
    BY <1>1, <2>1, <2>2 DEF ChildOK, ChildType, FullyIdle, Live, Served
  <2>4. /\ agent' \in AgentType /\ (agent'.open => agent'.prompts > 0)
        /\ agent'.reading = agent.reading
    BY <1>1, <2>1 DEF AgentType
  <2> HIDE DEF n
  <2> QED BY <1>2, <2>1, <2>3, <2>4, StaysBusy DEF ChildPart, FullyIdle, n
<1>9. CASE EndsTask
  <2>1. /\ agent.reading /\ UNCHANGED <<made, child>>
        /\ agent' = [agent EXCEPT !.task = FALSE, !.prompts = @ + 1]
    BY <1>9 DEF EndsTask, stored
  <2>2. Live(child)
    BY <1>1, <2>1 DEF Resting
  <2>3. agent.prompts + 1 \in Nat /\ agent.prompts + 1 > 0
    BY <1>1 DEF AgentType
  <2>4. agent' \in AgentType /\ agent'.prompts > 0 /\ agent'.reading = agent.reading
    BY <1>1, <2>1, <2>3 DEF AgentType
  <2> QED BY <1>1, <1>2, <2>1, <2>2, <2>4, StaysBusy DEF ChildPart
<1>10. CASE Dies
  <2>1. /\ agent.reading /\ UNCHANGED <<made, child>>
    BY <1>10 DEF Dies, stored
  <2>2. PICK open \in {FALSE, agent.open} :
          agent' = [agent EXCEPT !.reading = FALSE, !.open = open, !.task = FALSE]
    BY <1>10 DEF Dies
  <2>3. Live(child)
    BY <1>1, <2>1 DEF Resting
  <2>4. agent' \in AgentType /\ (agent'.open => agent'.prompts > 0) /\ ~agent'.reading
    BY <1>1, <2>2 DEF AgentType
  <2> QED BY <1>1, <1>2, <2>1, <2>3, <2>4, StaysBusy DEF ChildPart, Served
<1> QED BY <1>3, <1>4, <1>5, <1>6, <1>7, <1>8, <1>9, <1>10

LEMMA LaunchFailsKeeps ==
  ASSUME PlainTypes, TalkOK, ChildPart, WaitPart, LaunchFails
  PROVE  ChildPart' /\ WaitPart'
<1> DEFINE n == Len(made)
           empty == [Stopped(child) EXCEPT !.waiting = 0]
<1>1. n \in Items /\ ChildOK(child, n) /\ caps.leadSteers \in BOOLEAN /\ dismissed \in BOOLEAN
  BY CapsAssumption, BoundsAssumption, LenProperties DEF PlainTypes, ChildPart, Items
<1>2. Fails /\ ChildBecomes(empty) /\ UNCHANGED <<made, left>>
  BY DEF LaunchFails
<1>3. ChildOK(empty, n) /\ ~Live(empty) /\ empty.place = child.place
  BY <1>1, EmptiedIsOK
<1> HIDE DEF empty
<1>4. ChildPart' /\ child' = empty
  BY <1>2, <1>3, BecomesPart DEF Served
<1>5. SameBesides /\ (Owed(meta') => Owed(meta) /\ ~Expectant)
  BY <1>1, <1>2, FailsTalks
<1>6. ~Waits'
  BY <1>2, <1>5 DEF WaitPart, Waits, SameBesides, Expectant, Owed
<1> QED BY <1>2, <1>3, <1>4, <1>5, <1>6 DEF WaitPart, SameBesides

LEMMA ClosedKeeps ==
  ASSUME PlainTypes, TalkOK, ChildPart, WaitPart, Closed
  PROVE  ChildPart' /\ WaitPart'
<1> DEFINE n == Len(made)
           c == IF child.place = "parked" /\ child.waiting = 0 THEN Gone ELSE Stopped(child)
<1>1. n \in Items /\ ChildOK(child, n) /\ caps.leadSteers \in BOOLEAN /\ dismissed \in BOOLEAN
  BY CapsAssumption, BoundsAssumption, LenProperties DEF PlainTypes, ChildPart, Items
<1>2. ChildBecomes(c) /\ UNCHANGED <<made, left>>
  BY DEF Closed, history
<1>3. /\ ChildOK(c, n) /\ ~Live(c) /\ (c.place = "viewed" => child.place = "viewed")
      /\ child.place = "parked" /\ child.waiting > 0 => c.waiting > 0
  <2>1. CASE child.place = "parked" /\ child.waiting = 0
    BY <1>1, <2>1, GoneIsOK
  <2>2. CASE ~(child.place = "parked" /\ child.waiting = 0)
    BY <1>1, <2>2, StoppedIsOK
  <2> QED BY <2>1, <2>2
<1> HIDE DEF c
<1>4. ChildPart' /\ child' = c
  BY <1>2, <1>3, BecomesPart DEF Served
<1>5. CASE child.place = "parked" /\ child.waiting > 0 /\ UNCHANGED <<meta, callbacks>>
  <2>1. ~FullyIdle(child')
    BY <1>3, <1>4, <1>5 DEF FullyIdle, ChildOK, ChildType
  <2> QED BY <1>2, <1>3, <1>4, <1>5, <2>1 DEF WaitPart, callbacks
<1>6. CASE Fails
  <2>1. SameBesides /\ (Owed(meta') => Owed(meta) /\ ~Expectant)
    BY <1>1, <1>6, FailsTalks
  <2>2. ~Waits'
    BY <1>2, <2>1 DEF WaitPart, Waits, SameBesides, Expectant, Owed
  <2> QED BY <1>2, <1>3, <1>4, <2>1, <2>2 DEF WaitPart, SameBesides
<1> QED BY <1>5, <1>6 DEF Closed

\* A settled child: what still is owed has something under way.
LEMMA EndsKeeps ==
  ASSUME PlainTypes, TalkOK, ChildPart, WaitPart, Ends \/ TaskIsOver
  PROVE  ChildPart' /\ WaitPart'
<1>1. CASE TaskIsOver
  BY <1>1, TaskIsOverIsOK DEF TaskIsOver, history, WaitPart, Waits, SameBesides
<1>2. ASSUME NEW status \in {"completed", "failed"}, Finishes(status), UNCHANGED left
      PROVE  ChildPart' /\ WaitPart'
  BY <1>2, EndedIsOK DEF WaitPart, Waits, SameBesides
<1>3. CASE Finishes("interrupted") /\ left' = TRUE
  BY <1>3, EndedIsOK DEF WaitPart, Waits, SameBesides
<1> QED BY <1>1, <1>2, <1>3 DEF Ends

LEMMA RestartKeeps ==
  ASSUME PlainTypes, TalkOK, ChildPart, WaitPart, Restart
  PROVE  ChildPart' /\ WaitPart'
<1>1. /\ Len(made) \in Items /\ ChildOK(Gone, Len(made)) /\ ~Live(Gone) /\ Gone.place = "none"
  BY BoundsAssumption, LenProperties, GoneIsOK DEF PlainTypes, Items
<1>2. /\ child' = Gone /\ agent' = Resting /\ left' = TRUE /\ UNCHANGED <<made, meta>>
      /\ lead' = [AtRest EXCEPT !.archived = lead.archived]
  BY DEF Restart, stored
<1>3. lead'.open = FALSE
  BY <1>2 DEF AtRest
<1>4. Resting \in AgentType /\ Resting.open = FALSE
  BY DEF Resting, AgentType
<1> QED BY <1>1, <1>2, <1>3, <1>4 DEF ChildPart, WaitPart, Waits, Served

LEMMA StateStep ==
  ASSUME PlainTypes, TalkOK, ChildPart, WaitPart, Next
  PROVE  ChildPart' /\ WaitPart'
BY SelectKeeps, UnselectKeeps, UserSendsKeeps, DropQueuedKeeps, PutAwayKeeps, SendKeeps,
  CancelKeeps, LeadKeeps, LeadClosedKeeps, ProviderKeeps, LaunchFailsKeeps, ClosedKeeps,
  EndsKeeps, RestartKeeps DEF Next, People, Launch, Provider, Lead

-------------------------------------------------------------------------------
(* The theorems *)

IInv == PlainTypes /\ TalkOK /\ ChildPart /\ WaitPart

\* The child was just dispatched, and its launch is under way.
LEMMA InitIInv ==
  ASSUME Init
  PROVE  IInv
<1>1. 0 \in Items /\ 1 \in Messages /\ 0 \in 0..MaxUpsets /\ MaxReports \in Nat
  BY BoundsAssumption DEF Items, Messages
<1>2. PlainTypes
  <2>1. made \in Seq(Messages) /\ Len(made) = 0
    BY EmptySeq DEF Init
  <2>2. Len(made) <= MaxReports
    BY <1>1, <2>1
  <2>3. /\ caps \in [childSteers : ChildSteers, tools : Tools, leadSteers : LeadSteers]
        /\ written \in Messages /\ upsets \in 0..MaxUpsets /\ blind \subseteq Messages
    BY <1>1 DEF Init
  <2>4. left \in BOOLEAN /\ dismissed \in BOOLEAN
    BY DEF Init
  <2> QED BY <2>1, <2>2, <2>3, <2>4 DEF PlainTypes
<1>3. Owing(1, 0) \in DebtType /\ Owing(1, 0).opened = 1
  BY <1>1 DEF Owing, DebtType
<1>4. meta \in MetaType /\ meta.debt.opened = 1 /\ ~meta.archived
  BY <1>3 DEF Init, MetaType
<1>5. calls \in Seq(CallType) /\ told \subseteq DOMAIN calls
  BY EmptySeq DEF Init
<1>6. lead \in LeadType /\ ~lead.archived
  BY DEF Init, AtRest, LeadType
<1>7. TalkOK
  BY <1>4, <1>5, <1>6 DEF TalkOK
<1>8. /\ child \in ChildType /\ child.submitted = FALSE /\ child.place = "parked"
      /\ child.waiting = 1 /\ child.seen = 0 /\ child.runtime = "starting"
  BY <1>1 DEF Init, Gone, ChildType
<1>9. agent = Resting /\ agent \in AgentType /\ agent.open = FALSE
  BY DEF Init, Resting, AgentType
<1>10. ChildPart
  BY <1>8, <1>9 DEF ChildPart, ChildOK, Served, Live
<1>11. WaitPart
  BY <1>4, <1>6, <1>8 DEF WaitPart, FullyIdle
<1> QED BY <1>2, <1>7, <1>10, <1>11 DEF IInv

LEMMA StutterIInv ==
  ASSUME IInv, UNCHANGED vars
  PROVE  IInv'
BY DEF IInv, vars, stored, callbacks, history, PlainTypes, TalkOK, CallType, LeadType, ChildPart,
  WaitPart, Waits

\* In every state the child's record fits its provider and its reports, and a child its
\* lead waits for has something to do: where settle_child_expectation, a close, a failed
\* launch or an archive leaves the child idle, it takes the debt away or reports.
THEOREM ChildInvariance == Spec => []IInv
<1>1. Init => IInv
  BY InitIInv
<1>2. IInv /\ [Next]_vars => IInv'
  <2>1. IInv /\ Next => IInv'
    BY PlainTypesStep, TalkStep, StateStep DEF IInv
  <2> QED BY <2>1, StutterIInv
<1> QED BY <1>1, <1>2, PTL DEF Spec

\* Every variable has its type, whatever the providers can do and however many messages,
\* reports and upsets there are.
THEOREM ChildTypesHold == Spec => []TypeOK
<1>1. IInv => TypeOK
  BY DEF IInv, PlainTypes, TalkOK, ChildPart, ChildOK, TypeOK
<1> QED BY <1>1, ChildInvariance, PTL

\* A lead never waits for a child that went quiet: while a report is owed, a turn, a
\* launch, a background task or the end of its process is still to be heard of by
\* settle_child_expectation or fail_child_expectation, or its queue is stranded.
THEOREM TheWaitEnds == Spec => []OwedIsComing
<1>1. IInv => OwedIsComing
  <2>1. SUFFICES ASSUME IInv, Waits PROVE Coming(child) \/ Stranded(child)
    BY DEF OwedIsComing
  <2>2. /\ ~FullyIdle(child) /\ child \in ChildType /\ Served(child, agent.reading)
    BY <2>1 DEF IInv, WaitPart, ChildPart, ChildOK
  <2>3. CASE child.waiting = 0
    BY <2>2, <2>3 DEF FullyIdle, Coming
  <2>4. CASE child.waiting > 0
    BY <2>2, <2>4 DEF Served, Coming, Stranded, Live, ChildType
  <2> QED BY <2>2, <2>3, <2>4 DEF ChildType
<1> QED BY <1>1, ChildInvariance, PTL

-------------------------------------------------------------------------------
(* What the callbacks so far leave room for *)

\* While a debt stands: nothing was told of it if it is still owed, what was told of it is
\* no newer than the report the child's record remembers, and what is newer than that was
\* made after the lead's message.
DebtNews ==
  meta.debt.report # "none" =>
    /\ ~dismissed
    /\ \A i \in DOMAIN calls : calls[i].opened = meta.debt.opened =>
         ~Owed(meta) /\ calls[i].item <= meta.debt.item
    /\ meta.debt.opened \notin blind =>
         \A k \in DOMAIN made : k > meta.debt.item => made[k] >= meta.debt.opened

Bounds ==
  /\ meta.debt.item <= Len(made) /\ meta.debt.opened <= written
  /\ \A i \in DOMAIN calls : calls[i].opened <= written /\ calls[i].item <= Len(made)

NewsPart == Bounds /\ DebtNews /\ ToldOnce /\ AnswersTheMessage

\* Nothing is told and no debt is opened or closed.
LEMMA SameNews ==
  ASSUME NewsPart, UNCHANGED <<calls, made, written, blind, dismissed>>,
         meta'.debt.report = meta.debt.report, meta'.debt.opened = meta.debt.opened,
         meta'.debt.item = meta.debt.item
  PROVE  NewsPart'
BY DEF NewsPart, Bounds, DebtNews, Owed, ToldOnce, AnswersTheMessage

\* A call is added to the end, about the debt that stands.
LEMMA TellNews ==
  ASSUME PlainTypes, TalkOK, NewsPart, UNCHANGED <<made, written, blind, dismissed>>,
         meta.debt.report # "none",
         NEW kind \in {"reported", "updated"} \union Verdicts, NEW item \in 0..Len(made),
         Tell(kind, item),
         \* A verdict says that no report came; a report is newer than the last one told.
         \/ Owed(meta) /\ item = 0
         \/ kind \notin Verdicts /\ item > meta.debt.item,
         meta'.debt.report # "none", ~Owed(meta'), meta'.debt.opened = meta.debt.opened,
         meta'.debt.item = IF item = 0 THEN meta.debt.item ELSE item
  PROVE  NewsPart'
<1> DEFINE n == Len(calls) + 1
           call == [kind |-> kind, item |-> item, opened |-> meta.debt.opened, void |-> dismissed]
<1>1. /\ made \in Seq(Messages) /\ Len(made) \in Nat /\ Len(made) <= MaxReports
      /\ DOMAIN made = 1..Len(made) /\ written \in Nat /\ ~dismissed /\ MaxReports \in Nat
  BY LenProperties, BoundsAssumption DEF PlainTypes, NewsPart, DebtNews, Messages
<1>2. meta.debt.item \in Nat /\ meta.debt.item <= Len(made)
      /\ meta.debt.opened \in Nat /\ meta.debt.opened <= written
  BY BoundsAssumption DEF TalkOK, MetaType, DebtType, Items, Messages, NewsPart, Bounds
<1>3. item \in Items
  BY <1>1 DEF Items
<1>4. caps.leadSteers \in BOOLEAN /\ dismissed \in BOOLEAN
  BY CapsAssumption DEF PlainTypes
<1>5. /\ calls' \in Seq(CallType) /\ Len(calls') = n
      /\ \A i \in 1..Len(calls) : calls'[i] = calls[i]
      /\ calls'[n] = call
  BY <1>3, <1>4, TellTalks
<1>6. /\ Len(calls) \in Nat /\ DOMAIN calls = 1..Len(calls) /\ DOMAIN calls' = 1..n
      /\ call.kind = kind /\ call.item = item /\ call.opened = meta.debt.opened
      /\ call.void = FALSE
  BY <1>1, <1>5, LenProperties DEF TalkOK
<1> HIDE DEF call
<1>7. \A i \in DOMAIN calls' : i = n \/ (i \in DOMAIN calls /\ calls'[i] = calls[i])
  BY <1>5, <1>6
<1>8. \A i \in DOMAIN calls : calls[i] \in CallType
  BY ElementOfSeq, <1>6 DEF TalkOK
<1> HIDE DEF n
<1>9. \A i \in DOMAIN calls : calls[i].item \in Nat /\ calls[i].opened \in Nat
  BY <1>8, BoundsAssumption DEF CallType, Items, Messages
<1>10. Bounds'
  BY SMTT(60), <1>1, <1>2, <1>5, <1>6, <1>7 DEF NewsPart, Bounds
<1>11. DebtNews'
  BY SMTT(60), <1>1, <1>2, <1>5, <1>6, <1>7, <1>9 DEF NewsPart, DebtNews
<1>12. ToldOnce'
  BY SMTT(60), <1>1, <1>2, <1>5, <1>6, <1>7, <1>9 DEF NewsPart, DebtNews, ToldOnce, n
<1>13. AnswersTheMessage'
  BY SMTT(60), <1>1, <1>2, <1>5, <1>6, <1>7, <1>9 DEF NewsPart, DebtNews, AnswersTheMessage
<1> QED BY <1>10, <1>11, <1>12, <1>13 DEF NewsPart

LEMMA FailsNews ==
  ASSUME PlainTypes, TalkOK, NewsPart, UNCHANGED <<made, written, blind, dismissed>>, Fails
  PROVE  NewsPart'
<1>1. CASE Expectant /\ Owed(meta)
  <2>1. meta' = [meta EXCEPT !.debt.report = "failed"] /\ Tell("failed", 0)
    BY <1>1 DEF Fails, Closes
  <2>2. /\ meta'.debt.report = "failed" /\ meta'.debt.opened = meta.debt.opened
        /\ meta'.debt.item = meta.debt.item
    BY <2>1 DEF TalkOK, MetaType, DebtType
  <2>3. 0 \in 0..Len(made)
    BY LenProperties DEF PlainTypes
  <2> QED BY <1>1, <2>1, <2>2, <2>3, TellNews DEF Owed, Verdicts
<1>2. CASE ~(Expectant /\ Owed(meta))
  <2>1. UNCHANGED <<meta, callbacks>>
    BY <1>2 DEF Fails
  <2> QED BY <2>1, SameNews DEF callbacks
<1> QED BY <1>1, <1>2

LEMMA SettlesNews ==
  ASSUME PlainTypes, TalkOK, NewsPart, UNCHANGED <<made, written, blind, dismissed>>,
         NEW c, ChildOK(c, Len(made)), NEW status, Settles(c, status)
  PROVE  NewsPart'
<1>1. CASE Silent(c, status) /\ UNCHANGED <<meta, callbacks>>
  BY <1>1, SameNews DEF callbacks
<1>2. CASE ~Silent(c, status) /\ Reports(c)
  <2> DEFINE kind == IF meta.debt.item # 0 THEN "updated" ELSE "reported"
  <2>1. /\ meta' = [meta EXCEPT !.debt.report = "reported", !.debt.item = c.seen]
        /\ Tell(kind, c.seen) /\ HasNews(c)
    BY <1>2 DEF Reports
  <2>2. kind \in {"reported", "updated"} /\ kind \notin Verdicts
    BY DEF Verdicts
  <2> HIDE DEF kind
  <2>3. /\ Len(made) \in Nat /\ c.seen = Len(made) /\ c.seen # 0
        /\ meta.debt.item \in Nat /\ c.seen > meta.debt.item
    <3>1. /\ Len(made) \in Nat /\ c.seen = Len(made) /\ c.seen # 0 /\ c.seen # meta.debt.item
      BY <2>1, LenProperties DEF ChildOK, HasNews, PlainTypes
    <3>2. meta.debt.item \in Nat /\ meta.debt.item <= Len(made)
      BY BoundsAssumption DEF TalkOK, MetaType, DebtType, Items, NewsPart, Bounds
    <3> QED BY <3>1, <3>2
  <2>4. /\ meta'.debt.report = "reported" /\ meta'.debt.opened = meta.debt.opened
        /\ meta'.debt.item = c.seen
    BY <2>1 DEF TalkOK, MetaType, DebtType
  <2>5. meta.debt.report # "none"
    BY <1>2 DEF Silent, Expectant
  <2>6. c.seen \in 0..Len(made)
    BY <2>3
  <2> QED BY <2>1, <2>2, <2>3, <2>4, <2>5, <2>6, TellNews DEF Owed
<1>3. CASE Fails
  BY <1>3, FailsNews
<1>4. CASE ~Silent(c, status) /\ ~HasNews(c) /\ status = "completed" /\ (Reminds(c) \/ FallsBack(c))
  <2>1. Owed(meta)
    BY <1>4 DEF Silent
  <2>2. \/ UNCHANGED callbacks /\ meta' = [meta EXCEPT !.debt.reminded = TRUE]
        \/ /\ Tell("failed", 0)
           /\ meta' = [meta EXCEPT !.debt.reminded = TRUE, !.debt.report = "failed"]
        \/ Tell("unreported", 0) /\ meta' = [meta EXCEPT !.debt.report = "unreported"]
    BY <1>4 DEF Reminds, FallsBack, Closes
  <2>3. 0 \in 0..Len(made)
    BY LenProperties DEF PlainTypes
  <2>4. CASE UNCHANGED callbacks /\ meta' = [meta EXCEPT !.debt.reminded = TRUE]
    <3>1. /\ meta'.debt.report = meta.debt.report /\ meta'.debt.opened = meta.debt.opened
          /\ meta'.debt.item = meta.debt.item
      BY <2>4 DEF TalkOK, MetaType, DebtType
    <3> QED BY <2>4, <3>1, SameNews DEF callbacks
  <2>5. CASE /\ Tell("failed", 0)
             /\ meta' = [meta EXCEPT !.debt.reminded = TRUE, !.debt.report = "failed"]
    <3>1. /\ meta'.debt.report = "failed" /\ meta'.debt.opened = meta.debt.opened
          /\ meta'.debt.item = meta.debt.item
      BY <2>5 DEF TalkOK, MetaType, DebtType
    <3> QED BY <2>1, <2>3, <2>5, <3>1, TellNews DEF Owed, Verdicts
  <2>6. CASE Tell("unreported", 0) /\ meta' = [meta EXCEPT !.debt.report = "unreported"]
    <3>1. /\ meta'.debt.report = "unreported" /\ meta'.debt.opened = meta.debt.opened
          /\ meta'.debt.item = meta.debt.item
      BY <2>6 DEF TalkOK, MetaType, DebtType
    <3> QED BY <2>1, <2>3, <2>6, <3>1, TellNews DEF Owed, Verdicts
  <2> QED BY <2>2, <2>4, <2>5, <2>6
<1> QED BY <1>1, <1>2, <1>3, <1>4 DEF Settles

LEMMA SendNews ==
  ASSUME PlainTypes, TalkOK, ChildPart, NewsPart, Send
  PROVE  NewsPart'
<1>1. /\ Len(made) \in Nat /\ DOMAIN made = 1..Len(made) /\ written \in Nat
      /\ child.seen \in {0, Len(made)} /\ child.seen <= Len(made)
  BY LenProperties, BoundsAssumption DEF PlainTypes, ChildPart, ChildOK, Messages
<1>2. /\ UNCHANGED <<made, calls>> /\ written' = written + 1 /\ ~dismissed'
      /\ blind \subseteq blind'
      /\ written + 1 \notin blind' => child.seen = Len(made)
      /\ meta' = [meta EXCEPT !.debt = Owing(written + 1, child.seen), !.archived = FALSE,
                              !.cancelled = FALSE]
  BY DEF Send, LastReport, callbacks
<1>3. meta'.debt.opened = written + 1 /\ meta'.debt.item = child.seen
  BY <1>2 DEF TalkOK, MetaType, Owing
<1>4. \A i \in DOMAIN calls : calls[i].opened \in Nat /\ calls[i].opened <= written
  <2>1. \A i \in DOMAIN calls : calls[i] \in CallType
    BY ElementOfSeq, LenProperties DEF TalkOK
  <2> QED BY <2>1, BoundsAssumption DEF CallType, Messages, NewsPart, Bounds
<1>5. Bounds'
  BY <1>1, <1>2, <1>3, <1>4 DEF NewsPart, Bounds
<1>6. DebtNews'
  BY <1>1, <1>2, <1>3, <1>4 DEF DebtNews
<1>7. ToldOnce' /\ AnswersTheMessage'
  BY <1>2 DEF NewsPart, ToldOnce, AnswersTheMessage
<1> QED BY <1>5, <1>6, <1>7 DEF NewsPart

LEMMA CancelNews ==
  ASSUME PlainTypes, TalkOK, NewsPart, Cancel
  PROVE  NewsPart'
<1>1. UNCHANGED <<made, calls, written, blind>> /\ meta' = Cancelled(meta)
  BY DEF Cancel, callbacks
<1>2. meta'.debt = Nothing
  BY <1>1 DEF Cancelled, TalkOK, MetaType
<1>3. meta'.debt.report = "none" /\ meta'.debt.opened = 0 /\ meta'.debt.item = 0
  BY <1>2 DEF Nothing
<1>4. Len(made) \in Nat /\ written \in Nat
  BY LenProperties, BoundsAssumption DEF PlainTypes, Messages
<1>5. Bounds'
  BY <1>1, <1>3, <1>4 DEF NewsPart, Bounds
<1> QED BY <1>1, <1>3, <1>5 DEF NewsPart, DebtNews, ToldOnce, AnswersTheMessage

LEMMA ReportNews ==
  ASSUME PlainTypes, TalkOK, NewsPart, Report
  PROVE  NewsPart'
<1> DEFINE n == Len(made)
<1>1. made' = Append(made, written) /\ UNCHANGED <<meta, calls, written, blind, dismissed>>
  BY DEF Report, callbacks, history
<1>2. /\ n \in Nat /\ Len(made') = n + 1 /\ DOMAIN made = 1..n /\ DOMAIN made' = 1..(n + 1)
      /\ \A k \in 1..n : made'[k] = made[k]
      /\ made'[n + 1] = written
  BY <1>1, AppendProperties, LenProperties DEF PlainTypes
<1>3. /\ meta.debt.item \in Nat /\ meta.debt.item <= n
      /\ meta.debt.opened \in Nat /\ meta.debt.opened <= written /\ written \in Nat
  BY BoundsAssumption DEF TalkOK, MetaType, DebtType, Items, Messages, NewsPart, Bounds, PlainTypes
<1>4. \A i \in DOMAIN calls : calls[i].item \in Nat /\ calls[i].item <= n
  <2>1. \A i \in DOMAIN calls : calls[i] \in CallType
    BY ElementOfSeq, LenProperties DEF TalkOK
  <2> QED BY <2>1, BoundsAssumption DEF CallType, Items, NewsPart, Bounds
<1> HIDE DEF n
<1>5. Bounds'
  BY <1>1, <1>2, <1>3, <1>4 DEF NewsPart, Bounds
<1>6. DebtNews'
  <2>1. \A k \in DOMAIN made' : k = n + 1 \/ k \in DOMAIN made
    BY <1>2
  <2> QED BY <1>1, <1>2, <1>3, <2>1 DEF NewsPart, DebtNews, Owed
<1>7. ToldOnce'
  BY <1>1 DEF NewsPart, ToldOnce
<1>8. AnswersTheMessage'
  BY <1>1, <1>2, <1>4 DEF NewsPart, AnswersTheMessage
<1> QED BY <1>5, <1>6, <1>7, <1>8 DEF NewsPart

LEMMA RestartNews ==
  ASSUME PlainTypes, TalkOK, NewsPart, Restart
  PROVE  NewsPart'
<1>1. UNCHANGED <<meta, made, written, blind>> /\ calls' = <<>> /\ dismissed' = FALSE
  BY DEF Restart, stored
<1>2. DOMAIN calls' = {}
  BY <1>1
<1> QED BY <1>1, <1>2 DEF NewsPart, Bounds, DebtNews, ToldOnce, AnswersTheMessage

\* What ended is settled on the child with its flags down.
LEMMA ProviderNews ==
  ASSUME PlainTypes, TalkOK, ChildPart, NewsPart, Ends \/ TaskIsOver
  PROVE  NewsPart'
<1> DEFINE n == Len(made)
<1>1. n \in Items /\ ChildOK(child, n) /\ agent \in AgentType
  BY LenProperties, BoundsAssumption DEF PlainTypes, ChildPart, Items
<1>2. ASSUME NEW status, Finishes(status) PROVE NewsPart'
  <2> DEFINE over == [child EXCEPT !.turn = FALSE, !.tasks = agent.task]
             c == Dispatch(over)
  <2>1. /\ UNCHANGED <<made, written, blind, dismissed>> /\ Settles(c, status)
        /\ agent.open /\ agent # Resting
    BY <1>2 DEF Finishes, Resting
  <2>2. Live(child)
    BY <2>1 DEF ChildPart
  <2>3. ChildOK(over, n)
    BY <1>1, <2>2 DEF ChildOK, ChildType, AgentType, FullyIdle, Live
  <2> HIDE DEF over
  <2>4. ChildOK(c, n)
    BY <1>1, <2>3, DispatchIsOK
  <2> HIDE DEF c
  <2> QED BY <2>1, <2>4, SettlesNews
<1>3. CASE TaskIsOver
  <2> DEFINE c == [child EXCEPT !.tasks = FALSE]
  <2>1. UNCHANGED <<made, written, blind, dismissed>> /\ Settles(c, "completed")
    BY <1>3 DEF TaskIsOver, history
  <2>2. ChildOK(c, n)
    BY <1>1 DEF ChildOK, ChildType, FullyIdle
  <2> HIDE DEF c
  <2> QED BY <2>1, <2>2, SettlesNews
<1> QED BY <1>2, <1>3 DEF Ends

LEMMA NewsStep ==
  ASSUME PlainTypes, TalkOK, ChildPart, NewsPart, Next
  PROVE  NewsPart'
<1>1. CASE Quiet \/ DropQueued \/ StartsTask \/ EndsTask \/ Dies
  BY <1>1, SameNews DEF Quiet, Select, Unselect, ReapIdle, Loaded, LaunchSucceeds, TakesTurn,
    Begins, DropQueued, StartsTask, EndsTask, Dies, stored, callbacks, history
<1>2. CASE LeadTurn \/ LeadReads \/ LeadEnds \/ LeadEnded \/ LeadDies \/ LeadClosed
  BY <1>2, SameNews DEF LeadTurn, LeadReads, LeadEnds, LeadEnded, LeadDies, LeadClosed, stored,
    history
<1>3. CASE UserSends \/ Archive \/ ArchiveLead \/ Unarchive
  <2>1. meta'.debt = meta.debt
    BY <1>3 DEF UserSends, Archive, ArchiveLead, Unarchive, PutAway, TalkOK, MetaType
  <2>2. UNCHANGED <<calls, made, written, blind, dismissed>>
    BY <1>3 DEF UserSends, Archive, ArchiveLead, Unarchive, callbacks, history
  <2> QED BY <2>1, <2>2, SameNews
<1>4. CASE LaunchFails \/ Closed
  <2>1. UNCHANGED <<made, written, blind, dismissed>>
    BY <1>4 DEF LaunchFails, Closed, history
  <2>2. CASE Fails
    BY <2>1, <2>2, FailsNews
  <2>3. CASE UNCHANGED <<meta, callbacks>>
    BY <2>1, <2>3, SameNews DEF callbacks
  <2> QED BY <1>4, <2>2, <2>3 DEF LaunchFails, Closed
<1> QED
  BY <1>1, <1>2, <1>3, <1>4, SendNews, CancelNews, ReportNews, RestartNews, ProviderNews DEF Next,
    People, Launch, Provider, Lead, Quiet

-------------------------------------------------------------------------------
(* The theorems *)

LEMMA InitNews ==
  ASSUME Init
  PROVE  NewsPart
<1>1. /\ made = <<>> /\ calls = <<>> /\ written = 1 /\ ~dismissed
      /\ meta.debt.opened = 1 /\ meta.debt.item = 0
  BY DEF Init, Owing
<1>2. DOMAIN calls = {} /\ DOMAIN made = {} /\ Len(made) = 0
  BY <1>1
<1> QED BY <1>1, <1>2 DEF NewsPart, Bounds, DebtNews, ToldOnce, AnswersTheMessage

\* The callbacks made so far fit the debt the child's record keeps: what
\* settle_child_expectation and fail_child_expectation read there decides rightly whether
\* another one is due.
THEOREM NewsInvariance == Spec => [](IInv /\ NewsPart)
<1>1. Init => NewsPart
  BY InitNews
<1>2. IInv /\ NewsPart /\ [Next]_vars => NewsPart'
  <2>1. IInv /\ NewsPart /\ Next => NewsPart'
    BY NewsStep DEF IInv
  <2>2. NewsPart /\ UNCHANGED vars => NewsPart'
    BY SameNews DEF vars, stored, callbacks, history
  <2> QED BY <2>1, <2>2
<1> QED BY <1>1, <1>2, ChildInvariance, PTL DEF Spec

\* However the child's turns, tasks, failures and reports interleave, its lead is not told
\* a report twice for one message, nor after a report that none came: the record's
\* report item and state keep deliver_orchestrate_callback_to_parent from saying it again.
THEOREM EachReportOnce == Spec => []ToldOnce
BY NewsInvariance, PTL DEF NewsPart

\* What the lead is told was reported after the message it is told for, and it is told
\* nothing of work it cancelled: a message sets the older reports of the transcript aside,
\* and cancel_child takes the debt away.
THEOREM ReportsAnswer == Spec => []AnswersTheMessage
BY NewsInvariance, PTL DEF NewsPart

===============================================================================
