---------------------------- MODULE TurnQueueProofs ----------------------------
(***************************************************************************)
(* The invariants of TurnQueue, proved for any number of texts, provider   *)
(* processes, timers and upsets.                                           *)
(*                                                                         *)
(* A handler of the loop is a chain of operators on the record host, each  *)
(* with a lemma ("... Fits"): it takes a record that Fits to one that      *)
(* Fits.  Fits says that what the loop believes (the message in delivery,  *)
(* the open turn, the background task, the idle period) is what the        *)
(* process was told and has told make of it: something on its way, or an   *)
(* end that comes later.  Held is Fits of host between two handlers.       *)
(* Accounted says where each text is: in the queue, in the transcript as a *)
(* turn or as a steer, taken back, or with its composer.                   *)
(***************************************************************************)
EXTENDS TurnQueue, SequenceTheorems, FiniteSetTheorems, WellFoundedInduction, TLAPS

-------------------------------------------------------------------------------
(* Helpers on numbers and sequences *)

Less == {pair \in Nat \X Nat : pair[1] < pair[2]}

LEMMA LeastNatural ==
  ASSUME NEW T \in SUBSET Nat, T # {}
  PROVE  First(T) \in T /\ \A n \in T : First(T) <= n
<1>1. IsWellFoundedOn(Less, Nat)
  BY NatLessThanWellFounded DEF OpToRel, Less
<1>2. PICK least \in T : \A n \in T : <<n, least>> \notin Less
  BY <1>1, WFMin
<1>3. \A n \in T : ~(n < least)
  BY <1>2 DEF Less
<1>4. \A n \in T : least <= n
  BY <1>3
<1> QED BY <1>4 DEF First

LEMMA SequenceElements ==
  ASSUME NEW S, NEW s \in Seq(S)
  PROVE  /\ Len(s) \in Nat /\ DOMAIN s = 1..Len(s)
         /\ \A i \in DOMAIN s : s[i] \in S
BY LenProperties, ElementOfSeq

LEMMA AppendElements ==
  ASSUME NEW S, NEW s \in Seq(S), NEW e \in S
  PROVE  /\ Append(s, e) \in Seq(S) /\ Append(s, e) # <<>>
         /\ DOMAIN Append(s, e) = 1..(Len(s) + 1)
         /\ \A i \in DOMAIN s : Append(s, e)[i] = s[i]
         /\ Append(s, e)[Len(s) + 1] = e
<1>1. DOMAIN s = 1..Len(s)
  BY SequenceElements
<1> QED BY <1>1, AppendProperties, LenProperties

LEMMA TailElements ==
  ASSUME NEW S, NEW s \in Seq(S), s # <<>>
  PROVE  /\ Tail(s) \in Seq(S) /\ DOMAIN s = 1..Len(s) /\ Len(s) \in Nat \ {0}
         /\ DOMAIN Tail(s) = 1..(Len(s) - 1)
         /\ \A i \in 1..(Len(s) - 1) : Tail(s)[i] = s[i + 1]
         /\ Head(s) = s[1] /\ Head(s) \in S
<1>1. Len(s) \in Nat \ {0}
  BY EmptySeq
<1>2. /\ Tail(s) \in Seq(S) /\ Len(Tail(s)) = Len(s) - 1 /\ Head(s) \in S
      /\ \A i \in 1..Len(Tail(s)) : Tail(s)[i] = s[i + 1]
  BY HeadTailProperties
<1>3. DOMAIN s = 1..Len(s) /\ DOMAIN Tail(s) = 1..Len(Tail(s))
  BY <1>2, LenProperties
<1>4. Head(s) = s[1]
  OBVIOUS
<1> QED BY <1>1, <1>2, <1>3, <1>4

LEMMA ConcatElements ==
  ASSUME NEW S, NEW s \in Seq(S), NEW t \in Seq(S)
  PROVE  /\ s \o t \in Seq(S)
         /\ DOMAIN (s \o t) = 1..(Len(s) + Len(t))
         /\ \A i \in DOMAIN s : (s \o t)[i] = s[i]
         /\ \A i \in DOMAIN t : Len(s) + i \in DOMAIN (s \o t) /\ (s \o t)[Len(s) + i] = t[i]
         /\ \A i \in DOMAIN (s \o t) :
              \/ i \in DOMAIN s /\ (s \o t)[i] = s[i]
              \/ i - Len(s) \in DOMAIN t /\ (s \o t)[i] = t[i - Len(s)]
<1>1. /\ Len(s) \in Nat /\ DOMAIN s = 1..Len(s)
      /\ Len(t) \in Nat /\ DOMAIN t = 1..Len(t)
  BY LenProperties
<1>2. /\ s \o t \in Seq(S) /\ Len(s \o t) = Len(s) + Len(t)
      /\ \A i \in 1..(Len(s) + Len(t)) :
           (s \o t)[i] = IF i <= Len(s) THEN s[i] ELSE t[i - Len(s)]
  BY ConcatProperties
<1>3. DOMAIN (s \o t) = 1..(Len(s) + Len(t))
  BY <1>2, LenProperties
<1> QED BY SMTT(60), <1>1, <1>2, <1>3

LEMMA RemoveAtElements ==
  ASSUME NEW S, NEW s \in Seq(S), NEW i \in DOMAIN s
  PROVE  /\ RemoveAt(s, i) \in Seq(S)
         /\ Len(s) \in Nat \ {0} /\ i \in 1..Len(s) /\ DOMAIN s = 1..Len(s)
         /\ DOMAIN RemoveAt(s, i) = 1..(Len(s) - 1)
         /\ Len(RemoveAt(s, i)) = Len(s) - 1
         /\ \A j \in 1..(Len(s) - 1) : RemoveAt(s, i)[j] = s[IF j < i THEN j ELSE j + 1]
<1> DEFINE before == SubSeq(s, 1, i - 1)
           after == SubSeq(s, i + 1, Len(s))
<1>1. Len(s) \in Nat /\ DOMAIN s = 1..Len(s) /\ i \in 1..Len(s)
  BY LenProperties
<1>2. \A j \in 1..Len(s) : s[j] \in S
  BY ElementOfSeq
<1>3. /\ before \in Seq(S) /\ Len(before) = i - 1
      /\ \A j \in 1..(i - 1) : before[j] = s[j]
  BY <1>1, <1>2, SubSeqProperties
<1>4. /\ after \in Seq(S) /\ Len(after) = Len(s) - i
      /\ \A j \in 1..(Len(s) - i) : after[j] = s[i + j]
  BY SMTT(60), <1>1, <1>2, SubSeqProperties
<1> HIDE DEF before, after
<1>0. Len(before) + Len(after) = Len(s) - 1
  BY <1>1, <1>3, <1>4
<1>5. /\ before \o after \in Seq(S) /\ Len(before \o after) = Len(s) - 1
      /\ \A j \in 1..(Len(s) - 1) :
           (before \o after)[j] = IF j <= i - 1 THEN before[j] ELSE after[j - (i - 1)]
  <2>1. /\ before \o after \in Seq(S)
        /\ Len(before \o after) = Len(before) + Len(after)
        /\ \A j \in 1..(Len(before) + Len(after)) : (before \o after)[j] =
             IF j <= Len(before) THEN before[j] ELSE after[j - Len(before)]
    BY <1>3, <1>4, ConcatProperties
  <2> QED BY <1>0, <1>3, <2>1
<1>6. \A j \in 1..(Len(s) - 1) : (before \o after)[j] = s[IF j < i THEN j ELSE j + 1]
  <2> SUFFICES ASSUME NEW j \in 1..(Len(s) - 1)
               PROVE  (before \o after)[j] = s[IF j < i THEN j ELSE j + 1]
    OBVIOUS
  <2>1. CASE j < i
    BY <1>1, <1>3, <1>5, <2>1
  <2>2. CASE ~(j < i)
    <3>1. j - (i - 1) \in 1..(Len(s) - i) /\ i + (j - (i - 1)) = j + 1
      BY <1>1, <2>2
    <3>2. (before \o after)[j] = after[j - (i - 1)]
      BY <1>1, <1>5, <2>2
    <3> QED BY <1>4, <2>2, <3>1, <3>2
  <2> QED BY <2>1, <2>2
<1>7. DOMAIN (before \o after) = 1..(Len(s) - 1)
  BY <1>5, LenProperties
<1>8. before \o after = RemoveAt(s, i)
  BY DEF RemoveAt, before, after
<1>9. \A j \in 1..(Len(s) - 1) : RemoveAt(s, i)[j] = s[IF j < i THEN j ELSE j + 1]
  BY <1>6, <1>8
<1>10. DOMAIN RemoveAt(s, i) = 1..(Len(s) - 1)
  BY <1>7, <1>8
<1>11. RemoveAt(s, i) \in Seq(S) /\ Len(RemoveAt(s, i)) = Len(s) - 1
  BY <1>5, <1>8
<1> QED BY <1>1, <1>9, <1>10, <1>11

\* Sequence q is s with e inserted at place j.
Inserted(q, s, j, e) ==
  /\ DOMAIN q = 1..(Len(s) + 1)
  /\ \A p \in 1..(Len(s) + 1) : q[p] = IF p < j THEN s[p] ELSE IF p = j THEN e ELSE s[p - 1]

LEMMA InsertAtElements ==
  ASSUME NEW S, NEW s \in Seq(S), NEW j \in 1..(Len(s) + 1), NEW e \in S
  PROVE  InsertAt(s, j, e) \in Seq(S) /\ Inserted(InsertAt(s, j, e), s, j, e)
<1> DEFINE before == SubSeq(s, 1, j - 1)
           after == SubSeq(s, j, Len(s))
           left == before \o <<e>>
<1>1. Len(s) \in Nat /\ j \in Nat \ {0} /\ j <= Len(s) + 1
  BY LenProperties
<1>2. \A p \in 1..Len(s) : s[p] \in S
  BY ElementOfSeq
<1>3. /\ before \in Seq(S) /\ Len(before) = j - 1
      /\ \A p \in 1..(j - 1) : before[p] = s[p]
  BY <1>1, <1>2, SubSeqProperties
<1>4. /\ after \in Seq(S) /\ Len(after) = Len(s) + 1 - j
      /\ \A p \in 1..(Len(s) + 1 - j) : after[p] = s[j + p - 1]
  BY <1>1, <1>2, SubSeqProperties
<1>5. <<e>> \in Seq(S) /\ Len(<<e>>) = 1 /\ <<e>>[1] = e
  OBVIOUS
<1> HIDE DEF before, after
<1>6. /\ left \in Seq(S) /\ Len(left) = j
      /\ \A p \in 1..j : left[p] = IF p <= j - 1 THEN before[p] ELSE <<e>>[p - (j - 1)]
  BY <1>1, <1>3, <1>5, ConcatProperties
<1> HIDE DEF left
<1>7. \A p \in 1..j : left[p] = IF p < j THEN s[p] ELSE e
  <2> SUFFICES ASSUME NEW p \in 1..j
               PROVE  left[p] = IF p < j THEN s[p] ELSE e
    OBVIOUS
  <2>1. left[p] = IF p <= j - 1 THEN before[p] ELSE <<e>>[p - (j - 1)]
    BY <1>6
  <2>2. CASE p < j
    <3>1. p \in 1..(j - 1) /\ p <= j - 1
      BY <1>1, <2>2
    <3>2. before[p] = s[p]
      BY <1>3, <3>1
    <3> QED BY <2>1, <2>2, <3>1, <3>2
  <2>3. CASE p = j
    <3>1. ~(p <= j - 1) /\ p - (j - 1) = 1 /\ ~(p < j)
      BY <1>1, <2>3
    <3> QED BY <1>5, <2>1, <3>1
  <2> QED BY <1>1, <2>2, <2>3
<1>8. /\ left \o after \in Seq(S) /\ Len(left \o after) = Len(s) + 1
      /\ \A p \in 1..(Len(s) + 1) :
           (left \o after)[p] = IF p <= j THEN left[p] ELSE after[p - j]
  <2>1. /\ left \o after \in Seq(S) /\ Len(left \o after) = Len(left) + Len(after)
        /\ \A p \in 1..(Len(left) + Len(after)) :
             (left \o after)[p] = IF p <= Len(left) THEN left[p] ELSE after[p - Len(left)]
    <3>1. left \in Seq(S) /\ after \in Seq(S)
      BY <1>4, <1>6
    <3> QED BY <3>1, ConcatProperties
  <2>2. Len(left) = j /\ Len(left) + Len(after) = Len(s) + 1
    BY <1>1, <1>4, <1>6
  <2> QED BY <2>1, <2>2
<1>9. \A p \in 1..(Len(s) + 1) :
        (left \o after)[p] = IF p < j THEN s[p] ELSE IF p = j THEN e ELSE s[p - 1]
  <2> SUFFICES ASSUME NEW p \in 1..(Len(s) + 1)
               PROVE  (left \o after)[p] =
                        IF p < j THEN s[p] ELSE IF p = j THEN e ELSE s[p - 1]
    OBVIOUS
  <2>1. CASE p <= j
    BY <1>1, <1>7, <1>8, <2>1
  <2>2. CASE ~(p <= j)
    <3>1. p - j \in 1..(Len(s) + 1 - j) /\ j + (p - j) - 1 = p - 1
      BY <1>1, <2>2
    <3>2. (left \o after)[p] = after[p - j]
      BY <1>1, <1>8, <2>2
    <3> QED BY <1>1, <1>4, <2>2, <3>1, <3>2
  <2> QED BY <2>1, <2>2
<1>10. DOMAIN (left \o after) = 1..(Len(s) + 1)
  BY <1>1, <1>8, LenProperties
<1>11. InsertAt(s, j, e) = left \o after
  BY DEF InsertAt, before, after, left
<1>12. Inserted(left \o after, s, j, e)
  BY <1>9, <1>10 DEF Inserted
<1> QED BY <1>8, <1>11, <1>12

-------------------------------------------------------------------------------
(* The invariant.  h is the state of the loop in the middle of a handler that began *)
(* with process g0 and agent ag; evs are the events untaken, st the steers shown and *)
(* cl the texts of child threads.                                                    *)

Agents == [open : BOOLEAN, prompts : Nat, task : BOOLEAN]
AgentOf(h, g0, ag) == IF h.gen = g0 THEN ag ELSE Resting
NewsOf(h, evs) == Untaken(evs, h.gen)

GivenFit(g0, evs, ag) ==
  /\ g0 \in Nat /\ ag \in Agents
  /\ \A g \in DOMAIN evs : evs[g] \in Seq(Events)

\* A process that does not run yet, or no more, was told nothing and has told nothing.
ProcessFits(h, g0, evs) ==
  /\ g0 <= h.starts /\ h.gen <= h.starts /\ DOMAIN evs \subseteq 1..h.starts
  /\ h.runtime = "idle" <=> h.gen = 0
  /\ ~Live(h) => /\ h.inbox = <<>> /\ h.delivery = 0 /\ ~h.turn /\ ~h.tasks
                 /\ h.gen \notin DOMAIN evs

\* Every entry has an id of its own, and every text is in one place.
QueueFits(h) ==
  /\ \A i \in DOMAIN h.queue : h.queue[i].id # 0 /\ h.queue[i].id < h.next
                                /\ IsInjective(h.queue[i].texts)
  /\ \A i, j \in DOMAIN h.queue : i # j =>
       /\ h.queue[i].id # h.queue[j].id
       /\ ToSet(h.queue[i].texts) \intersect ToSet(h.queue[j].texts) = {}

\* What is submitted is an entry of the queue, and is on its way once.
Holds(h, id, texts) ==
  \E j \in DOMAIN h.queue : h.queue[j].id = id /\ h.queue[j].texts = texts
Prompts(h) == {i \in DOMAIN h.inbox : h.inbox[i].do = "turn"}
Told(news, what) == {i \in DOMAIN news : news[i].is \in what}
SubmissionFits(h, news) ==
  /\ h.delivery # 0 => /\ \E j \in DOMAIN h.queue : h.queue[j].id = h.delivery
                       /\ Prompts(h) # {} \/ Told(news, {"accepted", "closed"}) # {}
  /\ \A i \in Prompts(h) :
       /\ h.inbox[i].id = h.delivery /\ Holds(h, h.delivery, h.inbox[i].texts)
       /\ \A j \in Prompts(h) : i = j
       /\ Told(news, {"accepted"}) = {}
  /\ \A i \in Told(news, {"accepted"}) :
       /\ news[i].id = h.delivery /\ Holds(h, h.delivery, news[i].texts)
       /\ \A j \in Told(news, {"accepted"}) : i = j

\* What the loop believes of the provider's work, or is going to believe, has an end
\* that comes after it.
Follows(news, i, what) == \E j \in Told(news, what) : i < j
WorkFits(h, news, a) ==
  /\ h.turn => a.prompts > 0 \/ Told(news, {"completed", "closed"}) # {}
  /\ h.tasks => a.task \/ a.prompts > 0 \/ Told(news, {"tasks", "closed"}) # {}
  /\ \A i \in Told(news, {"accepted", "started"}) :
       a.prompts > 0 \/ Follows(news, i, {"completed", "closed"})
  /\ \A i \in Told(news, {"tasks"}) : news[i].id > 0 =>
       a.task \/ a.prompts > 0 \/ Follows(news, i, {"tasks", "closed"})

\* An idle period of a provider that runs or is about to has its timer, and a thread in
\* neither map has no provider.
IdleFits(h) ==
  /\ IsFiniteSet(h.timers)
  /\ h.runtime # "idle" => h.place # "none"
  /\ h.runtime # "idle" /\ h.idle # 0 => h.idle \in h.timers /\ ~HasWork(h)

\* A steer that is not settled is shown, is in one place, and is one that the thread
\* keeps, or a child's.
Steer1(h, texts, st, cl) ==
  /\ ToSet(texts) \subseteq st /\ IsInjective(texts)
  /\ texts \in h.steers \/ ToSet(texts) \subseteq cl
Disjoint(s, t) == ToSet(s) \intersect ToSet(t) = {}
InboxSteers(h) == {i \in DOMAIN h.inbox : h.inbox[i].do = "steer"}
Settling(news) == Told(news, {"steerAccepted", "steerRejected"})
SteersFit(h, news, st, cl) ==
  /\ \A i \in InboxSteers(h) :
       /\ Steer1(h, h.inbox[i].texts, st, cl)
       /\ \A j \in InboxSteers(h) : i # j => Disjoint(h.inbox[i].texts, h.inbox[j].texts)
       /\ \A j \in Settling(news) : Disjoint(h.inbox[i].texts, news[j].texts)
  /\ \A i \in Settling(news) :
       /\ Steer1(h, news[i].texts, st, cl)
       /\ \A j \in Settling(news) : i # j => Disjoint(news[i].texts, news[j].texts)

\* What holds whatever the process in use has been told and has told.
Core(h, g0, evs, ag) ==
  h \in Hosts /\ GivenFit(g0, evs, ag) /\ ProcessFits(h, g0, evs) /\ QueueFits(h) /\ IdleFits(h)

Fits(h, g0, evs, ag, st, cl) ==
  /\ Core(h, g0, evs, ag)
  /\ SubmissionFits(h, NewsOf(h, evs))
  /\ WorkFits(h, NewsOf(h, evs), AgentOf(h, g0, ag))
  /\ SteersFit(h, NewsOf(h, evs), st, cl)

-------------------------------------------------------------------------------
(* The two ways a handler's part keeps the invariant *)

\* There is no process, or it does not run yet.
LEMMA Quiet ==
  ASSUME NEW h \in Hosts, NEW g0, NEW evs, NEW ag, NEW st, NEW cl,
         GivenFit(g0, evs, ag), ProcessFits(h, g0, evs), QueueFits(h), IdleFits(h),
         ~Live(h)
  PROVE  Fits(h, g0, evs, ag, st, cl)
<1>1. h.inbox = <<>> /\ h.delivery = 0 /\ ~h.turn /\ ~h.tasks /\ NewsOf(h, evs) = <<>>
  BY DEF ProcessFits, NewsOf, Untaken
<1>2. DOMAIN h.inbox = {} /\ DOMAIN NewsOf(h, evs) = {}
  BY <1>1
<1>3. Prompts(h) = {} /\ InboxSteers(h) = {} /\ \A what : Told(NewsOf(h, evs), what) = {}
  BY <1>2 DEF Prompts, InboxSteers, Told
<1>4. SubmissionFits(h, NewsOf(h, evs))
  BY <1>1, <1>3 DEF SubmissionFits
<1>5. WorkFits(h, NewsOf(h, evs), AgentOf(h, g0, ag))
  BY <1>1, <1>3 DEF WorkFits
<1>6. SteersFit(h, NewsOf(h, evs), st, cl)
  BY <1>3 DEF SteersFit, Settling
<1> QED BY <1>4, <1>5, <1>6 DEF Fits, Core

\* The process and what it was told stay; of its work less is believed, and the queue
\* still has what is submitted.
LEMMA Frame ==
  ASSUME NEW h, NEW n \in Hosts, NEW g0, NEW evs, NEW ag, NEW st, NEW cl,
         Fits(h, g0, evs, ag, st, cl),
         n.runtime = h.runtime, n.gen = h.gen, n.starts = h.starts,
         n.delivery = h.delivery, n.inbox = h.inbox, n.steers = h.steers,
         n.turn => h.turn, n.tasks => h.tasks,
         QueueFits(n), IdleFits(n),
         \A j \in DOMAIN h.queue : h.queue[j].id = h.delivery =>
           Holds(n, h.delivery, h.queue[j].texts)
  PROVE  Fits(n, g0, evs, ag, st, cl)
<1>1. /\ NewsOf(n, evs) = NewsOf(h, evs) /\ AgentOf(n, g0, ag) = AgentOf(h, g0, ag)
      /\ Prompts(n) = Prompts(h) /\ InboxSteers(n) = InboxSteers(h)
  BY DEF NewsOf, AgentOf, Prompts, InboxSteers
<1>2. ProcessFits(n, g0, evs)
  BY DEF Fits, Core, ProcessFits, Live
<1>3. SubmissionFits(n, NewsOf(n, evs))
  <2>1. SubmissionFits(h, NewsOf(h, evs))
    BY DEF Fits
  <2>2. \A texts : Holds(h, h.delivery, texts) => Holds(n, h.delivery, texts)
    BY DEF Holds
  <2>3. h.delivery # 0 => \E j \in DOMAIN n.queue : n.queue[j].id = n.delivery
    BY <2>1 DEF SubmissionFits, Holds
  <2> QED BY <1>1, <2>1, <2>2, <2>3 DEF SubmissionFits
<1>4. WorkFits(n, NewsOf(n, evs), AgentOf(n, g0, ag))
  BY <1>1 DEF Fits, WorkFits
<1>5. SteersFit(n, NewsOf(n, evs), st, cl)
  BY <1>1 DEF Fits, SteersFit, Steer1
<1> QED BY <1>2, <1>3, <1>4, <1>5 DEF Fits, Core

-------------------------------------------------------------------------------
(* The parts of the handlers, one by one *)

Calm(h) == Timed(h) # {} => h.alarm
Keeps(h, n) ==
  QueuedTexts(n) = QueuedTexts(h) /\ n.swallowed = h.swallowed /\ (Calm(h) => Calm(n))

LEMMA QueueElements ==
  ASSUME NEW h \in Hosts
  PROVE  /\ h.queue \in Seq(Entries) /\ Len(h.queue) \in Nat /\ DOMAIN h.queue = 1..Len(h.queue)
         /\ \A i \in DOMAIN h.queue :
              /\ h.queue[i] \in Entries /\ h.queue[i].id \in Nat
              /\ h.queue[i].texts \in Seq(Texts)
<1>1. h.queue \in Seq(Entries)
  BY DEF Hosts
<1>2. Len(h.queue) \in Nat /\ DOMAIN h.queue = 1..Len(h.queue)
      /\ \A i \in DOMAIN h.queue : h.queue[i] \in Entries
  BY <1>1, SequenceElements
<1> QED BY <1>1, <1>2 DEF Entries

LEMMA SameQueueKeeps ==
  ASSUME NEW h, NEW n, n.queue = h.queue, n.swallowed = h.swallowed, n.alarm = h.alarm
  PROVE  Keeps(h, n) /\ QueuedTexts(n) = QueuedTexts(h)
BY DEF Keeps, QueuedTexts, Calm, Timed

LEMMA KeepsThrough ==
  ASSUME NEW h, NEW m, NEW n, Keeps(h, m), Keeps(m, n)
  PROVE  Keeps(h, n)
BY DEF Keeps

LEMMA PushFits ==
  ASSUME NEW h, NEW g0, NEW evs, NEW ag, NEW st, NEW cl, Fits(h, g0, evs, ag, st, cl),
         NEW texts \in Seq(Texts), IsInjective(texts),
         ToSet(texts) \intersect QueuedTexts(h) = {},
         NEW when \in {"now", "later", "due"}, NEW kind \in {"user", "callback"}
  PROVE  LET n == Push(h, texts, when, kind)
         IN /\ Fits(n, g0, evs, ag, st, cl)
            /\ QueuedTexts(n) = QueuedTexts(h) \union ToSet(texts)
            /\ n.swallowed = h.swallowed /\ n.alarm = h.alarm
            /\ when = "now" => (Calm(h) => Calm(n))
<1> DEFINE n == Push(h, texts, when, kind)
           e == [id |-> h.next, texts |-> texts, when |-> when, kind |-> kind]
<1>1. h \in Hosts /\ e \in Entries
  BY DEF Fits, Core, Hosts, Entries
<1>2. /\ n.queue = Append(h.queue, e) /\ n.next = h.next + 1 /\ n.idle = 0
      /\ n.runtime = h.runtime /\ n.gen = h.gen /\ n.starts = h.starts
      /\ n.delivery = h.delivery /\ n.inbox = h.inbox /\ n.steers = h.steers
      /\ n.turn = h.turn /\ n.tasks = h.tasks /\ n.place = h.place /\ n.timers = h.timers
      /\ n.swallowed = h.swallowed /\ n.alarm = h.alarm
  BY <1>1 DEF Push, Hosts
<1>21. n \in Hosts
  <2>1. Append(h.queue, e) \in Seq(Entries)
    BY <1>1, QueueElements, AppendElements
  <2>2. h.next + 1 \in Nat \ {0}
    BY <1>1 DEF Hosts
  <2> QED BY <1>1, <2>1, <2>2 DEF Hosts, Push
<1>3. /\ DOMAIN h.queue = 1..Len(h.queue) /\ Len(h.queue) \in Nat
      /\ DOMAIN n.queue = 1..(Len(h.queue) + 1)
      /\ \A i \in DOMAIN h.queue : n.queue[i] = h.queue[i]
      /\ n.queue[Len(h.queue) + 1] = e
  BY <1>1, <1>2, QueueElements, AppendElements
<1> HIDE DEF n
<1>4. QueuedTexts(n) = QueuedTexts(h) \union ToSet(texts)
  <2>1. \A i \in DOMAIN n.queue : n.queue[i].texts = IF i \in DOMAIN h.queue
                                       THEN h.queue[i].texts ELSE texts
    BY <1>3
  <2>2. Len(h.queue) + 1 \in DOMAIN n.queue /\ Len(h.queue) + 1 \notin DOMAIN h.queue
        /\ DOMAIN h.queue \subseteq DOMAIN n.queue
    BY <1>3
  <2> HIDE DEF e
  <2> QED BY <2>1, <2>2 DEF QueuedTexts
<1>5. QueueFits(n)
  <2>1. QueueFits(h) /\ h.next \in Nat \ {0}
    BY <1>1 DEF Fits, Core, Hosts
  <2>2. \A i \in DOMAIN h.queue : ToSet(h.queue[i].texts) \intersect ToSet(texts) = {}
    BY DEF QueuedTexts
  <2>3. \A i \in DOMAIN h.queue : h.queue[i].id \in Nat
    BY <1>1, QueueElements
  <2>4. \A i \in DOMAIN n.queue :
          \/ i \in DOMAIN h.queue /\ n.queue[i] = h.queue[i]
          \/ i = Len(h.queue) + 1 /\ n.queue[i] = e
    BY <1>3
  <2>5. e.id = h.next /\ e.texts = texts
    OBVIOUS
  <2> HIDE DEF e
  <2>6. \A i \in DOMAIN n.queue : n.queue[i].id # 0 /\ n.queue[i].id < n.next
                                     /\ IsInjective(n.queue[i].texts)
    BY SMTT(60), <1>2, <2>1, <2>3, <2>4, <2>5 DEF QueueFits
  <2>7. \A i, j \in DOMAIN n.queue : i # j => n.queue[i].id # n.queue[j].id
    BY <2>1, <2>3, <2>4, <2>5 DEF QueueFits
  <2>8. \A i, j \in DOMAIN n.queue : i # j =>
          ToSet(n.queue[i].texts) \intersect ToSet(n.queue[j].texts) = {}
    BY <2>1, <2>2, <2>4, <2>5 DEF QueueFits
  <2> QED BY <2>6, <2>7, <2>8 DEF QueueFits
<1>6. IdleFits(n)
  BY <1>2 DEF IdleFits, Fits, Core
<1>7. \A j \in DOMAIN h.queue : h.queue[j].id = h.delivery => Holds(n, h.delivery, h.queue[j].texts)
  BY <1>3 DEF Holds
<1>8. Fits(n, g0, evs, ag, st, cl)
  BY <1>2, <1>21, <1>5, <1>6, <1>7, Frame
<1>9. when = "now" => Timed(n) \subseteq Timed(h)
  BY <1>3 DEF Timed
<1> USE DEF n
<1> QED BY <1>2, <1>4, <1>8, <1>9 DEF Calm

LEMMA CoreFacts ==
  ASSUME NEW h, NEW g0, NEW evs, NEW ag, Core(h, g0, evs, ag)
  PROVE  /\ h \in Hosts /\ GivenFit(g0, evs, ag) /\ ProcessFits(h, g0, evs) /\ QueueFits(h)
         /\ IdleFits(h)
         /\ h.starts \in Nat /\ h.gen \in Nat /\ h.next \in Nat \ {0}
BY DEF Core, Hosts

LEMMA FitsFacts ==
  ASSUME NEW h, NEW g0, NEW evs, NEW ag, NEW st, NEW cl, Fits(h, g0, evs, ag, st, cl)
  PROVE  /\ Core(h, g0, evs, ag)
         /\ h \in Hosts /\ GivenFit(g0, evs, ag) /\ ProcessFits(h, g0, evs) /\ QueueFits(h)
         /\ IdleFits(h)
         /\ h.starts \in Nat /\ h.gen \in Nat /\ h.next \in Nat \ {0}
BY CoreFacts DEF Fits

LEMMA SameEntriesFit ==
  ASSUME NEW h, NEW n, QueueFits(h), n.queue = h.queue, n.next = h.next
  PROVE  QueueFits(n)
BY DEF QueueFits

\* Nothing of the process is touched, only flags that no part of the invariant reads.
LEMMA SameQueueFits ==
  ASSUME NEW h, NEW n \in Hosts, NEW g0, NEW evs, NEW ag, NEW st, NEW cl,
         Fits(h, g0, evs, ag, st, cl),
         n.runtime = h.runtime, n.gen = h.gen, n.starts = h.starts,
         n.delivery = h.delivery, n.inbox = h.inbox, n.steers = h.steers,
         n.turn => h.turn, n.tasks => h.tasks,
         n.queue = h.queue, n.next = h.next, IdleFits(n)
  PROVE  Fits(n, g0, evs, ag, st, cl)
<1>1. QueueFits(n)
  <2>1. QueueFits(h)
    BY DEF Fits, Core
  <2> QED BY <2>1, SameEntriesFit
<1>2. \A j \in DOMAIN h.queue : h.queue[j].id = h.delivery =>
        Holds(n, h.delivery, h.queue[j].texts)
  BY DEF Holds
<1> QED BY <1>1, <1>2, Frame

LEMMA QuietQueueFits ==
  ASSUME NEW h, NEW n \in Hosts, NEW g0, NEW evs, NEW ag, NEW st, NEW cl,
         Core(h, g0, evs, ag),
         ~Live(n), n.runtime = "idle" <=> n.gen = 0, n.gen \notin DOMAIN evs,
         n.gen <= n.starts, h.starts <= n.starts,
         n.inbox = <<>>, n.delivery = 0, ~n.turn, ~n.tasks,
         n.queue = h.queue, n.next = h.next, IdleFits(n)
  PROVE  Fits(n, g0, evs, ag, st, cl)
<1>1. QueueFits(n) /\ GivenFit(g0, evs, ag)
  BY DEF Core, QueueFits
<1>2. n.starts \in Nat /\ h.starts \in Nat /\ g0 \in Nat
  BY DEF Core, Hosts, GivenFit
<1>3. ProcessFits(n, g0, evs)
  BY <1>2 DEF Core, ProcessFits
<1> QED BY <1>1, <1>3, Quiet

LEMMA ForgetFits ==
  ASSUME NEW h, NEW g0, NEW evs, NEW ag, NEW st, NEW cl, Core(h, g0, evs, ag)
  PROVE  /\ Fits(Forget(h), g0, evs, ag, st, cl) /\ Keeps(h, Forget(h))
         /\ Forget(h).runtime = "idle" /\ Forget(h).queue = h.queue
<1> DEFINE n == Forget(h)
<1>1. n \in Hosts
  <2>1. <<>> \in Seq(InboxCommands) /\ h \in Hosts
    BY EmptySeq, CoreFacts
  <2> QED BY ZenonT(60), <2>1 DEF Hosts, Forget
<1>2. /\ n.runtime = "idle" /\ n.gen = 0 /\ n.starts = h.starts /\ n.inbox = <<>>
      /\ n.delivery = 0 /\ ~n.turn /\ ~n.tasks /\ n.queue = h.queue /\ n.next = h.next
      /\ n.timers = h.timers /\ n.swallowed = h.swallowed /\ n.alarm = h.alarm
  BY CoreFacts DEF Forget, Hosts
<1>3. ~Live(n) /\ IdleFits(n) /\ 0 \notin DOMAIN evs
  BY <1>2, CoreFacts DEF Live, IdleFits, ProcessFits
<1>4. n.gen <= n.starts /\ h.starts <= n.starts
  BY <1>2, CoreFacts
<1> HIDE DEF n
<1>5. Fits(n, g0, evs, ag, st, cl)
  BY <1>1, <1>2, <1>3, <1>4, QuietQueueFits
<1>6. Keeps(h, n)
  BY <1>2, SameQueueKeeps
<1> QED BY <1>2, <1>5, <1>6 DEF n

LEMMA ShutDownFits ==
  ASSUME NEW h, NEW g0, NEW evs, NEW ag, NEW st, NEW cl, Core(h, g0, evs, ag)
  PROVE  /\ Fits(ShutDown(h), g0, evs, ag, st, cl) /\ Keeps(h, ShutDown(h))
         /\ ShutDown(h).runtime = "idle" /\ ShutDown(h).queue = h.queue
<1> DEFINE f == Forget(h)
           n == ShutDown(h)
<1>1. /\ Fits(f, g0, evs, ag, st, cl) /\ Keeps(h, f) /\ f.runtime = "idle"
      /\ f.queue = h.queue
  BY ForgetFits
<1>2. n = [f EXCEPT !.idle = 0] /\ f \in Hosts
  BY <1>1, FitsFacts DEF ShutDown
<1> HIDE DEF f, n
<1>3. n \in Hosts
  BY ZenonT(60), <1>2 DEF Hosts
<1>4. /\ n.runtime = f.runtime /\ n.gen = f.gen /\ n.starts = f.starts
      /\ n.delivery = f.delivery /\ n.inbox = f.inbox /\ n.steers = f.steers
      /\ n.turn = f.turn /\ n.tasks = f.tasks /\ n.queue = f.queue /\ n.next = f.next
      /\ n.timers = f.timers /\ n.idle = 0 /\ n.swallowed = f.swallowed /\ n.alarm = f.alarm
  BY <1>2 DEF Hosts
<1>5. IdleFits(n)
  BY <1>1, <1>4, FitsFacts DEF IdleFits
<1>6. Fits(n, g0, evs, ag, st, cl)
  BY <1>1, <1>3, <1>4, <1>5, SameQueueFits
<1>7. Keeps(h, n)
  BY <1>1, <1>4, SameQueueKeeps, KeepsThrough
<1> QED BY <1>1, <1>4, <1>6, <1>7 DEF n

LEMMA EnsureStartedFits ==
  ASSUME NEW h, NEW g0, NEW evs, NEW ag, NEW st, NEW cl, Fits(h, g0, evs, ag, st, cl)
  PROVE  /\ Fits(EnsureStarted(h), g0, evs, ag, st, cl) /\ Keeps(h, EnsureStarted(h))
         /\ EnsureStarted(h).queue = h.queue
<1> DEFINE n == EnsureStarted(h)
<1>1. CASE ~(h.place # "none" /\ h.runtime = "idle")
  BY <1>1, SameQueueKeeps DEF EnsureStarted
<1>2. CASE h.place # "none" /\ h.runtime = "idle"
  <2>1. n \in Hosts
    <3>1. h \in Hosts
      BY FitsFacts
    <3>2. h.starts + 1 \in Nat /\ h.launching \union {h.starts + 1} \in SUBSET Nat
      BY <3>1 DEF Hosts
    <3> QED BY ZenonT(60), <1>2, <3>1, <3>2 DEF Hosts, EnsureStarted
  <2>2. /\ n.runtime = "starting" /\ n.gen = h.starts + 1 /\ n.starts = h.starts + 1
        /\ n.inbox = h.inbox /\ n.delivery = h.delivery /\ n.turn = h.turn
        /\ n.tasks = h.tasks /\ n.queue = h.queue /\ n.next = h.next /\ n.idle = 0
        /\ n.place = h.place
        /\ n.timers = h.timers /\ n.swallowed = h.swallowed /\ n.alarm = h.alarm
    BY <1>2, FitsFacts DEF EnsureStarted, Hosts
  <2>3. n.inbox = <<>> /\ n.delivery = 0 /\ ~n.turn /\ ~n.tasks /\ h.starts \in Nat
        /\ DOMAIN evs \subseteq 1..h.starts
    BY <1>2, <2>2, FitsFacts DEF ProcessFits, Live
  <2>4. ~Live(n) /\ (n.runtime = "idle" <=> n.gen = 0) /\ n.gen \notin DOMAIN evs
        /\ n.gen <= n.starts /\ h.starts <= n.starts
    BY <2>2, <2>3 DEF Live
  <2>5. IdleFits(n)
    BY <1>2, <2>2, FitsFacts DEF IdleFits
  <2> HIDE DEF n
  <2>6. Fits(n, g0, evs, ag, st, cl)
    BY <2>1, <2>2, <2>3, <2>4, <2>5, FitsFacts, QuietQueueFits
  <2>7. Keeps(h, n)
    BY <2>2, SameQueueKeeps
  <2> QED BY <2>2, <2>6, <2>7 DEF n
<1> QED BY <1>1, <1>2

\* There is always a number for the next idle period.
LEMMA NewPeriod ==
  ASSUME NEW timers \in SUBSET Nat, IsFiniteSet(timers), NEW idle \in Nat
  PROVE  LET now == First((1..(Cardinality(timers) + 2)) \ (timers \union {idle}))
         IN /\ now \in Nat \ {0} /\ now # idle
            /\ IsFiniteSet(timers \union {now})
<1> DEFINE c == Cardinality(timers)
           used == timers \union {idle}
           free == (1..(c + 2)) \ used
<1>1. c \in Nat
  BY FS_CardinalityType
<1>2. IsFiniteSet(used) /\ Cardinality(used) \in Nat /\ Cardinality(used) <= c + 1
  <2>1. IsFiniteSet(used) /\ (Cardinality(used) = c \/ Cardinality(used) = c + 1)
    BY FS_AddElement
  <2> QED BY <1>1, <2>1
<1>3. IsFiniteSet(1..(c + 2)) /\ Cardinality(1..(c + 2)) = c + 2
  <2>1. c + 2 \in Int /\ 1 <= c + 2 /\ 1 \in Int
    BY <1>1
  <2> HIDE DEF c
  <2> QED BY <1>1, <2>1, FS_Interval
<1>4. free # {}
  <2>1. SUFFICES ASSUME 1..(c + 2) \subseteq used PROVE FALSE
    OBVIOUS
  <2>2. Cardinality(1..(c + 2)) <= Cardinality(used)
    BY <1>2, <2>1, FS_Subset
  <2> HIDE DEF c, used
  <2> QED BY <1>1, <1>2, <1>3, <2>2
<1>5. free \in SUBSET Nat
  BY <1>1
<1>6. First(free) \in free
  BY <1>4, <1>5, LeastNatural
<1>7. First(free) \in Nat \ {0} /\ First(free) # idle
  BY <1>1, <1>6
<1>8. IsFiniteSet(timers \union {First(free)})
  BY FS_AddElement
<1> QED BY <1>7, <1>8

LEMMA MarkIdleFits ==
  ASSUME NEW h, NEW g0, NEW evs, NEW ag, NEW st, NEW cl, Fits(h, g0, evs, ag, st, cl)
  PROVE  /\ Fits(MarkIdle(h), g0, evs, ag, st, cl) /\ Keeps(h, MarkIdle(h))
         /\ MarkIdle(h).queue = h.queue
<1> DEFINE now == First((1..(Cardinality(h.timers) + 2)) \ (h.timers \union {h.idle}))
           n == [h EXCEPT !.idle = now, !.timers = @ \union {now}]
<1>1. CASE h.place = "none" \/ HasWork(h) \/ (Live(h) /\ h.idle # 0)
  BY <1>1, SameQueueKeeps DEF MarkIdle
<1>2. CASE ~(h.place = "none" \/ HasWork(h) \/ (Live(h) /\ h.idle # 0))
  <2>1. MarkIdle(h) = n
    BY <1>2 DEF MarkIdle
  <2>2. h \in Hosts /\ h.timers \in SUBSET Nat /\ IsFiniteSet(h.timers) /\ h.idle \in Nat
    BY FitsFacts DEF Hosts, IdleFits
  <2>3. now \in Nat \ {0} /\ IsFiniteSet(h.timers \union {now})
    BY <2>2, NewPeriod
  <2> HIDE DEF now
  <2>4. n \in Hosts
    <3>1. h.timers \union {now} \in SUBSET Nat
      BY <2>2, <2>3
    <3> QED BY <2>2, <2>3, <3>1 DEF Hosts
  <2>5. /\ n.runtime = h.runtime /\ n.gen = h.gen /\ n.starts = h.starts
        /\ n.delivery = h.delivery /\ n.inbox = h.inbox /\ n.steers = h.steers
        /\ n.turn = h.turn /\ n.tasks = h.tasks /\ n.queue = h.queue /\ n.next = h.next
        /\ n.place = h.place /\ n.timers = h.timers \union {now} /\ n.idle = now
        /\ n.swallowed = h.swallowed /\ n.alarm = h.alarm
    BY <2>2 DEF Hosts
  <2> HIDE DEF n
  <2>6. IdleFits(n)
    BY <1>2, <2>3, <2>5 DEF IdleFits, HasWork
  <2>7. Fits(n, g0, evs, ag, st, cl) /\ Keeps(h, n)
    BY <2>4, <2>5, <2>6, SameQueueFits, SameQueueKeeps
  <2> QED BY <2>1, <2>5, <2>7
<1> QED BY <1>1, <1>2

LEMMA RescheduleFits ==
  ASSUME NEW h, NEW g0, NEW evs, NEW ag, NEW st, NEW cl, Fits(h, g0, evs, ag, st, cl)
  PROVE  /\ Fits(Reschedule(h), g0, evs, ag, st, cl) /\ Keeps(h, Reschedule(h))
         /\ Calm(Reschedule(h))
<1> DEFINE n == Reschedule(h)
<1>1. h \in Hosts
  BY FitsFacts
<1>2. n \in Hosts
  <2>1. (Timed(h) # {}) \in BOOLEAN
    OBVIOUS
  <2> QED BY ZenonT(60), <1>1, <2>1 DEF Reschedule, Hosts
<1>3. /\ n.runtime = h.runtime /\ n.gen = h.gen /\ n.starts = h.starts
      /\ n.delivery = h.delivery /\ n.inbox = h.inbox /\ n.steers = h.steers
      /\ n.turn = h.turn /\ n.tasks = h.tasks /\ n.queue = h.queue /\ n.next = h.next
      /\ n.place = h.place /\ n.timers = h.timers /\ n.idle = h.idle /\ n.swallowed = h.swallowed
      /\ n.alarm = (Timed(h) # {})
  BY <1>1 DEF Reschedule, Hosts
<1> HIDE DEF n
<1>4. IdleFits(n)
  BY <1>3, FitsFacts DEF IdleFits, HasWork
<1>5. Fits(n, g0, evs, ag, st, cl)
  BY <1>2, <1>3, <1>4, SameQueueFits
<1>6. Calm(n) /\ QueuedTexts(n) = QueuedTexts(h)
  BY <1>3 DEF Calm, Timed, QueuedTexts
<1> QED BY <1>3, <1>5, <1>6 DEF n, Keeps

\* Nothing is submitted: nothing is on its way.
LEMMA NothingSubmitted ==
  ASSUME NEW h, NEW g0, NEW evs, NEW ag, NEW st, NEW cl, Fits(h, g0, evs, ag, st, cl),
         h.delivery = 0
  PROVE  Prompts(h) = {} /\ Told(NewsOf(h, evs), {"accepted"}) = {}
<1>1. QueueFits(h) /\ SubmissionFits(h, NewsOf(h, evs))
  BY DEF Fits, Core
<1>2. \A texts : ~Holds(h, 0, texts)
  BY <1>1 DEF QueueFits, Holds
<1> QED BY <1>1, <1>2 DEF SubmissionFits

LEMMA DispatchFits ==
  ASSUME NEW h, NEW g0, NEW evs, NEW ag, NEW st, NEW cl, Fits(h, g0, evs, ag, st, cl)
  PROVE  /\ Fits(Dispatch(h), g0, evs, ag, st, cl) /\ Keeps(h, Dispatch(h))
         /\ Dispatch(h).queue = h.queue
<1> DEFINE head == First(Ready(h))
           id == h.queue[head].id
           texts == h.queue[head].texts
           command == Command("turn", id, texts)
           n == [h EXCEPT !.delivery = id, !.idle = 0, !.inbox = Append(@, command)]
<1>1. CASE ~(CanDispatch(h) /\ h.reading)
  BY <1>1, SameQueueKeeps DEF Dispatch
<1>2. CASE CanDispatch(h) /\ h.reading
  <2>1. Dispatch(h) = n
    BY <1>2 DEF Dispatch
  <2>2. h \in Hosts /\ QueueFits(h) /\ Live(h) /\ h.delivery = 0
    BY <1>2, FitsFacts DEF CanDispatch
  <2>3. head \in DOMAIN h.queue
    <3>1. Ready(h) \in SUBSET Nat /\ Ready(h) # {} /\ Ready(h) \subseteq DOMAIN h.queue
      BY <1>2, <2>2, QueueElements DEF Ready, CanDispatch
    <3> HIDE DEF head
    <3>2. First(Ready(h)) \in Ready(h)
      BY <3>1, LeastNatural
    <3> QED BY <3>1, <3>2 DEF head
  <2> HIDE DEF head
  <2>4. id \in Nat \ {0} /\ texts \in Seq(Texts)
    BY <2>2, <2>3, QueueElements DEF QueueFits
  <2>5. /\ command.do = "turn" /\ command.id = id /\ command.texts = texts
        /\ command \in InboxCommands
    BY <2>4 DEF Command, InboxCommands
  <2>51. \E j \in DOMAIN h.queue : h.queue[j].id = id /\ h.queue[j].texts = texts
    BY <2>3
  <2> HIDE DEF id, texts, command
  <2>6. h.inbox \in Seq(InboxCommands)
    BY <2>2 DEF Hosts
  <2>7. /\ Append(h.inbox, command) \in Seq(InboxCommands)
        /\ DOMAIN h.inbox = 1..Len(h.inbox) /\ Len(h.inbox) \in Nat
        /\ DOMAIN Append(h.inbox, command) = 1..(Len(h.inbox) + 1)
        /\ \A i \in DOMAIN h.inbox : Append(h.inbox, command)[i] = h.inbox[i]
        /\ Append(h.inbox, command)[Len(h.inbox) + 1] = command
    BY <2>5, <2>6, AppendElements, SequenceElements
  <2>8. n \in Hosts
    BY ZenonT(60), <2>2, <2>4, <2>7 DEF Hosts
  <2>9. /\ n.runtime = h.runtime /\ n.gen = h.gen /\ n.starts = h.starts
        /\ n.delivery = id /\ n.inbox = Append(h.inbox, command) /\ n.steers = h.steers
        /\ n.turn = h.turn /\ n.tasks = h.tasks /\ n.queue = h.queue /\ n.next = h.next
        /\ n.place = h.place /\ n.timers = h.timers /\ n.idle = 0 /\ n.swallowed = h.swallowed
        /\ n.alarm = h.alarm
    BY <2>2 DEF Hosts
  <2> HIDE DEF n
  <2>10. NewsOf(n, evs) = NewsOf(h, evs) /\ AgentOf(n, g0, ag) = AgentOf(h, g0, ag)
    BY <2>9 DEF NewsOf, AgentOf
  <2>11. Prompts(h) = {} /\ Told(NewsOf(h, evs), {"accepted"}) = {}
    BY <2>2, NothingSubmitted
  <2>12. Core(n, g0, evs, ag)
    <3>1. ProcessFits(n, g0, evs)
      BY <2>2, <2>9, FitsFacts DEF ProcessFits, Live
    <3>2. QueueFits(n)
      BY <2>9, FitsFacts, SameEntriesFit
    <3>3. IdleFits(n)
      BY <2>9, FitsFacts DEF IdleFits
    <3> QED BY <2>8, <3>1, <3>2, <3>3, FitsFacts DEF Core
  <2>13. Prompts(n) = {Len(h.inbox) + 1} /\ InboxSteers(n) = InboxSteers(h)
         /\ \A i \in InboxSteers(h) : n.inbox[i] = h.inbox[i]
    <3>1. \A i \in DOMAIN h.inbox : h.inbox[i].do # "turn"
      BY <2>11 DEF Prompts
    <3>2. /\ DOMAIN n.inbox = 1..(Len(h.inbox) + 1)
          /\ \A i \in DOMAIN h.inbox : n.inbox[i] = h.inbox[i]
          /\ n.inbox[Len(h.inbox) + 1].do = "turn"
      BY <2>5, <2>7, <2>9
    <3>3. \A i \in DOMAIN n.inbox : i \in DOMAIN h.inbox \/ i = Len(h.inbox) + 1
      BY <2>7, <3>2
    <3>4. Len(h.inbox) + 1 \in DOMAIN n.inbox /\ DOMAIN h.inbox \subseteq DOMAIN n.inbox
      BY <2>7, <3>2
    <3>5. Prompts(n) = {Len(h.inbox) + 1}
      BY <3>1, <3>2, <3>3, <3>4 DEF Prompts
    <3>6. InboxSteers(n) = InboxSteers(h)
      BY <3>2, <3>3, <3>4 DEF InboxSteers
    <3> QED BY <3>2, <3>5, <3>6 DEF InboxSteers
  <2>14. SubmissionFits(n, NewsOf(n, evs))
    <3>1. n.inbox[Len(h.inbox) + 1] = command
      BY <2>7, <2>9
    <3>2. Holds(n, id, texts)
      BY <2>51, <2>9 DEF Holds
    <3>3. \E j \in DOMAIN n.queue : n.queue[j].id = id
      BY <3>2 DEF Holds
    <3> QED BY <2>5, <2>9, <2>10, <2>11, <2>13, <3>1, <3>2, <3>3 DEF SubmissionFits
  <2>15. WorkFits(n, NewsOf(n, evs), AgentOf(n, g0, ag))
    BY <2>9, <2>10 DEF Fits, WorkFits
  <2>16. SteersFit(n, NewsOf(n, evs), st, cl)
    <3>1. SteersFit(h, NewsOf(h, evs), st, cl)
      BY DEF Fits
    <3> QED BY ZenonT(60), <2>9, <2>10, <2>13, <3>1 DEF SteersFit, Steer1
  <2>17. Fits(n, g0, evs, ag, st, cl) /\ Keeps(h, n)
    BY <2>9, <2>12, <2>14, <2>15, <2>16, SameQueueKeeps DEF Fits
  <2> QED BY <2>1, <2>9, <2>17
<1> QED BY <1>1, <1>2

\* What is left of a queue without one of its entries.
LEMMA RemovedEntry ==
  ASSUME NEW h \in Hosts, QueueFits(h), NEW i \in DOMAIN h.queue,
         NEW n, n.queue = RemoveAt(h.queue, i), n.next = h.next
  PROVE  /\ RemoveAt(h.queue, i) \in Seq(Entries)
         /\ QueueFits(n)
         /\ QueuedTexts(n) = QueuedTexts(h) \ ToSet(h.queue[i].texts)
         /\ ToSet(h.queue[i].texts) \subseteq QueuedTexts(h)
         /\ \A j \in DOMAIN h.queue : j # i =>
              Holds(n, h.queue[j].id, h.queue[j].texts)
         /\ Timed(h) = {} => Timed(n) = {}
<1> DEFINE q == h.queue
           r == n.queue
           old(j) == IF j < i THEN j ELSE j + 1
<1>1. /\ r \in Seq(Entries) /\ Len(q) \in Nat \ {0} /\ i \in 1..Len(q)
      /\ DOMAIN q = 1..Len(q) /\ DOMAIN r = 1..(Len(q) - 1)
      /\ \A j \in DOMAIN r : r[j] = q[old(j)]
  <2>1. h.queue \in Seq(Entries)
    BY QueueElements
  <2>2. /\ RemoveAt(h.queue, i) \in Seq(Entries)
        /\ Len(h.queue) \in Nat \ {0} /\ i \in 1..Len(h.queue)
        /\ DOMAIN h.queue = 1..Len(h.queue)
        /\ DOMAIN RemoveAt(h.queue, i) = 1..(Len(h.queue) - 1)
        /\ \A j \in 1..(Len(h.queue) - 1) : RemoveAt(h.queue, i)[j] = h.queue[old(j)]
    BY ZenonT(60), <2>1, RemoveAtElements
  <2> QED BY <2>2
<1>2. \A j \in DOMAIN r : old(j) \in DOMAIN q /\ old(j) # i
  BY <1>1
<1>3. \A j, k \in DOMAIN r : j # k => old(j) # old(k)
  BY <1>1
<1>4. \A j \in DOMAIN q : j # i => \E k \in DOMAIN r : old(k) = j
  <2> SUFFICES ASSUME NEW j \in DOMAIN q, j # i PROVE \E k \in DOMAIN r : old(k) = j
    OBVIOUS
  <2>1. CASE j < i
    BY <1>1, <2>1
  <2>2. CASE ~(j < i)
    <3>1. j - 1 \in DOMAIN r /\ old(j - 1) = j
      BY <1>1, <2>2
    <3> QED BY <3>1
  <2> QED BY <2>1, <2>2
<1>5. \A j \in DOMAIN r : \E k \in DOMAIN q : k # i /\ r[j] = q[k]
  BY <1>1, <1>2
<1>6. \A j \in DOMAIN q : j # i => \E k \in DOMAIN r : r[k] = q[j]
  BY <1>1, <1>4
<1>7. QueueFits(n)
  <2>1. \A j \in DOMAIN r : r[j].id # 0 /\ r[j].id < n.next /\ IsInjective(r[j].texts)
    BY <1>5 DEF QueueFits
  <2>2. \A j, k \in DOMAIN r : j # k =>
          r[j].id # r[k].id /\ ToSet(r[j].texts) \intersect ToSet(r[k].texts) = {}
    <3> SUFFICES ASSUME NEW j \in DOMAIN r, NEW k \in DOMAIN r, j # k
                 PROVE  /\ r[j].id # r[k].id
                        /\ ToSet(r[j].texts) \intersect ToSet(r[k].texts) = {}
      OBVIOUS
    <3>1. old(j) \in DOMAIN q /\ old(k) \in DOMAIN q /\ old(j) # old(k)
      BY <1>2, <1>3
    <3>2. r[j] = q[old(j)] /\ r[k] = q[old(k)]
      BY <1>1
    <3> HIDE DEF old
    <3> QED BY <3>1, <3>2 DEF QueueFits
  <2> QED BY <2>1, <2>2 DEF QueueFits
<1>8. QueuedTexts(n) = QueuedTexts(h) \ ToSet(q[i].texts)
  <2>1. \A x : x \in QueuedTexts(n) <=> \E j \in DOMAIN r : x \in ToSet(r[j].texts)
    BY DEF QueuedTexts
  <2>2. \A x : x \in QueuedTexts(h) <=> \E j \in DOMAIN q : x \in ToSet(q[j].texts)
    BY DEF QueuedTexts
  <2>3. \A j \in DOMAIN q : j # i => ToSet(q[j].texts) \intersect ToSet(q[i].texts) = {}
    BY DEF QueueFits
  <2>4. \A x : x \in QueuedTexts(n) => x \in QueuedTexts(h) /\ x \notin ToSet(q[i].texts)
    BY <1>5, <2>1, <2>2, <2>3
  <2>5. \A x : x \in QueuedTexts(h) /\ x \notin ToSet(q[i].texts) => x \in QueuedTexts(n)
    BY <1>6, <2>1, <2>2
  <2> QED BY <2>4, <2>5
<1>9. ToSet(q[i].texts) \subseteq QueuedTexts(h)
  BY DEF QueuedTexts
<1>10. \A j \in DOMAIN q : j # i => Holds(n, q[j].id, q[j].texts)
  BY <1>6 DEF Holds
<1>11. Timed(h) = {} => Timed(n) = {}
  BY <1>5 DEF Timed
<1> QED BY <1>1, <1>7, <1>8, <1>9, <1>10, <1>11

\* Taking out an entry that is not on its way.
LEMMA TakeFits ==
  ASSUME NEW h, NEW g0, NEW evs, NEW ag, NEW st, NEW cl, Fits(h, g0, evs, ag, st, cl),
         NEW i \in Takeable(h)
  PROVE  LET n == Take(h, i)
             texts == h.queue[i].texts
         IN /\ Fits(n, g0, evs, ag, st, cl)
            /\ QueuedTexts(n) = QueuedTexts(h) \ ToSet(texts)
            /\ ToSet(texts) \subseteq QueuedTexts(h)
            /\ texts \in Seq(Texts) /\ IsInjective(texts)
            /\ n.swallowed = h.swallowed /\ n.alarm = h.alarm /\ n.relay = h.relay
            /\ n.turn = h.turn /\ n.runtime = h.runtime /\ n.gen = h.gen
            /\ Calm(h) => Calm(n)
<1> DEFINE n == Take(h, i)
<1>1. h \in Hosts /\ QueueFits(h) /\ i \in DOMAIN h.queue /\ h.queue[i].id # h.delivery
  BY FitsFacts DEF Takeable
<1>2. /\ n.runtime = h.runtime /\ n.gen = h.gen /\ n.starts = h.starts
      /\ n.delivery = h.delivery /\ n.inbox = h.inbox /\ n.steers = h.steers
      /\ n.turn = h.turn /\ n.tasks = h.tasks /\ n.queue = RemoveAt(h.queue, i)
      /\ n.next = h.next /\ n.relay = h.relay
      /\ n.place = h.place /\ n.timers = h.timers /\ n.idle = h.idle /\ n.swallowed = h.swallowed
      /\ n.alarm = h.alarm
  BY <1>1 DEF Take, Hosts
<1>3. /\ RemoveAt(h.queue, i) \in Seq(Entries)
      /\ QueueFits(n)
      /\ QueuedTexts(n) = QueuedTexts(h) \ ToSet(h.queue[i].texts)
      /\ ToSet(h.queue[i].texts) \subseteq QueuedTexts(h)
      /\ \A j \in DOMAIN h.queue : j # i => Holds(n, h.queue[j].id, h.queue[j].texts)
      /\ Timed(h) = {} => Timed(n) = {}
  <2> HIDE DEF n
  <2> QED BY <1>1, <1>2, RemovedEntry
<1>4. n \in Hosts
  BY <1>1, <1>3 DEF Take, Hosts
<1> HIDE DEF n
<1>5. IdleFits(n)
  <2>1. h.queue # <<>>
    BY <1>1, QueueElements
  <2> QED BY <1>2, <2>1, FitsFacts DEF IdleFits, HasWork
<1>6. \A j \in DOMAIN h.queue : h.queue[j].id = h.delivery =>
        Holds(n, h.delivery, h.queue[j].texts)
  BY <1>1, <1>3
<1>7. Fits(n, g0, evs, ag, st, cl)
  BY <1>2, <1>3, <1>4, <1>5, <1>6, Frame
<1>8. h.queue[i].texts \in Seq(Texts) /\ IsInjective(h.queue[i].texts)
  BY <1>1, QueueElements DEF QueueFits
<1>9. Calm(h) => Calm(n)
  BY <1>2, <1>3 DEF Calm
<1> USE DEF n
<1> QED BY <1>2, <1>3, <1>7, <1>8, <1>9

LEMMA OneText ==
  ASSUME NEW m \in Texts
  PROVE  <<m>> \in Seq(Texts) /\ IsInjective(<<m>>) /\ ToSet(<<m>>) = {m}
BY DEF IsInjective, ToSet

LEMMA OneMoreText ==
  ASSUME NEW texts \in Seq(Texts), IsInjective(texts), NEW m \in Texts, m \notin ToSet(texts)
  PROVE  /\ Append(texts, m) \in Seq(Texts) /\ IsInjective(Append(texts, m))
         /\ ToSet(Append(texts, m)) = ToSet(texts) \union {m}
<1> DEFINE s == Append(texts, m)
<1>1. /\ s \in Seq(Texts) /\ DOMAIN s = 1..(Len(texts) + 1) /\ s[Len(texts) + 1] = m
      /\ DOMAIN texts = 1..Len(texts) /\ Len(texts) \in Nat
      /\ \A i \in DOMAIN texts : s[i] = texts[i]
  BY AppendElements, SequenceElements
<1> HIDE DEF s
<1>2. \A i \in DOMAIN s :
        \/ i \in DOMAIN texts /\ s[i] = texts[i]
        \/ i = Len(texts) + 1 /\ i \notin DOMAIN texts /\ s[i] = m
  BY <1>1
<1>3. \A i \in DOMAIN texts : texts[i] # m
  BY DEF ToSet
<1>4. IsInjective(s)
  BY <1>2, <1>3 DEF IsInjective
<1>5. ToSet(s) = ToSet(texts) \union {m}
  <2>1. \A i \in DOMAIN texts : i \in DOMAIN s
    BY <1>1
  <2>2. Len(texts) + 1 \in DOMAIN s
    BY <1>1
  <2> QED BY <1>1, <1>2, <2>1, <2>2 DEF ToSet
<1> QED BY <1>1, <1>4, <1>5 DEF s

\* The texts in the queue and those that were refused are together the same and the new.
Gains(h, n, new) ==
  /\ QueuedTexts(n) \subseteq QueuedTexts(h) \union new
  /\ QueuedTexts(h) \union h.swallowed \union new \subseteq QueuedTexts(n) \union n.swallowed
  /\ Calm(h) => Calm(n)

LEMMA GainsThenKeeps ==
  ASSUME NEW h, NEW m, NEW n, NEW new, Gains(h, m, new), Keeps(m, n)
  PROVE  Gains(h, n, new)
BY DEF Gains, Keeps

LEMMA KeepsThenGains ==
  ASSUME NEW h, NEW m, NEW n, NEW new, Keeps(h, m), Gains(m, n, new)
  PROVE  Gains(h, n, new)
BY DEF Gains, Keeps

LEMMA PushCallbackFits ==
  ASSUME NEW h, NEW g0, NEW evs, NEW ag, NEW st, NEW cl, Fits(h, g0, evs, ag, st, cl),
         NEW m \in Texts, m \notin QueuedTexts(h)
  PROVE  LET n == PushCallback(h, m)
         IN /\ Fits(n, g0, evs, ag, st, cl) /\ Gains(h, n, {m})
            /\ n.turn = h.turn /\ n.runtime = h.runtime
<1> DEFINE waiting == {i \in DOMAIN h.queue : h.queue[i].kind = "callback"
                                                /\ h.queue[i].id # h.delivery}
           k == First(waiting)
           texts == Append(h.queue[k].texts, m)
           n == [h EXCEPT !.idle = 0, !.queue[k].texts = Append(@, m)]
<1>1. h \in Hosts /\ QueueFits(h)
  BY FitsFacts
<1>2. CASE waiting = {}
  <2>1. PushCallback(h, m) = Push(h, <<m>>, "now", "callback")
    BY <1>2 DEF PushCallback
  <2>2. ToSet(<<m>>) \intersect QueuedTexts(h) = {}
    BY OneText
  <2>3. LET p == Push(h, <<m>>, "now", "callback")
        IN /\ Fits(p, g0, evs, ag, st, cl)
           /\ QueuedTexts(p) = QueuedTexts(h) \union ToSet(<<m>>)
           /\ p.swallowed = h.swallowed
           /\ Calm(h) => Calm(p)
    BY ZenonT(60), <2>2, OneText, PushFits
  <2>4. LET p == Push(h, <<m>>, "now", "callback") IN p.turn = h.turn /\ p.runtime = h.runtime
    BY <1>1 DEF Push, Hosts
  <2> QED BY <2>1, <2>3, <2>4, OneText DEF Gains
<1>3. CASE waiting # {}
  <2>1. PushCallback(h, m) = n
    BY <1>3 DEF PushCallback
  <2>2. k \in DOMAIN h.queue /\ h.queue[k].id # h.delivery
    <3>1. waiting \in SUBSET Nat
      BY <1>1, QueueElements
    <3>2. k \in waiting
      BY <1>3, <3>1, LeastNatural
    <3> HIDE DEF k
    <3> QED BY <3>2
  <2> HIDE DEF k, waiting
  <2>3. m \notin ToSet(h.queue[k].texts)
    BY <2>2 DEF QueuedTexts
  <2>4. /\ h.queue \in Seq(Entries) /\ DOMAIN h.queue = 1..Len(h.queue)
        /\ h.queue[k] \in Entries /\ h.queue[k].texts \in Seq(Texts)
        /\ IsInjective(h.queue[k].texts)
    BY <1>1, <2>2, QueueElements DEF QueueFits
  <2>5. texts \in Seq(Texts) /\ IsInjective(texts)
        /\ ToSet(texts) = ToSet(h.queue[k].texts) \union {m}
    BY <2>3, <2>4, OneMoreText
  <2> DEFINE e == [h.queue[k] EXCEPT !.texts = texts]
             q == [h.queue EXCEPT ![k] = e]
  <2>6. /\ n.runtime = h.runtime /\ n.gen = h.gen /\ n.starts = h.starts
        /\ n.delivery = h.delivery /\ n.inbox = h.inbox /\ n.steers = h.steers
        /\ n.turn = h.turn /\ n.tasks = h.tasks /\ n.next = h.next
        /\ n.place = h.place /\ n.timers = h.timers /\ n.idle = 0 /\ n.swallowed = h.swallowed
        /\ n.alarm = h.alarm /\ n.queue = q
    BY <1>1 DEF Hosts
  <2> HIDE DEF texts
  <2>7. e \in Entries /\ e.id = h.queue[k].id /\ e.texts = texts /\ e.when = h.queue[k].when
    BY <2>4, <2>5 DEF Entries
  <2> HIDE DEF e
  <2>8. /\ q \in Seq(Entries) /\ DOMAIN q = DOMAIN h.queue
        /\ q[k] = e /\ \A j \in DOMAIN h.queue : j # k => q[j] = h.queue[j]
    BY <2>2, <2>4, <2>7, ExceptSeq
  <2>9. n \in Hosts
    <3>1. n = [h EXCEPT !.idle = 0, !.queue = q]
      BY DEF e, texts
    <3> HIDE DEF n, q
    <3> QED BY <1>1, <2>8, <3>1 DEF Hosts
  <2> HIDE DEF n, q
  <2>10. QueueFits(n)
    <3>1. \A j \in DOMAIN h.queue : q[j].id = h.queue[j].id
      BY <2>7, <2>8
    <3>2. \A j \in DOMAIN h.queue : IsInjective(q[j].texts)
      BY <1>1, <2>5, <2>7, <2>8 DEF QueueFits
    <3>3. \A j \in DOMAIN h.queue : m \notin ToSet(h.queue[j].texts)
      BY DEF QueuedTexts
    <3>4. \A j \in DOMAIN h.queue :
            ToSet(q[j].texts) = IF j = k THEN ToSet(h.queue[j].texts) \union {m}
                                ELSE ToSet(h.queue[j].texts)
      BY <2>2, <2>5, <2>7, <2>8
    <3>5. \A i, j \in DOMAIN h.queue : i # j =>
            ToSet(h.queue[i].texts) \intersect ToSet(h.queue[j].texts) = {}
      BY <1>1 DEF QueueFits
    <3>6. \A i, j \in DOMAIN h.queue : i # j =>
            ToSet(q[i].texts) \intersect ToSet(q[j].texts) = {}
      BY ZenonT(60), <3>3, <3>4, <3>5
    <3>7. \A j \in DOMAIN n.queue : n.queue[j].id # 0 /\ n.queue[j].id < n.next
      BY <1>1, <2>6, <2>8, <3>1 DEF QueueFits
    <3>8. \A i, j \in DOMAIN n.queue : i # j => n.queue[i].id # n.queue[j].id
      BY <1>1, <2>6, <2>8, <3>1 DEF QueueFits
    <3>9. n.queue = q /\ DOMAIN n.queue = DOMAIN h.queue
      BY <2>6, <2>8
    <3> QED BY <3>2, <3>6, <3>7, <3>8, <3>9 DEF QueueFits
  <2>11. QueuedTexts(n) = QueuedTexts(h) \union {m}
    <3>1. \A x : x \in QueuedTexts(n) <=> \E j \in DOMAIN q : x \in ToSet(q[j].texts)
      BY <2>6 DEF QueuedTexts
    <3>2. \A x : x \in QueuedTexts(h) <=>
                   \E j \in DOMAIN h.queue : x \in ToSet(h.queue[j].texts)
      BY DEF QueuedTexts
    <3> QED BY SMTT(60), <2>2, <2>5, <2>7, <2>8, <3>1, <3>2
  <2>12. \A j \in DOMAIN h.queue : h.queue[j].id = h.delivery =>
           Holds(n, h.delivery, h.queue[j].texts)
    BY <2>2, <2>6, <2>8 DEF Holds
  <2>13. IdleFits(n)
    BY <2>6, FitsFacts DEF IdleFits
  <2>14. Fits(n, g0, evs, ag, st, cl)
    BY <2>6, <2>9, <2>10, <2>12, <2>13, Frame
  <2>15. Calm(h) => Calm(n)
    BY <2>6, <2>7, <2>8 DEF Calm, Timed
  <2> QED BY <2>1, <2>6, <2>11, <2>14, <2>15 DEF Gains
<1> QED BY <1>2, <1>3

LEMMA EvictFits ==
  ASSUME NEW h, NEW g0, NEW evs, NEW ag, NEW st, NEW cl, Core(h, g0, evs, ag),
         h.queue = <<>>
  PROVE  /\ Fits(Evict(h), g0, evs, ag, st, cl) /\ Keeps(h, Evict(h)) /\ Calm(Evict(h))
<1> DEFINE n == Evict(h)
<1>1. h \in Hosts /\ ProcessFits(h, g0, evs) /\ IdleFits(h) /\ GivenFit(g0, evs, ag)
  BY DEF Core
<1>2. Fresh \in Hosts
  <2>1. <<>> \in Seq(Entries) /\ <<>> \in Seq(InboxCommands)
    BY EmptySeq
  <2> QED BY <2>1 DEF Fresh, Hosts
<1>3. n \in Hosts
  <2>1. /\ h.starts \in Nat /\ h.launching \in SUBSET Nat /\ h.timers \in SUBSET Nat
        /\ h.alarm \in BOOLEAN /\ h.swallowed \in SUBSET Texts
    BY <1>1 DEF Hosts
  <2> QED BY <1>2, <2>1 DEF Hosts, Evict
<1>4. /\ n.runtime = "idle" /\ n.gen = 0 /\ n.starts = h.starts /\ n.inbox = <<>>
      /\ n.delivery = 0 /\ ~n.turn /\ ~n.tasks /\ n.queue = <<>> /\ n.next = 1
      /\ n.timers = h.timers /\ n.swallowed = h.swallowed
  BY DEF Evict, Fresh
<1> HIDE DEF n
<1>5. ProcessFits(n, g0, evs)
  BY <1>1, <1>4 DEF ProcessFits, Live, GivenFit, Hosts
<1>6. DOMAIN n.queue = {} /\ DOMAIN h.queue = {}
  BY <1>4
<1>7. QueueFits(n) /\ IdleFits(n)
  BY <1>1, <1>4, <1>6 DEF QueueFits, IdleFits
<1>8. ~Live(n)
  BY <1>4 DEF Live
<1>9. Fits(n, g0, evs, ag, st, cl)
  BY <1>1, <1>3, <1>5, <1>7, <1>8, Quiet
<1>10. QueuedTexts(n) = {} /\ QueuedTexts(h) = {} /\ Calm(n)
  BY <1>6 DEF QueuedTexts, Calm, Timed
<1> QED BY <1>4, <1>9, <1>10 DEF Keeps, n

\* A provider that has to restart does, and what waits goes on its way.
Onward(h) == EnsureStarted(Dispatch(IF Changed(h) THEN ShutDown(h) ELSE h))

LEMMA OnwardFits ==
  ASSUME NEW h, NEW g0, NEW evs, NEW ag, NEW st, NEW cl, Fits(h, g0, evs, ag, st, cl)
  PROVE  Fits(Onward(h), g0, evs, ag, st, cl) /\ Keeps(h, Onward(h))
<1> DEFINE a == IF Changed(h) THEN ShutDown(h) ELSE h
           b == Dispatch(a)
           c == EnsureStarted(b)
<1>1. Fits(a, g0, evs, ag, st, cl) /\ Keeps(h, a)
  BY ShutDownFits, FitsFacts, SameQueueKeeps
<1> HIDE DEF a
<1>2. Fits(b, g0, evs, ag, st, cl) /\ Keeps(a, b)
  BY <1>1, DispatchFits
<1> HIDE DEF b
<1>3. Fits(c, g0, evs, ag, st, cl) /\ Keeps(b, c)
  BY <1>2, EnsureStartedFits
<1>4. Onward(h) = c
  BY DEF Onward, a, b, c
<1> HIDE DEF c
<1> QED BY <1>1, <1>2, <1>3, <1>4, KeepsThrough

LEMMA SendTurnFits ==
  ASSUME NEW h, NEW g0, NEW evs, NEW ag, NEW st, NEW cl, Fits(h, g0, evs, ag, st, cl),
         NEW texts \in Seq(Texts), IsInjective(texts),
         ToSet(texts) \intersect QueuedTexts(h) = {}
  PROVE  /\ Fits(SendTurn(h, texts), g0, evs, ag, st, cl)
         /\ Gains(h, SendTurn(h, texts), ToSet(texts))
<1>1. h \in Hosts
  BY FitsFacts
<1>2. CASE h.relay
  <2> DEFINE n == [h EXCEPT !.swallowed = @ \union ToSet(texts)]
  <2>1. SendTurn(h, texts) = n
    BY <1>2 DEF SendTurn
  <2>2. h.swallowed \union ToSet(texts) \in SUBSET Texts
    BY <1>1, SequenceElements DEF Hosts, ToSet
  <2>3. n \in Hosts
    BY <1>1, <2>2 DEF Hosts
  <2>4. /\ n.runtime = h.runtime /\ n.gen = h.gen /\ n.starts = h.starts
        /\ n.delivery = h.delivery /\ n.inbox = h.inbox /\ n.steers = h.steers
        /\ n.turn = h.turn /\ n.tasks = h.tasks /\ n.queue = h.queue /\ n.next = h.next
        /\ n.place = h.place /\ n.timers = h.timers /\ n.idle = h.idle
        /\ n.swallowed = h.swallowed \union ToSet(texts) /\ n.alarm = h.alarm
    BY <1>1 DEF Hosts
  <2> HIDE DEF n
  <2>5. IdleFits(n)
    BY <2>4, FitsFacts DEF IdleFits, HasWork
  <2>6. Fits(n, g0, evs, ag, st, cl)
    BY <2>3, <2>4, <2>5, SameQueueFits
  <2>7. QueuedTexts(n) = QueuedTexts(h) /\ (Calm(h) => Calm(n))
    BY <2>4 DEF QueuedTexts, Calm, Timed
  <2> QED BY <2>1, <2>4, <2>6, <2>7 DEF Gains
<1>3. CASE ~h.relay
  <2> DEFINE p == Push(h, texts, "now", "user")
  <2>1. SendTurn(h, texts) = IF Deferred(p) THEN p ELSE Onward(p)
    BY <1>3 DEF SendTurn, Onward
  <2>2. /\ Fits(p, g0, evs, ag, st, cl)
        /\ QueuedTexts(p) = QueuedTexts(h) \union ToSet(texts)
        /\ p.swallowed = h.swallowed /\ (Calm(h) => Calm(p))
    BY PushFits
  <2>3. Gains(h, p, ToSet(texts))
    BY <2>2 DEF Gains
  <2> HIDE DEF p
  <2>4. Fits(Onward(p), g0, evs, ag, st, cl) /\ Keeps(p, Onward(p))
    BY <2>2, OnwardFits
  <2> QED BY <2>1, <2>2, <2>3, <2>4, GainsThenKeeps
<1> QED BY <1>2, <1>3

\* The fields that the invariant says nothing of.
Alike(h, n) ==
  /\ n.place = h.place \/ n.place # "none"
  /\ n.runtime = h.runtime /\ n.gen = h.gen /\ n.starts = h.starts
  /\ n.delivery = h.delivery /\ n.inbox = h.inbox /\ n.steers = h.steers
  /\ n.tasks = h.tasks /\ n.queue = h.queue /\ n.next = h.next
  /\ n.timers = h.timers /\ n.swallowed = h.swallowed /\ n.alarm = h.alarm

LEMMA AlikeFits ==
  ASSUME NEW h, NEW n \in Hosts, NEW g0, NEW evs, NEW ag, NEW st, NEW cl,
         Fits(h, g0, evs, ag, st, cl),
         Alike(h, n), n.turn => h.turn, n.idle = 0 \/ n.idle = h.idle
  PROVE  Fits(n, g0, evs, ag, st, cl) /\ Keeps(h, n)
<1>1. IdleFits(n)
  BY FitsFacts DEF IdleFits, HasWork, Alike
<1> QED BY <1>1, SameQueueFits, SameQueueKeeps DEF Alike

LEMMA CompletedParkedFits ==
  ASSUME NEW h \in Hosts, NEW g0, NEW evs, NEW ag, NEW st, NEW cl,
         Fits([h EXCEPT !.turn = FALSE], g0, evs, ag, st, cl)
  PROVE  /\ Fits(CompletedParked(h), g0, evs, ag, st, cl)
         /\ Keeps(h, CompletedParked(h))
<1> DEFINE done == [h EXCEPT !.turn = FALSE]
           n == CompletedParked(h)
<1>1. Fits(done, g0, evs, ag, st, cl) /\ Keeps(h, done)
  <2>1. done.queue = h.queue /\ done.swallowed = h.swallowed /\ done.alarm = h.alarm
    BY DEF Hosts
  <2> QED BY <2>1, SameQueueKeeps
<1>2. n = CASE done.queue # <<>> /\ Changed(done) ->
                 IF done.tasks THEN done ELSE EnsureStarted(ShutDown(done))
            [] done.queue # <<>> /\ ~Changed(done) -> Dispatch(done)
            [] done.queue = <<>> ->
                 IF done.tasks THEN done
                 ELSE MarkIdle(IF Moved(done) THEN ShutDown(done) ELSE done)
  BY DEF CompletedParked
<1> HIDE DEF done, n
<1>3. \/ n = done \/ n = EnsureStarted(ShutDown(done)) \/ n = Dispatch(done)
      \/ n = MarkIdle(done) \/ n = MarkIdle(ShutDown(done))
  BY <1>2
<1>4. Fits(ShutDown(done), g0, evs, ag, st, cl) /\ Keeps(done, ShutDown(done))
  BY <1>1, FitsFacts, ShutDownFits
<1>5. Fits(n, g0, evs, ag, st, cl) /\ (n = done \/ Keeps(done, n) \/ Keeps(ShutDown(done), n))
  BY <1>1, <1>3, <1>4, EnsureStartedFits, DispatchFits, MarkIdleFits
<1>6. Keeps(h, n)
  BY <1>1, <1>4, <1>5, KeepsThrough
<1> QED BY <1>5, <1>6 DEF n

LEMMA CompletedViewedFits ==
  ASSUME NEW h \in Hosts, NEW g0, NEW evs, NEW ag, NEW st, NEW cl,
         Fits([h EXCEPT !.turn = FALSE], g0, evs, ag, st, cl)
  PROVE  /\ Fits(CompletedViewed(h), g0, evs, ag, st, cl)
         /\ Keeps(h, CompletedViewed(h))
<1> DEFINE done == [h EXCEPT !.turn = FALSE]
           restart == done.queue # <<>> /\ Changed(done)
           rested == IF (restart \/ Moved(done)) /\ ~done.tasks THEN ShutDown(done) ELSE done
           n == CompletedViewed(h)
<1>1. Fits(done, g0, evs, ag, st, cl) /\ Keeps(h, done)
  <2>1. done.queue = h.queue /\ done.swallowed = h.swallowed /\ done.alarm = h.alarm
    BY DEF Hosts
  <2> QED BY <2>1, SameQueueKeeps
<1>2. n = CASE restart /\ done.tasks -> rested
            [] restart /\ ~done.tasks -> EnsureStarted(rested)
            [] ~restart -> MarkIdle(Dispatch(rested))
  BY DEF CompletedViewed
<1>3. rested = ShutDown(done) \/ rested = done
  OBVIOUS
<1>4. Fits(rested, g0, evs, ag, st, cl) /\ Keeps(h, rested)
  <2> HIDE DEF done
  <2>1. Fits(ShutDown(done), g0, evs, ag, st, cl) /\ Keeps(done, ShutDown(done))
    BY <1>1, FitsFacts, ShutDownFits
  <2> HIDE DEF rested
  <2> QED BY <1>1, <1>3, <2>1, KeepsThrough
<1> HIDE DEF rested
<1>5. n = rested \/ n = EnsureStarted(rested) \/ n = MarkIdle(Dispatch(rested))
  <2> HIDE DEF done
  <2> QED BY <1>2
<1>6. Fits(Dispatch(rested), g0, evs, ag, st, cl) /\ Keeps(h, Dispatch(rested))
  BY <1>4, DispatchFits, KeepsThrough
<1> HIDE DEF n
<1>7. CASE n = rested
  BY <1>4, <1>7 DEF n
<1>8. CASE n = EnsureStarted(rested)
  <2>1. Fits(n, g0, evs, ag, st, cl) /\ Keeps(rested, n)
    BY <1>4, <1>8, EnsureStartedFits
  <2>2. Keeps(h, n)
    BY <1>4, <2>1, KeepsThrough
  <2> QED BY <2>1, <2>2 DEF n
<1>9. CASE n = MarkIdle(Dispatch(rested))
  <2>1. Fits(n, g0, evs, ag, st, cl) /\ Keeps(Dispatch(rested), n)
    BY <1>6, <1>9, MarkIdleFits
  <2>2. Keeps(h, n)
    BY <1>6, <2>1, KeepsThrough
  <2> QED BY <2>1, <2>2 DEF n
<1> QED BY <1>5, <1>7, <1>8, <1>9

LEMMA CompletedFits ==
  ASSUME NEW h \in Hosts, NEW g0, NEW evs, NEW ag, NEW st, NEW cl,
         Fits([[h EXCEPT !.running = FALSE] EXCEPT !.turn = FALSE], g0, evs, ag, st, cl)
  PROVE  Fits(Completed(h), g0, evs, ag, st, cl) /\ Keeps(h, Completed(h))
<1> DEFINE over == [h EXCEPT !.running = FALSE]
<1>1. over \in Hosts
  BY DEF Hosts
<1>2. Keeps(h, over)
  <2>1. over.queue = h.queue /\ over.swallowed = h.swallowed /\ over.alarm = h.alarm
    BY DEF Hosts
  <2> QED BY <2>1, SameQueueKeeps
<1>3. Completed(h) = IF h.place = "viewed" THEN CompletedViewed(over) ELSE CompletedParked(over)
  BY DEF Completed
<1> HIDE DEF over
<1>4. Fits([over EXCEPT !.turn = FALSE], g0, evs, ag, st, cl)
  BY DEF over
<1>5. /\ Fits(CompletedViewed(over), g0, evs, ag, st, cl) /\ Keeps(over, CompletedViewed(over))
      /\ Fits(CompletedParked(over), g0, evs, ag, st, cl) /\ Keeps(over, CompletedParked(over))
  BY <1>1, <1>4, CompletedViewedFits, CompletedParkedFits
<1> QED BY <1>2, <1>3, <1>5, KeepsThrough

LEMMA ClosedFits ==
  ASSUME NEW h, NEW g0, NEW evs, NEW ag, NEW st, NEW cl, Core(h, g0, evs, ag)
  PROVE  Fits(Closed(h), g0, evs, ag, st, cl) /\ Keeps(h, Closed(h))
<1> DEFINE f == Forget(h)
           dead == [f EXCEPT !.running = FALSE]
<1>1. Fits(f, g0, evs, ag, st, cl) /\ Keeps(h, f) /\ f \in Hosts /\ f.queue = h.queue
  BY ForgetFits, FitsFacts
<1> HIDE DEF f
<1>2. dead \in Hosts /\ Alike(f, dead) /\ dead.turn = f.turn /\ dead.idle = f.idle
  BY ZenonT(60), <1>1 DEF Hosts, Alike
<1> HIDE DEF dead
<1>3. Fits(dead, g0, evs, ag, st, cl) /\ Keeps(f, dead) /\ Keeps(h, dead)
  BY <1>1, <1>2, AlikeFits, KeepsThrough
<1>4. Closed(h) = IF h.place = "parked" /\ h.queue = <<>> THEN Evict(dead) ELSE dead
  BY DEF Closed, dead, f
<1>5. CASE h.place = "parked" /\ h.queue = <<>>
  <2>1. dead.queue = <<>> /\ Core(dead, g0, evs, ag)
    BY <1>1, <1>2, <1>3, <1>5, FitsFacts DEF Alike
  <2>2. Fits(Evict(dead), g0, evs, ag, st, cl) /\ Keeps(dead, Evict(dead))
    BY <2>1, EvictFits
  <2> QED BY <1>3, <1>4, <1>5, <2>2, KeepsThrough
<1>6. CASE ~(h.place = "parked" /\ h.queue = <<>>)
  BY <1>3, <1>4, <1>6
<1> QED BY <1>5, <1>6

LEMMA QueueAutomaticFits ==
  ASSUME NEW h, NEW g0, NEW evs, NEW ag, NEW st, NEW cl, Fits(h, g0, evs, ag, st, cl),
         NEW m \in Texts, m \notin QueuedTexts(h)
  PROVE  /\ Fits(QueueAutomatic(h, m), g0, evs, ag, st, cl)
         /\ Gains(h, QueueAutomatic(h, m), {m})
<1>1. h \in Hosts
  BY FitsFacts
<1>2. CASE h.place = "viewed"
  <2> DEFINE p == PushCallback(h, m)
  <2>1. QueueAutomatic(h, m) = IF Deferred(p) THEN p ELSE Onward(p)
    BY <1>2 DEF QueueAutomatic, Onward
  <2>2. Fits(p, g0, evs, ag, st, cl) /\ Gains(h, p, {m})
    BY PushCallbackFits
  <2> HIDE DEF p
  <2>3. Fits(Onward(p), g0, evs, ag, st, cl) /\ Keeps(p, Onward(p))
    BY <2>2, OnwardFits
  <2> QED BY <2>1, <2>2, <2>3, GainsThenKeeps
<1>3. CASE h.place # "viewed"
  <2> DEFINE k == [h EXCEPT !.place = "parked"]
             p == PushCallback(k, m)
             q == IF Live(p) /\ ~p.turn THEN CompletedParked(p) ELSE p
  <2>1. QueueAutomatic(h, m) = EnsureStarted(q)
    BY <1>3 DEF QueueAutomatic
  <2>2. k \in Hosts /\ Alike(h, k) /\ k.turn = h.turn /\ k.idle = h.idle
    BY <1>1 DEF Hosts, Alike
  <2> HIDE DEF k
  <2>3. Fits(k, g0, evs, ag, st, cl) /\ Keeps(h, k) /\ m \notin QueuedTexts(k)
    BY <2>2, AlikeFits DEF Keeps
  <2>4. Fits(p, g0, evs, ag, st, cl) /\ Gains(k, p, {m})
    BY <2>3, PushCallbackFits
  <2> HIDE DEF p
  <2>5. p \in Hosts /\ Fits([p EXCEPT !.turn = FALSE], g0, evs, ag, st, cl)
    <3> DEFINE t == [p EXCEPT !.turn = FALSE]
    <3>1. p \in Hosts
      BY <2>4, FitsFacts
    <3>2. t \in Hosts /\ Alike(p, t) /\ ~t.turn /\ t.idle = p.idle
      BY ZenonT(60), <3>1 DEF Hosts, Alike
    <3> HIDE DEF t
    <3>3. Fits(t, g0, evs, ag, st, cl)
      BY <2>4, <3>2, AlikeFits
    <3> QED BY <3>1, <3>3 DEF t
  <2>6. Fits(CompletedParked(p), g0, evs, ag, st, cl) /\ Keeps(p, CompletedParked(p))
    BY <2>5, CompletedParkedFits
  <2>7. Fits(q, g0, evs, ag, st, cl) /\ Gains(k, q, {m})
    BY <2>4, <2>6, GainsThenKeeps
  <2> HIDE DEF q
  <2>8. Fits(EnsureStarted(q), g0, evs, ag, st, cl) /\ Keeps(q, EnsureStarted(q))
    BY <2>7, EnsureStartedFits
  <2> QED BY <2>1, <2>3, <2>7, <2>8, GainsThenKeeps, KeepsThenGains
<1> QED BY <1>2, <1>3

LEMMA SteersGrow ==
  ASSUME NEW h, NEW g0, NEW evs, NEW ag, NEW st, NEW cl, Fits(h, g0, evs, ag, st, cl),
         NEW st2, NEW cl2, st \subseteq st2, cl \subseteq cl2
  PROVE  Fits(h, g0, evs, ag, st2, cl2)
<1>1. SteersFit(h, NewsOf(h, evs), st, cl)
  BY DEF Fits
<1>2. SteersFit(h, NewsOf(h, evs), st2, cl2)
  BY <1>1 DEF SteersFit, Steer1
<1> QED BY <1>2 DEF Fits

\* A steer of new texts, or of texts that leave the queue, goes to the provider.
With(st, texts) == st \union ToSet(texts)

LEMMA SteeredFits ==
  ASSUME NEW h, NEW g0, NEW evs, NEW ag, NEW st, NEW cl, Fits(h, g0, evs, ag, st, cl),
         Live(h), NEW texts \in Seq(Texts), IsInjective(texts),
         ToSet(texts) \intersect st = {},
         NEW s \in SUBSET Seq(Texts), h.steers \subseteq s, NEW cl2, cl \subseteq cl2,
         texts \in s \/ ToSet(texts) \subseteq cl2
  PROVE  LET n == [Steered(h, texts) EXCEPT !.steers = s]
         IN Fits(n, g0, evs, ag, With(st, texts), cl2) /\ Keeps(h, n)
<1> DEFINE command == Command("steer", 0, texts)
           box == IF h.reading THEN Append(h.inbox, command) ELSE h.inbox
           n == [Steered(h, texts) EXCEPT !.steers = s]
           news == NewsOf(h, evs)
           st2 == With(st, texts)
<1>1. h \in Hosts /\ h.inbox \in Seq(InboxCommands)
  BY FitsFacts DEF Hosts
<1>2. /\ command.do = "steer" /\ command.texts = texts
      /\ command \in InboxCommands
  BY DEF Command, InboxCommands
<1>3. /\ n.runtime = h.runtime /\ n.gen = h.gen /\ n.starts = h.starts
      /\ n.delivery = h.delivery /\ n.inbox = box /\ n.steers = s
      /\ n.turn = h.turn /\ n.tasks = h.tasks /\ n.queue = h.queue /\ n.next = h.next
      /\ n.place = h.place /\ n.timers = h.timers /\ n.idle = h.idle /\ n.swallowed = h.swallowed
      /\ n.alarm = h.alarm
  BY <1>1 DEF Hosts, Steered
<1> HIDE DEF command
<1>4. box \in Seq(InboxCommands)
  BY <1>1, <1>2, AppendElements
<1>5. n \in Hosts
  <2>1. h.steers \union {texts} \in SUBSET Seq(Texts)
    BY <1>1 DEF Hosts
  <2>2. CASE h.reading
    <3>1. n = [h EXCEPT !.steers = s, !.inbox = box]
      BY <1>1, <2>2 DEF Steered, Hosts, command
    <3> HIDE DEF n, box
    <3> QED BY <1>1, <1>4, <3>1 DEF Hosts
  <2>3. CASE ~h.reading
    <3>1. n = [h EXCEPT !.steers = s]
      BY <1>1, <2>3 DEF Steered, Hosts
    <3> HIDE DEF n, box
    <3> QED BY <1>1, <3>1 DEF Hosts
  <2> QED BY <2>2, <2>3
<1>6. /\ DOMAIN h.inbox \subseteq DOMAIN box
      /\ \A i \in DOMAIN h.inbox : box[i] = h.inbox[i]
      /\ \A i, j \in DOMAIN box : i \notin DOMAIN h.inbox /\ j \notin DOMAIN h.inbox => i = j
      /\ \A i \in DOMAIN box : i \notin DOMAIN h.inbox => box[i] = command
  <2>1. CASE h.reading
    <3>1. /\ DOMAIN box = 1..(Len(h.inbox) + 1) /\ box[Len(h.inbox) + 1] = command
          /\ DOMAIN h.inbox = 1..Len(h.inbox) /\ Len(h.inbox) \in Nat
          /\ \A i \in DOMAIN h.inbox : box[i] = h.inbox[i]
      BY <1>1, <1>2, <2>1, AppendElements, SequenceElements
    <3> HIDE DEF box
    <3> QED BY <3>1
  <2>2. CASE ~h.reading
    BY <2>2
  <2> QED BY <2>1, <2>2
<1> HIDE DEF n, box
<1>7. Prompts(n) = Prompts(h) /\ \A i \in Prompts(h) : n.inbox[i] = h.inbox[i]
  BY <1>2, <1>3, <1>6 DEF Prompts
<1>8. NewsOf(n, evs) = news /\ AgentOf(n, g0, ag) = AgentOf(h, g0, ag)
  BY <1>3 DEF NewsOf, AgentOf
<1> HIDE DEF news
<1>9. Core(n, g0, evs, ag)
  <2>1. ProcessFits(n, g0, evs)
    BY <1>3, FitsFacts DEF ProcessFits, Live
  <2>2. QueueFits(n)
    <3>1. QueueFits(h) /\ n.queue = h.queue /\ n.next = h.next
      BY <1>3, FitsFacts
    <3> QED BY <3>1 DEF QueueFits
  <2>3. IdleFits(n)
    BY <1>3, FitsFacts DEF IdleFits, HasWork
  <2> QED BY <1>5, <2>1, <2>2, <2>3, FitsFacts DEF Core
<1>10. SubmissionFits(n, news)
  <2>1. SubmissionFits(h, news)
    BY DEF Fits, news
  <2>2. \A id, t : Holds(n, id, t) <=> Holds(h, id, t)
    BY <1>3 DEF Holds
  <2> QED BY <1>3, <1>7, <2>1, <2>2 DEF SubmissionFits
<1>11. WorkFits(n, news, AgentOf(n, g0, ag))
  BY <1>3, <1>8 DEF Fits, WorkFits, news
<1>12. SteersFit(n, news, st2, cl2)
  <2>1. SteersFit(h, news, st, cl)
    BY DEF Fits, news
  <2>2. \A i \in InboxSteers(n) :
          \/ i \in InboxSteers(h) /\ n.inbox[i] = h.inbox[i]
          \/ i \notin DOMAIN h.inbox /\ n.inbox[i].texts = texts
    BY <1>2, <1>3, <1>6 DEF InboxSteers
  <2>3. \A i \in InboxSteers(h) : Steer1(n, h.inbox[i].texts, st2, cl2)
    BY <1>3, <2>1 DEF SteersFit, Steer1, With
  <2>4. \A i \in Settling(news) : Steer1(n, news[i].texts, st2, cl2)
    BY <1>3, <2>1 DEF SteersFit, Steer1, With
  <2>5. Steer1(n, texts, st2, cl2)
    BY <1>3 DEF Steer1, With
  <2>6. \A i \in InboxSteers(h) : Disjoint(h.inbox[i].texts, texts)
                                /\ Disjoint(texts, h.inbox[i].texts)
    BY <2>1 DEF SteersFit, Steer1, Disjoint
  <2>7. \A i \in Settling(news) : Disjoint(texts, news[i].texts)
    BY <2>1 DEF SteersFit, Steer1, Disjoint
  <2>8. \A i \in InboxSteers(n) : Steer1(n, n.inbox[i].texts, st2, cl2)
    BY <2>2, <2>3, <2>5
  <2>9. \A i, j \in InboxSteers(n) : i # j => Disjoint(n.inbox[i].texts, n.inbox[j].texts)
    <3>1. \A i, j \in InboxSteers(n) : i # j => i \in DOMAIN h.inbox \/ j \in DOMAIN h.inbox
      BY <1>3, <1>6 DEF InboxSteers
    <3>2. \A i, j \in InboxSteers(h) : i # j => Disjoint(h.inbox[i].texts, h.inbox[j].texts)
      BY <2>1 DEF SteersFit
    <3> QED BY <2>2, <2>6, <3>1, <3>2
  <2>10. \A i \in InboxSteers(n) : \A j \in Settling(news) :
           Disjoint(n.inbox[i].texts, news[j].texts)
    BY <2>1, <2>2, <2>7 DEF SteersFit
  <2>11. \A i, j \in Settling(news) : i # j => Disjoint(news[i].texts, news[j].texts)
    BY <2>1 DEF SteersFit
  <2> HIDE DEF st2
  <2> QED BY <2>4, <2>8, <2>9, <2>10, <2>11 DEF SteersFit
<1>13. Fits(n, g0, evs, ag, st2, cl2)
  BY <1>8, <1>9, <1>10, <1>11, <1>12 DEF Fits
<1>14. Keeps(h, n)
  BY <1>3, SameQueueKeeps
<1> QED BY <1>13, <1>14 DEF n

LEMMA RefireFits ==
  ASSUME NEW h, NEW g0, NEW evs, NEW ag, NEW st, NEW cl, Fits(h, g0, evs, ag, st, cl),
         NEW id
  PROVE  Fits(Refire(h, id), g0, evs, ag, st, cl) /\ Gains(h, Refire(h, id), {})
<1> DEFINE at == {i \in Takeable(h) : h.queue[i].id = id}
           k == First(at)
           texts == h.queue[k].texts
           t == Take(h, k)
           n == SendTurn(t, texts)
<1>1. CASE at = {}
  BY <1>1 DEF Refire, Gains
<1>2. CASE at # {}
  <2>1. Refire(h, id) = n
    BY <1>2 DEF Refire
  <2>2. k \in Takeable(h)
    <3>1. at \in SUBSET Nat
      BY FitsFacts, QueueElements DEF Takeable
    <3>2. k \in at
      BY <1>2, <3>1, LeastNatural
    <3> HIDE DEF k
    <3> QED BY <3>2
  <2> HIDE DEF k
  <2>3. /\ Fits(t, g0, evs, ag, st, cl)
        /\ QueuedTexts(t) = QueuedTexts(h) \ ToSet(texts)
        /\ ToSet(texts) \subseteq QueuedTexts(h)
        /\ texts \in Seq(Texts) /\ IsInjective(texts)
        /\ t.swallowed = h.swallowed
        /\ Calm(h) => Calm(t)
    BY <2>2, TakeFits
  <2> HIDE DEF t, texts
  <2>4. Fits(n, g0, evs, ag, st, cl) /\ Gains(t, n, ToSet(texts))
    <3>1. ToSet(texts) \intersect QueuedTexts(t) = {}
      BY <2>3
    <3> QED BY <2>3, <3>1, SendTurnFits
  <2> HIDE DEF n
  <2>5. Gains(h, n, {})
    BY <2>3, <2>4 DEF Gains
  <2> QED BY <2>1, <2>4, <2>5
<1> QED BY <1>1, <1>2

LEMMA GainsThrough ==
  ASSUME NEW h, NEW m, NEW n, Gains(h, m, {}), Gains(m, n, {})
  PROVE  Gains(h, n, {})
BY DEF Gains

\* The entries that are due are sent again one after the other.
LEMMA FireViewedFits ==
  ASSUME NEW h, NEW g0, NEW evs, NEW ag, NEW st, NEW cl, Fits(h, g0, evs, ag, st, cl)
  PROVE  Fits(FireViewed(h), g0, evs, ag, st, cl) /\ Gains(h, FireViewed(h), {})
<1> DEFINE len == Len(h.queue)
           step(x, n) == IF n \in Due(h) THEN Refire(x, h.queue[n].id) ELSE x
           isFired(f, m) == f = [n \in 0..m |-> IF n = 0 THEN h ELSE step(f[n - 1], n)]
           fired == CHOOSE f : isFired(f, len)
           Good(x) == Fits(x, g0, evs, ag, st, cl) /\ Gains(h, x, {})
<1>1. FireViewed(h) = fired[len]
  BY DEF FireViewed
<1>2. len \in Nat
  BY FitsFacts, QueueElements
<1>3. \A x, n : Good(x) => Good(step(x, n))
  BY RefireFits, GainsThrough
<1>4. Good(h)
  BY DEF Gains
<1> HIDE DEF step, Good, len
<1>5. \A m \in Nat : \E f : isFired(f, m)
  <2> DEFINE bad == {m \in Nat : ~\E f : isFired(f, m)}
  <2>1. SUFFICES ASSUME bad # {} PROVE FALSE
    OBVIOUS
  <2> DEFINE least == First(bad)
  <2>2. least \in bad /\ \A m \in bad : least <= m
    BY <2>1, LeastNatural
  <2> HIDE DEF least
  <2>3. CASE least = 0
    <3> DEFINE f == [n \in 0..0 |-> h]
    <3>1. isFired(f, 0)
      OBVIOUS
    <3> QED BY <2>2, <2>3, <3>1
  <2>4. CASE least # 0
    <3>1. least - 1 \in Nat /\ least - 1 \notin bad
      <4>1. least \in Nat
        BY <2>2
      <4> HIDE DEF bad
      <4> QED BY <2>2, <2>4, <4>1
    <3>2. PICK f : isFired(f, least - 1)
      BY <3>1
    <3> DEFINE g == [n \in 0..least |-> IF n = least THEN step(f[least - 1], least) ELSE f[n]]
    <3>3. \A n \in 0..least : g[n] = IF n = 0 THEN h ELSE step(g[n - 1], n)
      <4> SUFFICES ASSUME NEW n \in 0..least
                   PROVE  g[n] = IF n = 0 THEN h ELSE step(g[n - 1], n)
        OBVIOUS
      <4>1. CASE n = least
        <5>1. n - 1 \in 0..least /\ n - 1 # least /\ n # 0
          BY <2>2, <2>4, <4>1
        <5>2. g[n - 1] = f[n - 1]
          BY <5>1
        <5> QED BY <4>1, <5>1, <5>2
      <4>2. CASE n # least /\ n # 0
        <5>1. n \in 0..(least - 1) /\ n - 1 \in 0..least /\ n - 1 # least
          BY <2>2, <4>2
        <5>2. g[n] = f[n] /\ g[n - 1] = f[n - 1]
          BY <4>2, <5>1
        <5>3. f[n] = step(f[n - 1], n)
          BY <3>2, <4>2, <5>1
        <5> QED BY <4>2, <5>2, <5>3
      <4>3. CASE n # least /\ n = 0
        <5>1. 0 \in 0..(least - 1) /\ 0 \in 0..least
          BY <2>2, <2>4
        <5>2. g[0] = f[0] /\ f[0] = h
          BY <3>2, <4>3, <5>1
        <5> QED BY <4>3, <5>2
      <4> QED BY <4>1, <4>2, <4>3
    <3>4. isFired(g, least)
      <4>1. g = [n \in 0..least |-> g[n]]
        OBVIOUS
      <4> HIDE DEF g
      <4> QED BY <3>3, <4>1
    <3> QED BY <2>2, <3>4
  <2> QED BY <2>3, <2>4
<1>6. isFired(fired, len)
  BY <1>2, <1>5
<1> HIDE DEF fired
<1>7. fired[0] = h /\ \A n \in 1..len : fired[n] = step(fired[n - 1], n)
  BY <1>2, <1>6
<1>8. \A n \in 0..len : Good(fired[n])
  <2> DEFINE bad == {n \in 0..len : ~Good(fired[n])}
  <2>1. SUFFICES ASSUME bad # {} PROVE FALSE
    OBVIOUS
  <2> DEFINE least == First(bad)
  <2>2. least \in bad /\ \A n \in bad : least <= n
    <3>1. bad \in SUBSET Nat
      BY <1>2
    <3> QED BY <2>1, <3>1, LeastNatural
  <2> HIDE DEF least
  <2>3. least # 0
    BY <1>4, <1>7, <2>2
  <2>4. least - 1 \in 0..len /\ least \in 1..len /\ least - 1 \notin bad
    BY <1>2, <2>2, <2>3
  <2>5. Good(fired[least - 1])
    BY <2>4
  <2> QED BY <1>3, <1>7, <2>2, <2>4, <2>5
<1>9. Good(fired[len])
  BY <1>2, <1>8
<1> QED BY <1>1, <1>9 DEF Good

\* A queue with the same entries, in another order or at other times.
Rearranged(old, q, d, from) ==
  /\ from \in [d -> d]
  /\ \A i, j \in d : i # j => from[i] # from[j]
  /\ \A j \in d : \E i \in d : from[i] = j
  /\ \A i \in d : /\ q[i].id = old[from[i]].id /\ q[i].texts = old[from[i]].texts
                  /\ q[i].when # "now" => old[from[i]].when # "now"

LEMMA RearrangedFits ==
  ASSUME NEW h, NEW g0, NEW evs, NEW ag, NEW st, NEW cl, Fits(h, g0, evs, ag, st, cl),
         NEW q \in Seq(Entries), NEW d, DOMAIN q = d, DOMAIN h.queue = d,
         NEW from, Rearranged(h.queue, q, d, from)
  PROVE  LET n == [h EXCEPT !.queue = q]
         IN Fits(n, g0, evs, ag, st, cl) /\ Keeps(h, n)
<1> DEFINE n == [h EXCEPT !.queue = q]
<1>1. h \in Hosts /\ QueueFits(h)
  BY FitsFacts
<1>0. /\ from \in [d -> d]
      /\ \A i, j \in d : i # j => from[i] # from[j]
      /\ \A j \in d : \E i \in d : from[i] = j
      /\ \A i \in d : /\ q[i].id = h.queue[from[i]].id /\ q[i].texts = h.queue[from[i]].texts
                      /\ q[i].when # "now" => h.queue[from[i]].when # "now"
  BY DEF Rearranged
<1>2. n \in Hosts
  BY <1>1 DEF Hosts
<1>3. /\ n.runtime = h.runtime /\ n.gen = h.gen /\ n.starts = h.starts
      /\ n.delivery = h.delivery /\ n.inbox = h.inbox /\ n.steers = h.steers
      /\ n.turn = h.turn /\ n.tasks = h.tasks /\ n.queue = q /\ n.next = h.next
      /\ n.place = h.place /\ n.timers = h.timers /\ n.idle = h.idle /\ n.swallowed = h.swallowed
      /\ n.alarm = h.alarm
  BY <1>1 DEF Hosts
<1> HIDE DEF n
<1>4. QueueFits(n)
  <2>1. \A i \in d : q[i].id # 0 /\ q[i].id < h.next /\ IsInjective(q[i].texts)
    <3> SUFFICES ASSUME NEW i \in d
                 PROVE  q[i].id # 0 /\ q[i].id < h.next /\ IsInjective(q[i].texts)
      OBVIOUS
    <3>1. from[i] \in d /\ q[i].id = h.queue[from[i]].id /\ q[i].texts = h.queue[from[i]].texts
      BY <1>0
    <3> QED BY <1>1, <3>1 DEF QueueFits
  <2>2. \A i, j \in d : i # j =>
          q[i].id # q[j].id /\ ToSet(q[i].texts) \intersect ToSet(q[j].texts) = {}
    <3> SUFFICES ASSUME NEW i \in d, NEW j \in d, i # j
                 PROVE  /\ q[i].id # q[j].id
                        /\ ToSet(q[i].texts) \intersect ToSet(q[j].texts) = {}
      OBVIOUS
    <3>1. from[i] \in d /\ from[j] \in d /\ from[i] # from[j]
      BY <1>0
    <3>2. /\ h.queue[from[i]].id # h.queue[from[j]].id
          /\ ToSet(h.queue[from[i]].texts) \intersect ToSet(h.queue[from[j]].texts) = {}
      BY <1>1, <3>1 DEF QueueFits
    <3>3. /\ q[i].id = h.queue[from[i]].id /\ q[i].texts = h.queue[from[i]].texts
          /\ q[j].id = h.queue[from[j]].id /\ q[j].texts = h.queue[from[j]].texts
      BY <1>0
    <3> QED BY <3>2, <3>3
  <2> QED BY <1>3, <2>1, <2>2 DEF QueueFits
<1>5. \A j \in d : \E i \in d : q[i].id = h.queue[j].id /\ q[i].texts = h.queue[j].texts
  <2> SUFFICES ASSUME NEW j \in d
               PROVE  \E i \in d : q[i].id = h.queue[j].id /\ q[i].texts = h.queue[j].texts
    OBVIOUS
  <2>1. PICK i \in d : from[i] = j
    BY <1>0
  <2>2. q[i].id = h.queue[from[i]].id /\ q[i].texts = h.queue[from[i]].texts
    BY <1>0
  <2> QED BY <2>1, <2>2
<1>6. \A j \in d : h.queue[j].id = h.delivery =>
        Holds(n, h.delivery, h.queue[j].texts)
  BY <1>3, <1>5 DEF Holds
<1>7. IdleFits(n)
  <2>1. h.queue = <<>> => q = <<>>
    <3>1. DOMAIN q = 1..Len(q) /\ Len(q) \in Nat
      BY SequenceElements
    <3>2. SUFFICES ASSUME h.queue = <<>> PROVE q = <<>>
      OBVIOUS
    <3>3. DOMAIN q = {}
      BY <3>2
    <3>4. Len(q) = 0
      BY <3>1, <3>3
    <3> QED BY <3>4, EmptySeq
  <2> QED BY <1>3, <2>1, FitsFacts DEF IdleFits, HasWork
<1>8. Fits(n, g0, evs, ag, st, cl)
  BY <1>2, <1>3, <1>4, <1>6, <1>7, Frame
<1>9. QueuedTexts(n) = QueuedTexts(h)
  <2>1. \A x : x \in QueuedTexts(n) <=> \E j \in d : x \in ToSet(q[j].texts)
    BY <1>3 DEF QueuedTexts
  <2>2. \A x : x \in QueuedTexts(h) <=>
                 \E j \in d : x \in ToSet(h.queue[j].texts)
    BY DEF QueuedTexts
  <2>3. \A i \in d : from[i] \in d /\ q[i].texts = h.queue[from[i]].texts
    BY <1>0
  <2>4. \A x : x \in QueuedTexts(n) => x \in QueuedTexts(h)
    BY <2>1, <2>2, <2>3
  <2>5. \A x : x \in QueuedTexts(h) => x \in QueuedTexts(n)
    BY <1>5, <2>1, <2>2
  <2> QED BY <2>4, <2>5
<1>10. Calm(h) => Calm(n)
  <2>1. \A i \in d : q[i].when # "now" =>
          \E j \in d : h.queue[j].when # "now"
    BY <1>0
  <2> QED BY <1>3, <2>1 DEF Calm, Timed
<1> QED BY <1>3, <1>8, <1>9, <1>10 DEF Keeps, n

\* The same with every entry at its place.
LEMMA RetimedFits ==
  ASSUME NEW h, NEW g0, NEW evs, NEW ag, NEW st, NEW cl, Fits(h, g0, evs, ag, st, cl),
         NEW q \in Seq(Entries), DOMAIN q = DOMAIN h.queue,
         \A i \in DOMAIN q : /\ q[i].id = h.queue[i].id /\ q[i].texts = h.queue[i].texts
                             /\ q[i].when # "now" => h.queue[i].when # "now"
  PROVE  LET n == [h EXCEPT !.queue = q]
         IN Fits(n, g0, evs, ag, st, cl) /\ Keeps(h, n)
<1> DEFINE d == DOMAIN q
           from == [i \in d |-> i]
<1>1. \A i \in d : from[i] = i
  OBVIOUS
<1>2. from \in [d -> d]
  OBVIOUS
<1>3. DOMAIN q = d /\ DOMAIN h.queue = d
  OBVIOUS
<1> HIDE DEF from, d
<1>4. /\ \A i, j \in d : i # j => from[i] # from[j]
      /\ \A j \in d : \E i \in d : from[i] = j
  BY <1>1
<1>5. \A i \in d : /\ q[i].id = h.queue[from[i]].id
                   /\ q[i].texts = h.queue[from[i]].texts
                   /\ q[i].when # "now" => h.queue[from[i]].when # "now"
  BY <1>1, <1>3
<1>6. Rearranged(h.queue, q, d, from)
  BY <1>2, <1>4, <1>5 DEF Rearranged
<1> QED BY <1>3, <1>6, RearrangedFits

LEMMA FireParkedFits ==
  ASSUME NEW h, NEW g0, NEW evs, NEW ag, NEW st, NEW cl, Fits(h, g0, evs, ag, st, cl)
  PROVE  Fits(FireParked(h), g0, evs, ag, st, cl) /\ Keeps(h, FireParked(h))
<1> DEFINE q == [i \in DOMAIN h.queue |->
                   IF h.queue[i].when = "due" THEN [h.queue[i] EXCEPT !.when = "now"]
                   ELSE h.queue[i]]
           ready == [h EXCEPT !.queue = q]
           n == FireParked(h)
<1>1. /\ DOMAIN h.queue = 1..Len(h.queue) /\ Len(h.queue) \in Nat
      /\ \A i \in DOMAIN h.queue : h.queue[i] \in Entries
  BY FitsFacts, QueueElements
<1>2. \A i \in DOMAIN h.queue :
        /\ q[i] \in Entries /\ q[i].id = h.queue[i].id /\ q[i].texts = h.queue[i].texts
        /\ q[i].when # "now" => h.queue[i].when # "now"
  BY <1>1 DEF Entries
<1>3. q \in Seq(Entries) /\ DOMAIN q = DOMAIN h.queue
  <2>1. q \in [1..Len(h.queue) -> Entries]
    BY <1>1, <1>2
  <2> HIDE DEF q
  <2> QED BY <1>1, <2>1, IsASeq
<1> HIDE DEF q
<1>4. Fits(ready, g0, evs, ag, st, cl) /\ Keeps(h, ready)
  BY <1>2, <1>3, RetimedFits
<1>5. n = CASE Changed(ready) -> IF ready.tasks THEN ready ELSE EnsureStarted(ShutDown(ready))
            [] ~Changed(ready) -> EnsureStarted(Dispatch(ready))
  BY DEF FireParked, q
<1> HIDE DEF ready, n
<1>6. Fits(ShutDown(ready), g0, evs, ag, st, cl) /\ Keeps(h, ShutDown(ready))
  BY <1>4, FitsFacts, ShutDownFits, KeepsThrough
<1>7. Fits(Dispatch(ready), g0, evs, ag, st, cl) /\ Keeps(h, Dispatch(ready))
  BY <1>4, DispatchFits, KeepsThrough
<1>8. \/ n = ready \/ n = EnsureStarted(ShutDown(ready)) \/ n = EnsureStarted(Dispatch(ready))
  BY <1>5
<1>9. CASE n = ready
  BY <1>4, <1>9 DEF n
<1>10. CASE n = EnsureStarted(ShutDown(ready))
  <2>1. Fits(n, g0, evs, ag, st, cl) /\ Keeps(ShutDown(ready), n)
    BY <1>6, <1>10, EnsureStartedFits
  <2>2. Keeps(h, n)
    BY <1>6, <2>1, KeepsThrough
  <2> QED BY <2>1, <2>2 DEF n
<1>11. CASE n = EnsureStarted(Dispatch(ready))
  <2>1. Fits(n, g0, evs, ag, st, cl) /\ Keeps(Dispatch(ready), n)
    BY <1>7, <1>11, EnsureStartedFits
  <2>2. Keeps(h, n)
    BY <1>7, <2>1, KeepsThrough
  <2> QED BY <2>1, <2>2 DEF n
<1> QED BY <1>8, <1>9, <1>10, <1>11

\* Moving an entry permutes the queue.
LEMMA MovedFits ==
  ASSUME NEW h, NEW g0, NEW evs, NEW ag, NEW st, NEW cl, Fits(h, g0, evs, ag, st, cl),
         NEW i \in DOMAIN h.queue, NEW j \in DOMAIN h.queue
  PROVE  LET n == [h EXCEPT !.queue = InsertAt(RemoveAt(@, i), j, @[i])]
         IN Fits(n, g0, evs, ag, st, cl) /\ Keeps(h, n)
<1> DEFINE len == Len(h.queue)
           r == RemoveAt(h.queue, i)
           q == InsertAt(r, j, h.queue[i])
           rest(p) == IF p < j THEN p ELSE p - 1
           back(k) == IF k < i THEN k ELSE k + 1
           from == [p \in 1..len |-> IF p = j THEN i ELSE back(rest(p))]
<1>1. /\ h.queue \in Seq(Entries) /\ DOMAIN h.queue = 1..len /\ len \in Nat
      /\ h.queue[i] \in Entries
  BY FitsFacts, QueueElements
<1>2. /\ r \in Seq(Entries) /\ Len(r) = len - 1 /\ len \in Nat \ {0}
      /\ \A k \in 1..(len - 1) : r[k] = h.queue[IF k < i THEN k ELSE k + 1]
  BY <1>1, RemoveAtElements
<1> HIDE DEF r
<1>3. /\ q \in Seq(Entries) /\ DOMAIN q = 1..len
      /\ \A p \in 1..len : q[p] = IF p < j THEN r[p] ELSE IF p = j THEN h.queue[i] ELSE r[p - 1]
  <2>1. j \in 1..(Len(r) + 1) /\ Len(r) + 1 = len
    BY <1>1, <1>2
  <2>2. /\ q \in Seq(Entries) /\ DOMAIN q = 1..(Len(r) + 1)
        /\ \A p \in 1..(Len(r) + 1) :
             q[p] = IF p < j THEN r[p] ELSE IF p = j THEN h.queue[i] ELSE r[p - 1]
    <3>1. PICK e \in Entries : e = h.queue[i]
      BY <1>1
    <3>2. q = InsertAt(r, j, e)
      BY <3>1
    <3>3. r \in Seq(Entries) /\ j \in 1..(Len(r) + 1)
      BY <1>2, <2>1
    <3> HIDE DEF q, len
    <3>4. InsertAt(r, j, e) \in Seq(Entries) /\ Inserted(InsertAt(r, j, e), r, j, e)
      BY <3>3, InsertAtElements
    <3>5. q \in Seq(Entries) /\ Inserted(q, r, j, h.queue[i])
      BY <3>1, <3>2, <3>4
    <3> QED BY <3>5 DEF Inserted
  <2> QED BY <2>1, <2>2
<1> HIDE DEF q, len
<1>4. /\ from \in [DOMAIN q -> DOMAIN q]
      /\ \A p, k \in DOMAIN q : p # k => from[p] # from[k]
  <2>1. \A p \in 1..len : p # j =>
          rest(p) \in 1..(len - 1) /\ back(rest(p)) \in 1..len /\ back(rest(p)) # i
    BY <1>1, <1>2
  <2>2. \A p, k \in 1..len : p # j /\ k # j /\ p # k => rest(p) # rest(k)
    BY <1>1
  <2>3. \A m, n \in 1..(len - 1) : m # n => back(m) # back(n)
    BY <1>1
  <2> HIDE DEF rest, back
  <2> QED BY <1>1, <1>3, <2>1, <2>2, <2>3
<1>5. \A k \in DOMAIN q : \E p \in DOMAIN q : from[p] = k
  <2> SUFFICES ASSUME NEW k \in 1..len PROVE \E p \in 1..len : from[p] = k
    BY <1>3
  <2>1. CASE k = i
    BY <1>1, <2>1
  <2>2. CASE k # i
    <3> DEFINE b == IF k < i THEN k ELSE k - 1
               p == IF b < j THEN b ELSE b + 1
    <3>1. p \in 1..len /\ p # j /\ rest(p) = b /\ back(b) = k
      BY <1>1, <1>2, <2>2
    <3> QED BY <3>1
  <2> QED BY <2>1, <2>2
<1>6. \A p \in 1..len : q[p] = h.queue[from[p]]
  <2> SUFFICES ASSUME NEW p \in 1..len PROVE q[p] = h.queue[from[p]]
    OBVIOUS
  <2>1. CASE p = j
    BY <1>3, <2>1
  <2>2. CASE p # j
    <3>1. rest(p) \in 1..(len - 1) /\ q[p] = r[rest(p)] /\ from[p] = back(rest(p))
      BY <1>1, <1>2, <1>3, <2>2
    <3> HIDE DEF from, rest
    <3> QED BY <1>2, <3>1
  <2> QED BY <2>1, <2>2
<1> HIDE DEF from
<1>7. LET n == [h EXCEPT !.queue = q] IN Fits(n, g0, evs, ag, st, cl) /\ Keeps(h, n)
  <2> DEFINE d == 1..len
  <2>1. DOMAIN q = d /\ DOMAIN h.queue = d /\ from \in [d -> d]
    BY <1>1, <1>3, <1>4
  <2>2. \A p \in d : /\ q[p].id = h.queue[from[p]].id
                     /\ q[p].texts = h.queue[from[p]].texts
                     /\ q[p].when # "now" => h.queue[from[p]].when # "now"
    BY <1>6
  <2>3. /\ \A p, k \in d : p # k => from[p] # from[k]
        /\ \A k \in d : \E p \in d : from[p] = k
    BY <1>3, <1>4, <1>5
  <2> HIDE DEF d
  <2>4. Rearranged(h.queue, q, d, from)
    BY <2>1, <2>2, <2>3 DEF Rearranged
  <2> QED BY <1>3, <2>1, <2>4, RearrangedFits
<1> QED BY <1>7 DEF q, r

-------------------------------------------------------------------------------
(* What a process told, and the loop taking the first of it *)

EventsFit(evs) == \A g \in DOMAIN evs : evs[g] \in Seq(Events) /\ evs[g] # <<>>

LEMMA AfterFirstFacts ==
  ASSUME EventsFit(events), NEW g \in DOMAIN events
  PROVE  /\ DOMAIN AfterFirst(g) \subseteq DOMAIN events /\ EventsFit(AfterFirst(g))
         /\ Untaken(AfterFirst(g), g) = Tail(events[g])
         /\ \A p : p # g => Untaken(AfterFirst(g), p) = Untaken(events, p)
         /\ \A p \in DOMAIN events : p # g => p \in DOMAIN AfterFirst(g)
<1> DEFINE d == IF Len(events[g]) = 1 THEN DOMAIN events \ {g} ELSE DOMAIN events
           e == [p \in d |-> IF p = g THEN Tail(events[p]) ELSE events[p]]
<1>1. AfterFirst(g) = e
  BY DEF AfterFirst
<1>2. /\ Tail(events[g]) \in Seq(Events) /\ Len(events[g]) \in Nat \ {0}
      /\ DOMAIN Tail(events[g]) = 1..(Len(events[g]) - 1)
  BY TailElements DEF EventsFit
<1>3. Tail(events[g]) = <<>> <=> Len(events[g]) = 1
  <2>1. Len(Tail(events[g])) = Len(events[g]) - 1
    BY <1>2, LenProperties
  <2>2. Tail(events[g]) = <<>> <=> Len(Tail(events[g])) = 0
    BY <1>2, EmptySeq
  <2> QED BY <1>2, <2>1, <2>2
<1>4. DOMAIN e = d /\ d \subseteq DOMAIN events
      /\ \A p \in d : e[p] = IF p = g THEN Tail(events[p]) ELSE events[p]
  OBVIOUS
<1>5. g \in d <=> Len(events[g]) # 1
  OBVIOUS
<1>6. \A p : p # g => (p \in d <=> p \in DOMAIN events)
  OBVIOUS
<1> HIDE DEF e, d
<1>7. EventsFit(e)
  BY <1>2, <1>3, <1>4, <1>5 DEF EventsFit
<1>8. Untaken(e, g) = Tail(events[g])
  BY <1>3, <1>4, <1>5 DEF Untaken
<1>9. \A p : p # g => Untaken(e, p) = Untaken(events, p)
  BY <1>4, <1>6 DEF Untaken
<1> QED BY <1>1, <1>4, <1>6, <1>7, <1>8, <1>9

\* The places of what is left are one less.
LEMMA TailTold ==
  ASSUME NEW news \in Seq(Events), news # <<>>, NEW what
  PROVE  /\ \A i \in Told(Tail(news), what) :
              i + 1 \in Told(news, what) /\ Tail(news)[i] = news[i + 1]
         /\ \A i \in Told(news, what) : i # 1 =>
              i - 1 \in Told(Tail(news), what) /\ Tail(news)[i - 1] = news[i]
         /\ 1 \in Told(news, what) <=> Head(news).is \in what
         /\ Told(news, what) \subseteq Nat \ {0} /\ Told(Tail(news), what) \subseteq Nat
<1>1. /\ DOMAIN news = 1..Len(news) /\ Len(news) \in Nat \ {0}
      /\ DOMAIN Tail(news) = 1..(Len(news) - 1)
      /\ \A i \in 1..(Len(news) - 1) : Tail(news)[i] = news[i + 1]
      /\ Head(news) = news[1]
  BY TailElements
<1>2. \A i \in DOMAIN Tail(news) : i + 1 \in DOMAIN news /\ Tail(news)[i] = news[i + 1]
  BY <1>1
<1>3. \A i \in DOMAIN news : i # 1 => i - 1 \in DOMAIN Tail(news) /\ Tail(news)[i - 1] = news[i]
  <2> SUFFICES ASSUME NEW i \in DOMAIN news, i # 1
               PROVE  i - 1 \in DOMAIN Tail(news) /\ Tail(news)[i - 1] = news[i]
    OBVIOUS
  <2>1. i - 1 \in 1..(Len(news) - 1) /\ (i - 1) + 1 = i
    BY <1>1
  <2> QED BY <1>1, <2>1
<1>4. 1 \in DOMAIN news
  BY <1>1
<1>5. DOMAIN news \subseteq Nat \ {0} /\ DOMAIN Tail(news) \subseteq Nat
  BY <1>1
<1> QED BY <1>1, <1>2, <1>3, <1>4, <1>5 DEF Told

LEMMA TailFollows ==
  ASSUME NEW news \in Seq(Events), news # <<>>, NEW what, NEW i \in Nat \ {0},
         Follows(news, i + 1, what)
  PROVE  Follows(Tail(news), i, what)
<1>1. PICK j \in Told(news, what) : i + 1 < j
  BY DEF Follows
<1>2. j \in Nat \ {0} /\ j # 1
  BY <1>1, TailTold
<1>3. j - 1 \in Told(Tail(news), what) /\ i < j - 1
  BY <1>1, <1>2, TailTold
<1> QED BY <1>3 DEF Follows

\* What is left when the loop takes the first event of the process in use.
LEMMA TakenFits ==
  ASSUME NEW h, NEW g0, NEW ag, NEW st, NEW cl, Fits(h, g0, events, ag, st, cl),
         EventsFit(events), Live(h), h.gen \in DOMAIN events
  PROVE  LET news == events[h.gen]
             rest == Tail(news)
             evs == AfterFirst(h.gen)
             a == AgentOf(h, g0, ag)
         IN /\ news \in Seq(Events) /\ news # <<>> /\ Head(news) \in Events
            /\ NewsOf(h, events) = news /\ NewsOf(h, evs) = rest
            /\ Core(h, g0, evs, ag)
            /\ SteersFit(h, rest, st, cl)
            /\ Head(news).is \notin {"accepted", "closed"} => SubmissionFits(h, rest)
            /\ h.turn /\ Head(news).is \notin {"completed", "closed"} =>
                 a.prompts > 0 \/ Told(rest, {"completed", "closed"}) # {}
            /\ h.tasks /\ Head(news).is \notin {"tasks", "closed"} =>
                 a.task \/ a.prompts > 0 \/ Told(rest, {"tasks", "closed"}) # {}
            /\ Head(news).is \in {"accepted", "started"} =>
                 a.prompts > 0 \/ Told(rest, {"completed", "closed"}) # {}
            /\ Head(news).is = "tasks" /\ Head(news).id > 0 =>
                 a.task \/ a.prompts > 0 \/ Told(rest, {"tasks", "closed"}) # {}
            /\ \A i \in Told(rest, {"accepted", "started"}) :
                 a.prompts > 0 \/ Follows(rest, i, {"completed", "closed"})
            /\ \A i \in Told(rest, {"tasks"}) : rest[i].id > 0 =>
                 a.task \/ a.prompts > 0 \/ Follows(rest, i, {"tasks", "closed"})
<1> DEFINE news == events[h.gen]
           rest == Tail(news)
           evs == AfterFirst(h.gen)
           a == AgentOf(h, g0, ag)
<1>1. news \in Seq(Events) /\ news # <<>>
  BY DEF EventsFit
<1>2. NewsOf(h, events) = news
  BY DEF NewsOf, Untaken
<1>3. /\ DOMAIN evs \subseteq DOMAIN events /\ EventsFit(evs)
      /\ Untaken(evs, h.gen) = rest
  BY AfterFirstFacts
<1>4. NewsOf(h, evs) = rest
  BY <1>3 DEF NewsOf
<1>5. Core(h, g0, evs, ag)
  <2>1. GivenFit(g0, evs, ag)
    BY <1>3, FitsFacts DEF GivenFit, EventsFit
  <2>2. ProcessFits(h, g0, evs)
    BY <1>3, FitsFacts DEF ProcessFits
  <2> QED BY <2>1, <2>2, FitsFacts DEF Core
<1> HIDE DEF evs
<1>6. \A what :
        /\ \A i \in Told(rest, what) : i + 1 \in Told(news, what) /\ rest[i] = news[i + 1]
        /\ \A i \in Told(news, what) : i # 1 =>
             i - 1 \in Told(rest, what) /\ rest[i - 1] = news[i]
        /\ 1 \in Told(news, what) <=> Head(news).is \in what
        /\ Told(news, what) \subseteq Nat \ {0} /\ Told(rest, what) \subseteq Nat
  BY <1>1, TailTold
<1>7. Head(news) \in Events /\ news[1] = Head(news)
  BY <1>1, TailElements
<1>8. \A what : \A i \in DOMAIN rest : Follows(news, i + 1, what) => Follows(rest, i, what)
  <2> SUFFICES ASSUME NEW what, NEW i \in DOMAIN rest, Follows(news, i + 1, what)
               PROVE  Follows(rest, i, what)
    OBVIOUS
  <2>1. i \in Nat \ {0}
    <3>1. DOMAIN rest = 1..(Len(news) - 1) /\ Len(news) \in Nat \ {0}
      BY <1>1, TailElements
    <3> QED BY <3>1
  <2> QED BY <1>1, <2>1, TailFollows
<1>10. SubmissionFits(h, news) /\ WorkFits(h, news, a) /\ SteersFit(h, news, st, cl)
  BY <1>2 DEF Fits
<1> HIDE DEF news, rest, a
<1>11. SteersFit(h, rest, st, cl)
  <2>1. \A i \in Settling(rest) : i + 1 \in Settling(news) /\ rest[i] = news[i + 1]
    BY <1>6 DEF Settling
  <2>2. Settling(rest) \subseteq Nat
    BY <1>6 DEF Settling
  <2>3. \A i, j \in Settling(rest) : i # j => i + 1 # j + 1
    BY <2>2
  <2>4. \A i, j \in Settling(rest) : i # j => Disjoint(rest[i].texts, rest[j].texts)
    <3> SUFFICES ASSUME NEW i \in Settling(rest), NEW j \in Settling(rest), i # j
                 PROVE  Disjoint(rest[i].texts, rest[j].texts)
      OBVIOUS
    <3>1. i + 1 \in Settling(news) /\ j + 1 \in Settling(news) /\ i + 1 # j + 1
      BY <2>1, <2>3
    <3> QED BY <1>10, <2>1, <3>1 DEF SteersFit
  <2>5. \A i \in Settling(rest) : Steer1(h, rest[i].texts, st, cl)
    BY <1>10, <2>1 DEF SteersFit
  <2>6. \A i \in InboxSteers(h) : \A j \in Settling(rest) :
          Disjoint(h.inbox[i].texts, rest[j].texts)
    BY <1>10, <2>1 DEF SteersFit
  <2> QED BY <1>10, <2>4, <2>5, <2>6 DEF SteersFit
<1>12. Head(news).is \notin {"accepted", "closed"} => SubmissionFits(h, rest)
  <2> SUFFICES ASSUME Head(news).is \notin {"accepted", "closed"}
               PROVE  SubmissionFits(h, rest)
    OBVIOUS
  <2>1. 1 \notin Told(news, {"accepted", "closed"})
    BY <1>6
  <2>2. Told(news, {"accepted", "closed"}) # {} => Told(rest, {"accepted", "closed"}) # {}
    BY <1>6, <2>1
  <2>3. \A i \in Told(rest, {"accepted"}) :
          i + 1 \in Told(news, {"accepted"}) /\ rest[i] = news[i + 1] /\ i \in Nat
    BY <1>6
  <2>4. Told(news, {"accepted"}) = {} => Told(rest, {"accepted"}) = {}
    BY <2>3
  <2>5. \A i, j \in Told(rest, {"accepted"}) : i = j
    <3> SUFFICES ASSUME NEW i \in Told(rest, {"accepted"}), NEW j \in Told(rest, {"accepted"})
                 PROVE  i = j
      OBVIOUS
    <3>1. i + 1 = j + 1
      BY <1>10, <2>3 DEF SubmissionFits
    <3> QED BY <2>3, <3>1
  <2>6. \A i \in Told(rest, {"accepted"}) :
          rest[i].id = h.delivery /\ Holds(h, h.delivery, rest[i].texts)
    BY <1>10, <2>3 DEF SubmissionFits
  <2>7. \A i \in Prompts(h) :
          /\ h.inbox[i].id = h.delivery /\ Holds(h, h.delivery, h.inbox[i].texts)
          /\ \A j \in Prompts(h) : i = j
          /\ Told(rest, {"accepted"}) = {}
    BY <1>10, <2>4 DEF SubmissionFits
  <2>8. h.delivery # 0 => /\ \E j \in DOMAIN h.queue : h.queue[j].id = h.delivery
                          /\ Prompts(h) # {} \/ Told(rest, {"accepted", "closed"}) # {}
    BY <1>10, <2>2 DEF SubmissionFits
  <2> QED BY <2>5, <2>6, <2>7, <2>8 DEF SubmissionFits
<1>13. \A what : Head(news).is \notin what /\ Told(news, what) # {} => Told(rest, what) # {}
  BY <1>6
<1>14. \A what : Follows(news, 1, what) => Told(rest, what) # {}
  <2> SUFFICES ASSUME NEW what, Follows(news, 1, what) PROVE Told(rest, what) # {}
    OBVIOUS
  <2>1. PICK j \in Told(news, what) : 1 < j
    BY DEF Follows
  <2>2. j # 1
    BY <1>6, <2>1
  <2> QED BY <1>6, <2>2
<1>15. /\ h.turn /\ Head(news).is \notin {"completed", "closed"} =>
            a.prompts > 0 \/ Told(rest, {"completed", "closed"}) # {}
       /\ h.tasks /\ Head(news).is \notin {"tasks", "closed"} =>
            a.task \/ a.prompts > 0 \/ Told(rest, {"tasks", "closed"}) # {}
  BY <1>10, <1>13 DEF WorkFits
<1>16. Head(news).is \in {"accepted", "started"} =>
         a.prompts > 0 \/ Told(rest, {"completed", "closed"}) # {}
  BY <1>6, <1>10, <1>14 DEF WorkFits
<1>17. Head(news).is = "tasks" /\ Head(news).id > 0 =>
         a.task \/ a.prompts > 0 \/ Told(rest, {"tasks", "closed"}) # {}
  <2> SUFFICES ASSUME Head(news).is = "tasks", Head(news).id > 0
               PROVE  a.task \/ a.prompts > 0 \/ Told(rest, {"tasks", "closed"}) # {}
    OBVIOUS
  <2>1. 1 \in Told(news, {"tasks"}) /\ news[1].id > 0
    BY <1>6, <1>7
  <2> QED BY <1>10, <1>14, <2>1 DEF WorkFits
<1>18. \A i \in Told(rest, {"accepted", "started"}) :
         a.prompts > 0 \/ Follows(rest, i, {"completed", "closed"})
  <2> SUFFICES ASSUME NEW i \in Told(rest, {"accepted", "started"})
               PROVE  a.prompts > 0 \/ Follows(rest, i, {"completed", "closed"})
    OBVIOUS
  <2>1. i + 1 \in Told(news, {"accepted", "started"})
    BY <1>6
  <2>2. a.prompts > 0 \/ Follows(news, i + 1, {"completed", "closed"})
    BY <1>10, <2>1 DEF WorkFits
  <2>3. i \in DOMAIN rest
    BY DEF Told
  <2> QED BY <1>8, <2>2, <2>3
<1>19. \A i \in Told(rest, {"tasks"}) : rest[i].id > 0 =>
         a.task \/ a.prompts > 0 \/ Follows(rest, i, {"tasks", "closed"})
  <2> SUFFICES ASSUME NEW i \in Told(rest, {"tasks"}), rest[i].id > 0
               PROVE  a.task \/ a.prompts > 0 \/ Follows(rest, i, {"tasks", "closed"})
    OBVIOUS
  <2>1. i + 1 \in Told(news, {"tasks"}) /\ news[i + 1].id > 0
    BY <1>6
  <2>2. a.task \/ a.prompts > 0 \/ Follows(news, i + 1, {"tasks", "closed"})
    BY <1>10, <2>1 DEF WorkFits
  <2>3. i \in DOMAIN rest
    BY DEF Told
  <2> QED BY <1>8, <2>2, <2>3
<1> QED BY <1>1, <1>2, <1>4, <1>5, <1>7, <1>11, <1>12, <1>15, <1>16, <1>17, <1>18, <1>19
        DEF news, rest, a, evs

\* What the handlers of most events do: they change flags, as the event says.
Attends(h, n, first) ==
  /\ n.runtime = h.runtime /\ n.gen = h.gen /\ n.starts = h.starts
  /\ n.delivery = h.delivery /\ n.inbox = h.inbox /\ n.queue = h.queue /\ n.next = h.next
  /\ first.is \notin {"accepted", "closed"}
  /\ n.turn => (h.turn /\ first.is # "completed") \/ first.is = "started"
  /\ n.tasks => (h.tasks /\ first.is # "tasks") \/ (first.is = "tasks" /\ first.id > 0)

LEMMA EventFits ==
  ASSUME NEW h, NEW g0, NEW ag, NEW st, NEW cl, Fits(h, g0, events, ag, st, cl),
         EventsFit(events), Live(h), h.gen \in DOMAIN events,
         NEW n \in Hosts,
         Attends(h, n, Head(events[h.gen])), IdleFits(n),
         NEW st2, SteersFit(n, Tail(events[h.gen]), st2, cl)
  PROVE  Fits(n, g0, AfterFirst(h.gen), ag, st2, cl)
<1> DEFINE rest == Tail(events[h.gen])
           evs == AfterFirst(h.gen)
           a == AgentOf(h, g0, ag)
           first == Head(events[h.gen])
<1>0. /\ n.runtime = h.runtime /\ n.gen = h.gen /\ n.starts = h.starts
      /\ n.delivery = h.delivery /\ n.inbox = h.inbox /\ n.queue = h.queue /\ n.next = h.next
      /\ first.is \notin {"accepted", "closed"}
      /\ n.turn => (h.turn /\ first.is # "completed") \/ first.is = "started"
      /\ n.tasks => (h.tasks /\ first.is # "tasks") \/ (first.is = "tasks" /\ first.id > 0)
  BY DEF Attends
<1>1. /\ Core(h, g0, evs, ag) /\ NewsOf(h, evs) = rest
      /\ SubmissionFits(h, rest)
      /\ h.turn /\ first.is \notin {"completed", "closed"} =>
           a.prompts > 0 \/ Told(rest, {"completed", "closed"}) # {}
      /\ h.tasks /\ first.is \notin {"tasks", "closed"} =>
           a.task \/ a.prompts > 0 \/ Told(rest, {"tasks", "closed"}) # {}
      /\ first.is \in {"accepted", "started"} =>
           a.prompts > 0 \/ Told(rest, {"completed", "closed"}) # {}
      /\ first.is = "tasks" /\ first.id > 0 =>
           a.task \/ a.prompts > 0 \/ Told(rest, {"tasks", "closed"}) # {}
      /\ \A i \in Told(rest, {"accepted", "started"}) :
           a.prompts > 0 \/ Follows(rest, i, {"completed", "closed"})
      /\ \A i \in Told(rest, {"tasks"}) : rest[i].id > 0 =>
           a.task \/ a.prompts > 0 \/ Follows(rest, i, {"tasks", "closed"})
  BY <1>0, TakenFits
<1> HIDE DEF evs, rest, first
<1>2. NewsOf(n, evs) = rest /\ AgentOf(n, g0, ag) = a
  BY <1>0, <1>1 DEF NewsOf, AgentOf
<1> HIDE DEF a
<1>3. Core(n, g0, evs, ag)
  <2>1. ProcessFits(n, g0, evs)
    BY <1>0, <1>1, CoreFacts DEF ProcessFits, Live
  <2>2. QueueFits(n)
    <3>1. QueueFits(h)
      BY <1>1, CoreFacts
    <3> QED BY ZenonT(60), <1>0, <3>1 DEF QueueFits
  <2> QED BY <1>1, <2>1, <2>2 DEF Core
<1>4. SubmissionFits(n, rest)
  <2>1. Prompts(n) = Prompts(h)
    BY <1>0 DEF Prompts
  <2>2. \A id, t : Holds(n, id, t) <=> Holds(h, id, t)
    BY <1>0 DEF Holds
  <2> QED BY <1>0, <1>1, <2>1, <2>2 DEF SubmissionFits
<1>5. WorkFits(n, rest, a)
  <2>1. n.turn => a.prompts > 0 \/ Told(rest, {"completed", "closed"}) # {}
    BY <1>0, <1>1
  <2>2. n.tasks => a.task \/ a.prompts > 0 \/ Told(rest, {"tasks", "closed"}) # {}
    BY <1>0, <1>1
  <2> QED BY <1>1, <2>1, <2>2 DEF WorkFits
<1>6. SteersFit(n, rest, st2, cl)
  BY DEF rest
<1> QED BY <1>2, <1>3, <1>4, <1>5, <1>6 DEF Fits, evs

\* An event that concerns no steer.
LEMMA PlainEventFits ==
  ASSUME NEW h, NEW g0, NEW ag, NEW st, NEW cl, Fits(h, g0, events, ag, st, cl),
         EventsFit(events), Live(h), h.gen \in DOMAIN events,
         NEW n \in Hosts,
         Attends(h, n, Head(events[h.gen])), n.steers = h.steers, IdleFits(n)
  PROVE  Fits(n, g0, AfterFirst(h.gen), ag, st, cl)
<1>1. SteersFit(h, Tail(events[h.gen]), st, cl)
  BY TakenFits
<1>2. SteersFit(n, Tail(events[h.gen]), st, cl)
  BY <1>1 DEF SteersFit, InboxSteers, Steer1, Attends
<1> QED BY <1>2, EventFits

LEMMA TurnStartedFits ==
  ASSUME NEW h, NEW g0, NEW ag, NEW st, NEW cl, Fits(h, g0, events, ag, st, cl),
         EventsFit(events), Live(h), h.gen \in DOMAIN events,
         Head(events[h.gen]).is = "started"
  PROVE  /\ Fits(TurnStarted(h), g0, AfterFirst(h.gen), ag, st, cl)
         /\ Keeps(h, TurnStarted(h))
<1> DEFINE n == TurnStarted(h)
<1>1. h \in Hosts
  BY FitsFacts
<1>2. n \in Hosts
  BY <1>1 DEF TurnStarted, Hosts
<1>3. /\ n.runtime = h.runtime /\ n.gen = h.gen /\ n.starts = h.starts
      /\ n.delivery = h.delivery /\ n.inbox = h.inbox /\ n.queue = h.queue /\ n.next = h.next
      /\ n.steers = h.steers /\ n.idle = 0
      /\ n.place = h.place
      /\ n.timers = h.timers /\ n.tasks = h.tasks
      /\ n.swallowed = h.swallowed /\ n.alarm = h.alarm
  BY <1>1 DEF TurnStarted, Hosts
<1> HIDE DEF n
<1>4. IdleFits(n)
  BY <1>3, FitsFacts DEF IdleFits
<1>5. Attends(h, n, Head(events[h.gen]))
  BY <1>3 DEF Attends
<1>6. Fits(n, g0, AfterFirst(h.gen), ag, st, cl)
  BY <1>2, <1>3, <1>4, <1>5, PlainEventFits
<1>7. Keeps(h, n)
  BY <1>3, SameQueueKeeps
<1> QED BY <1>6, <1>7 DEF n

LEMMA TasksChangedFits ==
  ASSUME NEW h, NEW g0, NEW ag, NEW st, NEW cl, Fits(h, g0, events, ag, st, cl),
         EventsFit(events), Live(h), h.gen \in DOMAIN events,
         Head(events[h.gen]).is = "tasks"
  PROVE  LET n == TasksChanged(h, Head(events[h.gen]).id)
         IN Fits(n, g0, AfterFirst(h.gen), ag, st, cl) /\ Keeps(h, n)
<1> DEFINE c == Head(events[h.gen]).id
           told == [h EXCEPT !.tasks = (c > 0), !.idle = IF c > 0 THEN 0 ELSE @]
<1>1. h \in Hosts
  BY FitsFacts
<1>2. TasksChanged(h, c) = IF c = 0 THEN MarkIdle(told) ELSE told
  BY DEF TasksChanged
<1>3. told \in Hosts
  <2>1. (c > 0) \in BOOLEAN /\ (IF c > 0 THEN 0 ELSE h.idle) \in Nat
    BY <1>1 DEF Hosts
  <2> HIDE DEF c
  <2> QED BY ZenonT(60), <1>1, <2>1 DEF Hosts
<1>4. /\ told.runtime = h.runtime /\ told.gen = h.gen /\ told.starts = h.starts
      /\ told.delivery = h.delivery /\ told.inbox = h.inbox /\ told.queue = h.queue
      /\ told.next = h.next /\ told.steers = h.steers /\ told.turn = h.turn
      /\ told.tasks = (c > 0) /\ told.idle = (IF c > 0 THEN 0 ELSE h.idle)
      /\ told.place = h.place
      /\ told.timers = h.timers /\ told.swallowed = h.swallowed /\ told.alarm = h.alarm
  BY <1>1 DEF Hosts
<1> HIDE DEF told
<1>5. IdleFits(told)
  BY <1>4, FitsFacts DEF IdleFits, HasWork
<1>6. Attends(h, told, Head(events[h.gen]))
  BY <1>4 DEF Attends
<1> HIDE DEF c
<1>7. Fits(told, g0, AfterFirst(h.gen), ag, st, cl)
  BY <1>3, <1>4, <1>5, <1>6, PlainEventFits
<1>8. Keeps(h, told)
  BY <1>4, SameQueueKeeps
<1>9. Fits(MarkIdle(told), g0, AfterFirst(h.gen), ag, st, cl) /\ Keeps(told, MarkIdle(told))
  BY <1>7, MarkIdleFits
<1> QED BY <1>2, <1>7, <1>8, <1>9, KeepsThrough DEF c

LEMMA TurnCompletedFits ==
  ASSUME NEW h, NEW g0, NEW ag, NEW st, NEW cl, Fits(h, g0, events, ag, st, cl),
         EventsFit(events), Live(h), h.gen \in DOMAIN events,
         Head(events[h.gen]).is = "completed"
  PROVE  /\ Fits(Completed(h), g0, AfterFirst(h.gen), ag, st, cl)
         /\ Keeps(h, Completed(h))
<1> DEFINE n == [[h EXCEPT !.running = FALSE] EXCEPT !.turn = FALSE]
<1>1. h \in Hosts
  BY FitsFacts
<1>2. n \in Hosts
  BY <1>1 DEF Hosts
<1>3. /\ n.runtime = h.runtime /\ n.gen = h.gen /\ n.starts = h.starts
      /\ n.delivery = h.delivery /\ n.inbox = h.inbox /\ n.queue = h.queue /\ n.next = h.next
      /\ n.steers = h.steers /\ n.idle = h.idle /\ n.place = h.place /\ n.timers = h.timers
      /\ n.turn = FALSE /\ n.tasks = h.tasks
  BY <1>1 DEF Hosts
<1> HIDE DEF n
<1>4. IdleFits(n)
  BY <1>3, FitsFacts DEF IdleFits, HasWork
<1>5. Attends(h, n, Head(events[h.gen]))
  BY <1>3 DEF Attends
<1>6. Fits(n, g0, AfterFirst(h.gen), ag, st, cl)
  BY <1>2, <1>3, <1>4, <1>5, PlainEventFits
<1> QED BY <1>1, <1>6, CompletedFits DEF n

Without(st, texts) == st \ ToSet(texts)

\* An event about a steer: the others are about other texts.
LEMMA SettledFits ==
  ASSUME NEW h, NEW g0, NEW ag, NEW st, NEW cl, Fits(h, g0, events, ag, st, cl),
         EventsFit(events), Live(h), h.gen \in DOMAIN events,
         NEW first, first = Head(events[h.gen]),
         first.is \in {"steerAccepted", "steerRejected"},
         NEW s, s = h.steers \/ s = h.steers \ {first.texts}
  PROVE  LET n == [h EXCEPT !.steers = s]
         IN /\ Fits(n, g0, AfterFirst(h.gen), ag, st, cl) /\ Keeps(h, n)
            /\ Fits(n, g0, AfterFirst(h.gen), ag, Without(st, first.texts), cl)
            /\ first.texts \in Seq(Texts) /\ IsInjective(first.texts)
            /\ ToSet(first.texts) \subseteq st
            /\ first.texts \in h.steers \/ ToSet(first.texts) \subseteq cl
<1> DEFINE n == [h EXCEPT !.steers = s]
           news == events[h.gen]
           rest == Tail(news)
           t == first.texts
<1>1. /\ h \in Hosts /\ news \in Seq(Events) /\ news # <<>> /\ first \in Events
      /\ NewsOf(h, events) = news
  BY FitsFacts, TakenFits
<1>2. s \in SUBSET Seq(Texts) /\ t \in Seq(Texts)
  BY <1>1 DEF Hosts, Events
<1>3. n \in Hosts
  BY <1>1, <1>2 DEF Hosts
<1>4. /\ n.runtime = h.runtime /\ n.gen = h.gen /\ n.starts = h.starts
      /\ n.delivery = h.delivery /\ n.inbox = h.inbox /\ n.queue = h.queue /\ n.next = h.next
      /\ n.steers = s /\ n.idle = h.idle /\ n.place = h.place /\ n.timers = h.timers
      /\ n.turn = h.turn /\ n.tasks = h.tasks /\ n.swallowed = h.swallowed
      /\ n.alarm = h.alarm
  BY <1>1 DEF Hosts
<1> HIDE DEF n
<1>5. IdleFits(n)
  BY <1>4, FitsFacts DEF IdleFits, HasWork
<1>6. SteersFit(h, news, st, cl)
  BY <1>1 DEF Fits
<1>7. 1 \in Settling(news) /\ news[1] = first
  BY <1>1, TailTold, TailElements DEF Settling
<1>8. Steer1(h, t, st, cl)
  BY <1>6, <1>7 DEF SteersFit
<1>9. \A u : Disjoint(u, t) /\ Steer1(h, u, st, cl) =>
              Steer1(n, u, st, cl) /\ Steer1(n, u, Without(st, t), cl)
  BY <1>4 DEF Steer1, Disjoint, Without
<1>10. \A i \in Settling(rest) : /\ i + 1 \in Settling(news) /\ rest[i] = news[i + 1]
                                 /\ i + 1 # 1
  <2> DEFINE what == {"steerAccepted", "steerRejected"}
  <2>1. \A i \in Told(rest, what) : i + 1 \in Told(news, what) /\ rest[i] = news[i + 1]
    <3>1. news \in Seq(Events) /\ news # <<>>
      BY <1>1
    <3> HIDE DEF what, news
    <3> QED BY ZenonT(60), <3>1, TailTold DEF rest
  <2>2. \A i \in DOMAIN rest : i + 1 # 1
    <3>1. DOMAIN rest = 1..(Len(news) - 1) /\ Len(news) \in Nat
      BY <1>1, TailElements
    <3> QED BY <3>1
  <2>3. Told(rest, what) \subseteq DOMAIN rest
    BY DEF Told
  <2> HIDE DEF rest, news
  <2> QED BY <2>1, <2>2, <2>3 DEF Settling
<1> HIDE DEF news, rest, t
<1>11. SteersFit(n, rest, st, cl) /\ SteersFit(n, rest, Without(st, t), cl)
  <2>1. \A i \in InboxSteers(h) : Disjoint(h.inbox[i].texts, t)
    BY <1>6, <1>7 DEF SteersFit, t
  <2>2. \A i \in Settling(rest) : Disjoint(rest[i].texts, t)
    BY <1>6, <1>7, <1>10 DEF SteersFit, t
  <2>3. SteersFit(h, rest, st, cl)
    BY TakenFits DEF rest, news
  <2>4. InboxSteers(n) = InboxSteers(h)
    BY <1>4 DEF InboxSteers
  <2>5. \A i \in InboxSteers(n) : /\ Steer1(n, n.inbox[i].texts, st, cl)
                                  /\ Steer1(n, n.inbox[i].texts, Without(st, t), cl)
                                  /\ n.inbox[i] = h.inbox[i]
    BY <1>4, <1>9, <2>1, <2>3, <2>4 DEF SteersFit
  <2>6. \A i \in Settling(rest) : /\ Steer1(n, rest[i].texts, st, cl)
                                  /\ Steer1(n, rest[i].texts, Without(st, t), cl)
    BY <1>9, <2>2, <2>3 DEF SteersFit
  <2> QED BY <2>3, <2>4, <2>5, <2>6 DEF SteersFit
<1>14. Attends(h, n, Head(events[h.gen]))
  BY <1>4 DEF Attends
<1>12. /\ Fits(n, g0, AfterFirst(h.gen), ag, st, cl)
       /\ Fits(n, g0, AfterFirst(h.gen), ag, Without(st, t), cl)
  BY <1>3, <1>5, <1>11, <1>14, EventFits DEF rest, news
<1>13. Keeps(h, n)
  <2>1. n.queue = h.queue /\ n.swallowed = h.swallowed /\ n.alarm = h.alarm
    BY SMTT(60), <1>4
  <2> HIDE DEF n, t, news, rest
  <2> QED BY <2>1, SameQueueKeeps, Zenon
<1> QED BY <1>2, <1>8, <1>12, <1>13 DEF n, t, Steer1

LEMMA AcceptedFits ==
  ASSUME NEW h, NEW g0, NEW ag, NEW st, NEW cl, Fits(h, g0, events, ag, st, cl),
         EventsFit(events), Live(h), h.gen \in DOMAIN events,
         Head(events[h.gen]).is = "accepted"
  PROVE  LET at == Accepted(h, Head(events[h.gen]).id)
             k == First(at)
             texts == h.queue[k].texts
             n == [Take(h, k) EXCEPT !.delivery = 0, !.turn = TRUE, !.idle = 0]
         IN /\ at # {} /\ Fits(n, g0, AfterFirst(h.gen), ag, st, cl)
            /\ QueuedTexts(n) = QueuedTexts(h) \ ToSet(texts)
            /\ ToSet(texts) \subseteq QueuedTexts(h)
            /\ texts \in Seq(Texts) /\ IsInjective(texts)
            /\ n.swallowed = h.swallowed /\ (Calm(h) => Calm(n))
<1> DEFINE news == events[h.gen]
           rest == Tail(news)
           evs == AfterFirst(h.gen)
           id == Head(news).id
           a == AgentOf(h, g0, ag)
           at == Accepted(h, id)
           k == First(at)
           n == [Take(h, k) EXCEPT !.delivery = 0, !.turn = TRUE, !.idle = 0]
<1>1. /\ news \in Seq(Events) /\ news # <<>> /\ NewsOf(h, events) = news
      /\ Core(h, g0, evs, ag) /\ NewsOf(h, evs) = rest /\ SteersFit(h, rest, st, cl)
      /\ a.prompts > 0 \/ Told(rest, {"completed", "closed"}) # {}
      /\ h.tasks => a.task \/ a.prompts > 0 \/ Told(rest, {"tasks", "closed"}) # {}
      /\ \A i \in Told(rest, {"accepted", "started"}) :
           a.prompts > 0 \/ Follows(rest, i, {"completed", "closed"})
      /\ \A i \in Told(rest, {"tasks"}) : rest[i].id > 0 =>
           a.task \/ a.prompts > 0 \/ Follows(rest, i, {"tasks", "closed"})
  BY TakenFits
<1>2. h \in Hosts /\ QueueFits(h) /\ SubmissionFits(h, news)
  BY <1>1, FitsFacts DEF Fits
<1>3. 1 \in Told(news, {"accepted"}) /\ news[1] = Head(news)
  BY <1>1, TailTold, TailElements
<1>4. id = h.delivery /\ Holds(h, id, Head(news).texts)
  BY <1>2, <1>3 DEF SubmissionFits
<1>5. at # {} /\ at \in SUBSET Nat /\ at \subseteq DOMAIN h.queue
  <2>1. DOMAIN h.queue \subseteq Nat
    BY <1>2, QueueElements
  <2> QED BY <1>4, <2>1 DEF Accepted, Holds
<1>6. k \in DOMAIN h.queue /\ h.queue[k].id = h.delivery
  <2> HIDE DEF at
  <2>1. k \in at
    BY <1>5, LeastNatural
  <2> HIDE DEF k
  <2> QED BY <1>4, <1>5, <2>1 DEF Accepted, at
<1>7. Prompts(h) = {} /\ Told(rest, {"accepted"}) = {}
  <2>1. \A i \in Told(rest, {"accepted"}) :
          i + 1 \in Told(news, {"accepted"}) /\ i \in DOMAIN rest
    BY <1>1, TailTold DEF Told
  <2>2. DOMAIN rest = 1..(Len(news) - 1) /\ Len(news) \in Nat
    BY <1>1, TailElements
  <2>3. \A i \in Told(rest, {"accepted"}) : i + 1 # 1
    BY <2>1, <2>2
  <2> HIDE DEF rest
  <2> QED BY <1>2, <1>3, <2>1, <2>3 DEF SubmissionFits
<1> HIDE DEF k, at, id, rest, evs, a
<1>8. /\ n.runtime = h.runtime /\ n.gen = h.gen /\ n.starts = h.starts
      /\ n.delivery = 0 /\ n.inbox = h.inbox /\ n.steers = h.steers
      /\ n.turn = TRUE /\ n.tasks = h.tasks /\ n.queue = RemoveAt(h.queue, k)
      /\ n.next = h.next /\ n.place = h.place /\ n.timers = h.timers /\ n.idle = 0
      /\ n.swallowed = h.swallowed /\ n.alarm = h.alarm
  BY <1>2 DEF Take, Hosts
<1>9. /\ RemoveAt(h.queue, k) \in Seq(Entries)
      /\ QueueFits(n)
      /\ QueuedTexts(n) = QueuedTexts(h) \ ToSet(h.queue[k].texts)
      /\ ToSet(h.queue[k].texts) \subseteq QueuedTexts(h)
      /\ Timed(h) = {} => Timed(n) = {}
  <2> HIDE DEF n
  <2> QED BY <1>2, <1>6, <1>8, RemovedEntry
<1>10. n \in Hosts
  BY <1>2, <1>9 DEF Take, Hosts
<1> HIDE DEF n
<1>11. Core(n, g0, evs, ag)
  <2>1. ProcessFits(n, g0, evs)
    BY <1>1, <1>8, CoreFacts DEF ProcessFits, Live
  <2>2. IdleFits(n)
    BY <1>1, <1>8, CoreFacts DEF IdleFits
  <2> QED BY <1>1, <1>9, <1>10, <2>1, <2>2 DEF Core
<1>12. NewsOf(n, evs) = rest /\ AgentOf(n, g0, ag) = a
  BY <1>1, <1>8 DEF NewsOf, AgentOf, a
<1>13. SubmissionFits(n, rest)
  <2>1. Prompts(n) = {}
    BY <1>7, <1>8 DEF Prompts
  <2> QED BY <1>7, <1>8, <2>1 DEF SubmissionFits
<1>14. WorkFits(n, rest, a)
  BY <1>1, <1>8 DEF WorkFits
<1>15. SteersFit(n, rest, st, cl)
  BY <1>1, <1>8 DEF SteersFit, InboxSteers, Steer1
<1>16. Fits(n, g0, evs, ag, st, cl)
  BY <1>11, <1>12, <1>13, <1>14, <1>15 DEF Fits
<1>17. h.queue[k].texts \in Seq(Texts) /\ IsInjective(h.queue[k].texts)
  BY <1>2, <1>6, QueueElements DEF QueueFits
<1>18. Calm(h) => Calm(n)
  BY <1>8, <1>9 DEF Calm
<1> QED BY ZenonT(60), <1>5, <1>8, <1>9, <1>16, <1>17, <1>18 DEF n, k, at, id, evs

-------------------------------------------------------------------------------
(* What the provider process does *)

LEMMA TellsFacts ==
  ASSUME EventsFit(events), NEW new \in Seq(Events), new # <<>>, Tells(new)
  PROVE  /\ DOMAIN events' = DOMAIN events \union {host.gen} /\ EventsFit(events')
         /\ Untaken(events, host.gen) \in Seq(Events)
         /\ Untaken(events', host.gen) = Untaken(events, host.gen) \o new
<1> DEFINE old == Untaken(events, host.gen)
<1>1. old \in Seq(Events)
  BY EmptySeq DEF Untaken, EventsFit
<1>2. old \o new \in Seq(Events) /\ old \o new # <<>>
  <2>1. /\ old \o new \in Seq(Events) /\ Len(old \o new) = Len(old) + Len(new)
        /\ Len(old) \in Nat /\ Len(new) \in Nat
    BY <1>1, ConcatProperties, LenProperties
  <2>2. Len(new) # 0
    BY EmptySeq
  <2>3. Len(old \o new) # 0
    BY <2>1, <2>2
  <2> QED BY <2>1, <2>3, EmptySeq
<1>3. /\ DOMAIN events' = DOMAIN events \union {host.gen}
      /\ \A g \in DOMAIN events' : events'[g] = IF g = host.gen THEN old \o new ELSE events[g]
  BY DEF Tells
<1> HIDE DEF old
<1>4. EventsFit(events')
  BY <1>2, <1>3 DEF EventsFit
<1>5. Untaken(events', host.gen) = old \o new
  BY <1>3 DEF Untaken
<1> QED BY <1>1, <1>3, <1>4, <1>5 DEF old

\* What was told is still told, at its place, and the new comes after it.
Adds(all, old, new, what) ==
  \A i \in Told(all, what) :
    \/ i \in Told(old, what) /\ all[i] = old[i]
    \/ \E j \in Told(new, what) : i = Len(old) + j /\ all[i] = new[j]

LEMMA MoreTold ==
  ASSUME NEW old \in Seq(Events), NEW new \in Seq(Events), NEW all, all = old \o new, NEW what
  PROVE  /\ Told(old, what) \subseteq Told(all, what)
         /\ \A i \in Told(old, what) : all[i] = old[i] /\ i <= Len(old) /\ i \in Nat
         /\ \A i \in Told(new, what) : /\ Len(old) + i \in Told(all, what)
                                       /\ all[Len(old) + i] = new[i]
         /\ Adds(all, old, new, what)
         /\ \A i : Follows(old, i, what) => Follows(all, i, what)
         /\ Len(old) \in Nat /\ Told(all, what) \subseteq Nat
<1>1. /\ all \in Seq(Events) /\ DOMAIN all = 1..(Len(old) + Len(new))
      /\ \A i \in DOMAIN old : all[i] = old[i]
      /\ \A i \in DOMAIN new : Len(old) + i \in DOMAIN all /\ all[Len(old) + i] = new[i]
      /\ \A i \in DOMAIN all :
           \/ i \in DOMAIN old /\ all[i] = old[i]
           \/ \E j \in DOMAIN new : i = Len(old) + j /\ all[i] = new[j]
  <2>1. /\ all \in Seq(Events) /\ DOMAIN all = 1..(Len(old) + Len(new))
        /\ \A i \in DOMAIN old : all[i] = old[i]
        /\ \A i \in DOMAIN new : Len(old) + i \in DOMAIN all /\ all[Len(old) + i] = new[i]
        /\ \A i \in DOMAIN all :
             \/ i \in DOMAIN old /\ all[i] = old[i]
             \/ i - Len(old) \in DOMAIN new /\ all[i] = new[i - Len(old)]
    BY ConcatElements
  <2>2. Len(old) \in Nat /\ Len(new) \in Nat
    BY LenProperties
  <2>3. \A i \in DOMAIN all : Len(old) + (i - Len(old)) = i
    BY <2>1, <2>2
  <2> QED BY <2>1, <2>3
<1>2. /\ DOMAIN old = 1..Len(old) /\ Len(old) \in Nat
      /\ DOMAIN new = 1..Len(new) /\ Len(new) \in Nat
  BY LenProperties
<1>3. DOMAIN old \subseteq DOMAIN all /\ DOMAIN all \subseteq Nat
      /\ \A i \in DOMAIN old : i <= Len(old) /\ i \in Nat
  BY <1>1, <1>2
<1>4. Told(old, what) \subseteq Told(all, what)
  BY <1>1, <1>3 DEF Told
<1>5. \A i \in Told(new, what) : Len(old) + i \in Told(all, what) /\ all[Len(old) + i] = new[i]
  BY <1>1 DEF Told
<1>6. Adds(all, old, new, what)
  BY <1>1 DEF Told, Adds
<1>7. \A i : Follows(old, i, what) => Follows(all, i, what)
  BY <1>4 DEF Follows
<1>8. /\ \A i \in Told(old, what) : all[i] = old[i] /\ i <= Len(old) /\ i \in Nat
      /\ Told(all, what) \subseteq Nat
  BY <1>1, <1>3 DEF Told
<1> QED BY <1>2, <1>4, <1>5, <1>6, <1>7, <1>8

\* News of another kind disturbs neither the submission nor the steers.
LEMMA OtherNews ==
  ASSUME NEW h, NEW old \in Seq(Events), NEW new \in Seq(Events), NEW st, NEW cl
  PROVE  /\ SubmissionFits(h, old) /\ Told(new, {"accepted"}) = {}
              => SubmissionFits(h, old \o new)
         /\ SteersFit(h, old, st, cl) /\ Settling(new) = {} => SteersFit(h, old \o new, st, cl)
<1> DEFINE all == old \o new
<1>0. ASSUME NEW what, Told(new, what) = {}
      PROVE  /\ Told(old, what) \subseteq Told(all, what)
             /\ \A i \in Told(all, what) : i \in Told(old, what) /\ all[i] = old[i]
  <2>1. all = old \o new
    OBVIOUS
  <2> HIDE DEF all
  <2>2. Told(old, what) \subseteq Told(all, what) /\ Adds(all, old, new, what)
    BY <2>1, MoreTold
  <2> QED BY <1>0, <2>2 DEF Adds
<1> HIDE DEF all
<1>1. Told(old, {"accepted", "closed"}) \subseteq Told(all, {"accepted", "closed"})
  <2>1. all \in Seq(Events) /\ all = old \o new
    BY ConcatProperties DEF all
  <2> QED BY <2>1, MoreTold
<1>3. ASSUME SubmissionFits(h, old), Told(new, {"accepted"}) = {} PROVE SubmissionFits(h, all)
  <2>1. \A i \in Told(all, {"accepted"}) : i \in Told(old, {"accepted"}) /\ all[i] = old[i]
    BY <1>0, <1>3
  <2>2. Told(old, {"accepted"}) = {} => Told(all, {"accepted"}) = {}
    BY <2>1
  <2> QED BY <1>1, <1>3, <2>1, <2>2 DEF SubmissionFits
<1>4. ASSUME SteersFit(h, old, st, cl), Settling(new) = {} PROVE SteersFit(h, all, st, cl)
  <2>1. \A i \in Settling(all) : i \in Settling(old) /\ all[i] = old[i]
    BY <1>0, <1>4 DEF Settling
  <2> QED BY <1>4, <2>1 DEF SteersFit
<1> QED BY <1>3, <1>4 DEF all

\* A provider with a prompt to work on will say the end of whatever is believed of it.
LEMMA Busy ==
  ASSUME NEW h, NEW news, NEW a, a.prompts > 0
  PROVE  WorkFits(h, news, a)
BY DEF WorkFits

\* The process reads a command.
LEMMA ReadFits ==
  ASSUME NEW h, NEW g0, NEW evs, NEW ag, NEW st, NEW cl, Fits(h, g0, evs, ag, st, cl),
         Live(h), h.inbox # <<>>
  PROVE  LET n == [h EXCEPT !.inbox = Tail(@)]
             c == Head(h.inbox)
             news == NewsOf(h, evs)
         IN /\ Core(n, g0, evs, ag) /\ NewsOf(n, evs) = news /\ n.gen = h.gen /\ Live(n)
            /\ c.texts \in Seq(Texts) /\ c.id \in Nat
            /\ Keeps(h, n) /\ n.starts = h.starts /\ n.delivery = h.delivery
            /\ c.do # "turn" => SubmissionFits(n, news)
            /\ c.do = "turn" => /\ Prompts(n) = {} /\ Told(news, {"accepted"}) = {}
                                /\ c.id = h.delivery /\ Holds(n, h.delivery, c.texts)
                                /\ h.delivery # 0 =>
                                     \E j \in DOMAIN n.queue : n.queue[j].id = h.delivery
            /\ WorkFits(n, news, AgentOf(h, g0, ag))
            /\ SteersFit(n, news, st, cl)
            /\ c.do = "steer" =>
                 /\ Steer1(n, c.texts, st, cl)
                 /\ \A i \in InboxSteers(n) : Disjoint(n.inbox[i].texts, c.texts)
                 /\ \A j \in Settling(news) : Disjoint(c.texts, news[j].texts)
<1> DEFINE n == [h EXCEPT !.inbox = Tail(@)]
           c == Head(h.inbox)
           news == NewsOf(h, evs)
           box == Tail(h.inbox)
<1>1. h \in Hosts /\ h.inbox \in Seq(InboxCommands)
  BY FitsFacts DEF Hosts
<1>2. /\ box \in Seq(InboxCommands) /\ c \in InboxCommands /\ c = h.inbox[1]
      /\ DOMAIN h.inbox = 1..Len(h.inbox) /\ Len(h.inbox) \in Nat \ {0}
      /\ DOMAIN box = 1..(Len(h.inbox) - 1)
      /\ \A i \in 1..(Len(h.inbox) - 1) : box[i] = h.inbox[i + 1]
  BY <1>1, TailElements
<1>3. n \in Hosts
  BY <1>1, <1>2 DEF Hosts
<1>4. /\ n.runtime = h.runtime /\ n.gen = h.gen /\ n.starts = h.starts
      /\ n.delivery = h.delivery /\ n.inbox = box /\ n.steers = h.steers
      /\ n.turn = h.turn /\ n.tasks = h.tasks /\ n.queue = h.queue /\ n.next = h.next
      /\ n.place = h.place /\ n.timers = h.timers /\ n.idle = h.idle /\ n.swallowed = h.swallowed
      /\ n.alarm = h.alarm
  BY <1>1 DEF Hosts
<1> HIDE DEF n, box
<1>5. \A i \in DOMAIN n.inbox : /\ i + 1 \in DOMAIN h.inbox /\ n.inbox[i] = h.inbox[i + 1]
                                /\ i + 1 # 1 /\ i \in Nat
  BY <1>2, <1>4
<1>6. \A i \in DOMAIN h.inbox : i # 1 => \E j \in DOMAIN n.inbox : n.inbox[j] = h.inbox[i]
  <2> SUFFICES ASSUME NEW i \in DOMAIN h.inbox, i # 1
               PROVE  \E j \in DOMAIN n.inbox : n.inbox[j] = h.inbox[i]
    OBVIOUS
  <2>1. i - 1 \in DOMAIN n.inbox /\ (i - 1) + 1 = i
    BY <1>2, <1>4
  <2>2. n.inbox[i - 1] = h.inbox[i]
    BY <1>5, <2>1
  <2> QED BY <2>1, <2>2
<1>7. 1 \in DOMAIN h.inbox
  BY <1>2
<1>8. NewsOf(n, evs) = news /\ AgentOf(n, g0, ag) = AgentOf(h, g0, ag) /\ Live(n)
  BY <1>4 DEF NewsOf, AgentOf, Live
<1>9. Core(n, g0, evs, ag)
  <2>1. ProcessFits(n, g0, evs)
    BY <1>4, FitsFacts DEF ProcessFits, Live
  <2>2. QueueFits(n)
    <3>1. QueueFits(h)
      BY FitsFacts
    <3> QED BY <1>4, <3>1, SameEntriesFit
  <2>3. IdleFits(n)
    BY <1>4, FitsFacts DEF IdleFits, HasWork
  <2> QED BY <1>3, <2>1, <2>2, <2>3, FitsFacts DEF Core
<1> HIDE DEF news, c
<1>10. /\ SubmissionFits(h, news) /\ WorkFits(h, news, AgentOf(h, g0, ag))
       /\ SteersFit(h, news, st, cl)
  BY DEF Fits, news
<1>11. \A id, t : Holds(n, id, t) <=> Holds(h, id, t)
  BY <1>4 DEF Holds
<1>12. \A i \in Prompts(n) : i + 1 \in Prompts(h) /\ n.inbox[i] = h.inbox[i + 1] /\ i + 1 # 1
                             /\ i \in Nat
  BY <1>5 DEF Prompts
<1>13. \A i \in InboxSteers(n) :
         i + 1 \in InboxSteers(h) /\ n.inbox[i] = h.inbox[i + 1] /\ i + 1 # 1 /\ i \in Nat
  BY <1>5 DEF InboxSteers
<1>14. c.texts \in Seq(Texts) /\ c.id \in Nat
  BY <1>2 DEF InboxCommands
<1>15. Keeps(h, n)
  BY <1>4, SameQueueKeeps
<1>16. ASSUME c.do # "turn" PROVE SubmissionFits(n, news)
  <2>1. Prompts(h) # {} => Prompts(n) # {}
    <3>1. \A i \in Prompts(h) : i # 1
      BY <1>2, <1>16 DEF Prompts
    <3> QED BY <1>6, <3>1 DEF Prompts
  <2>2. \A i, j \in Prompts(n) : i = j
    <3> SUFFICES ASSUME NEW i \in Prompts(n), NEW j \in Prompts(n) PROVE i = j
      OBVIOUS
    <3>1. i + 1 = j + 1 /\ i \in Nat /\ j \in Nat
      BY <1>10, <1>12 DEF SubmissionFits
    <3> QED BY <3>1
  <2>3. \A i \in Prompts(n) : /\ n.inbox[i].id = h.delivery
                              /\ Holds(h, h.delivery, n.inbox[i].texts)
                              /\ Told(news, {"accepted"}) = {}
    BY <1>10, <1>12 DEF SubmissionFits
  <2> QED BY <1>4, <1>10, <1>11, <2>1, <2>2, <2>3 DEF SubmissionFits
<1>17. ASSUME c.do = "turn"
       PROVE  /\ Prompts(n) = {} /\ Told(news, {"accepted"}) = {}
              /\ c.id = h.delivery /\ Holds(n, h.delivery, c.texts)
              /\ h.delivery # 0 => \E j \in DOMAIN n.queue : n.queue[j].id = h.delivery
  <2>1. 1 \in Prompts(h)
    BY <1>2, <1>7, <1>17 DEF Prompts
  <2>2. \A i \in Prompts(n) : FALSE
    BY <1>10, <1>12, <2>1 DEF SubmissionFits
  <2> QED BY <1>2, <1>4, <1>10, <1>11, <2>1, <2>2 DEF SubmissionFits
<1>18. WorkFits(n, news, AgentOf(h, g0, ag))
  BY <1>4, <1>10 DEF WorkFits
<1>19. \A t : Steer1(n, t, st, cl) <=> Steer1(h, t, st, cl)
  BY <1>4 DEF Steer1
<1>20. SteersFit(n, news, st, cl)
  <2>1. \A i \in InboxSteers(n) : Steer1(n, n.inbox[i].texts, st, cl)
    BY <1>10, <1>13, <1>19 DEF SteersFit
  <2>2. \A i, j \in InboxSteers(n) : i # j => Disjoint(n.inbox[i].texts, n.inbox[j].texts)
    <3> SUFFICES ASSUME NEW i \in InboxSteers(n), NEW j \in InboxSteers(n), i # j
                 PROVE  Disjoint(n.inbox[i].texts, n.inbox[j].texts)
      OBVIOUS
    <3>1. i + 1 # j + 1
      BY <1>13
    <3> QED BY <1>10, <1>13, <3>1 DEF SteersFit
  <2>3. \A i \in InboxSteers(n) : \A j \in Settling(news) :
          Disjoint(n.inbox[i].texts, news[j].texts)
    BY <1>10, <1>13 DEF SteersFit
  <2>4. \A i \in Settling(news) : Steer1(n, news[i].texts, st, cl)
    BY <1>10, <1>19 DEF SteersFit
  <2>5. \A i, j \in Settling(news) : i # j => Disjoint(news[i].texts, news[j].texts)
    BY <1>10 DEF SteersFit
  <2> QED BY <2>1, <2>2, <2>3, <2>4, <2>5 DEF SteersFit
<1>21. ASSUME c.do = "steer"
       PROVE  /\ Steer1(n, c.texts, st, cl)
              /\ \A i \in InboxSteers(n) : Disjoint(n.inbox[i].texts, c.texts)
              /\ \A j \in Settling(news) : Disjoint(c.texts, news[j].texts)
  <2>1. 1 \in InboxSteers(h)
    BY <1>2, <1>7, <1>21 DEF InboxSteers
  <2> QED BY <1>2, <1>10, <1>13, <1>19, <2>1 DEF SteersFit
<1> QED BY <1>4, <1>8, <1>9, <1>14, <1>15, <1>16, <1>17, <1>18, <1>20, <1>21 DEF n, c, news

\* Whatever the process does, the loop's own part of the invariant is as it was.
LEMMA WithNews ==
  ASSUME NEW n, NEW g0, NEW evs, NEW ag, NEW evs2, NEW ag2, NEW st, NEW cl,
         Core(n, g0, evs, ag), Live(n), n.gen = g0, ag2 \in Agents, EventsFit(evs2),
         DOMAIN evs2 \subseteq DOMAIN evs \union {g0},
         SubmissionFits(n, Untaken(evs2, g0)), WorkFits(n, Untaken(evs2, g0), ag2),
         SteersFit(n, Untaken(evs2, g0), st, cl)
  PROVE  Fits(n, g0, evs2, ag2, st, cl)
<1>1. NewsOf(n, evs2) = Untaken(evs2, g0) /\ AgentOf(n, g0, ag2) = ag2
  BY DEF NewsOf, AgentOf
<1>2. n \in Hosts /\ GivenFit(g0, evs, ag) /\ ProcessFits(n, g0, evs) /\ QueueFits(n)
      /\ IdleFits(n)
  BY DEF Core
<1>3. n.gen \in Nat /\ n.starts \in Nat
  BY <1>2 DEF Hosts
<1>4. g0 \in 1..n.starts
  BY <1>2, <1>3 DEF ProcessFits, Live
<1>5. ProcessFits(n, g0, evs2)
  BY <1>2, <1>4 DEF ProcessFits
<1>6. GivenFit(g0, evs2, ag2)
  BY <1>2 DEF GivenFit, EventsFit
<1> QED BY <1>1, <1>2, <1>5, <1>6 DEF Fits, Core

\* What is told in one event.
LEMMA OneEvent ==
  ASSUME NEW e \in Events
  PROVE  /\ <<e>> \in Seq(Events) /\ <<e>> # <<>> /\ <<e>>[1] = e
         /\ \A what : Told(<<e>>, what) = IF e.is \in what THEN {1} ELSE {}
<1>1. <<e>> \in Seq(Events) /\ <<e>> # <<>> /\ <<e>>[1] = e /\ DOMAIN <<e>> = {1}
  OBVIOUS
<1> QED BY <1>1 DEF Told

\* An end told now comes after all that was told.
LEMMA EndFollows ==
  ASSUME NEW old \in Seq(Events), NEW new \in Seq(Events), NEW all, all = old \o new,
         NEW what, NEW m \in Told(new, what)
  PROVE  /\ Len(old) + m \in Told(all, what)
         /\ \A i \in 1..Len(old) : Follows(all, i, what)
<1>1. Len(old) + m \in Told(all, what) /\ Len(old) \in Nat
  BY MoreTold
<1>2. m \in Nat \ {0}
  BY LenProperties DEF Told
<1>3. \A i \in 1..Len(old) : i < Len(old) + m
  BY <1>1, <1>2
<1> QED BY <1>1, <1>3 DEF Follows

\* News that says nothing of the provider's work leaves what is believed of it.
LEMMA OtherWork ==
  ASSUME NEW h, NEW old \in Seq(Events), NEW new \in Seq(Events), NEW all, all = old \o new,
         NEW a, WorkFits(h, old, a),
         Told(new, {"accepted", "started"}) = {}, Told(new, {"tasks"}) = {}
  PROVE  WorkFits(h, all, a)
<1>1. /\ Told(old, {"completed", "closed"}) \subseteq Told(all, {"completed", "closed"})
      /\ Told(old, {"tasks", "closed"}) \subseteq Told(all, {"tasks", "closed"})
      /\ \A i : Follows(old, i, {"completed", "closed"}) => Follows(all, i, {"completed", "closed"})
      /\ \A i : Follows(old, i, {"tasks", "closed"}) => Follows(all, i, {"tasks", "closed"})
      /\ Adds(all, old, new, {"accepted", "started"}) /\ Adds(all, old, new, {"tasks"})
  BY ZenonT(60), MoreTold
<1>2. \A i \in Told(all, {"accepted", "started"}) : i \in Told(old, {"accepted", "started"})
  BY <1>1 DEF Adds
<1>3. \A i \in Told(all, {"tasks"}) : i \in Told(old, {"tasks"}) /\ all[i] = old[i]
  BY <1>1 DEF Adds
<1> QED BY <1>1, <1>2, <1>3 DEF WorkFits

\* The process says that it ended.
LEMMA ClosedWork ==
  ASSUME NEW h, NEW old \in Seq(Events), NEW new \in Seq(Events), NEW all, all = old \o new,
         NEW e \in Events, new = <<e>>, e.is = "closed", NEW a
  PROVE  WorkFits(h, all, a)
<1>1. /\ 1 \in Told(new, {"completed", "closed"}) /\ 1 \in Told(new, {"tasks", "closed"})
      /\ Told(new, {"accepted", "started"}) = {} /\ Told(new, {"tasks"}) = {}
  BY SMTT(60), OneEvent
<1>2. /\ Len(old) + 1 \in Told(all, {"completed", "closed"})
      /\ Len(old) + 1 \in Told(all, {"tasks", "closed"})
      /\ \A i \in 1..Len(old) : Follows(all, i, {"completed", "closed"})
      /\ \A i \in 1..Len(old) : Follows(all, i, {"tasks", "closed"})
  BY ZenonT(60), <1>1, EndFollows
<1>3. Adds(all, old, new, {"accepted", "started"}) /\ Adds(all, old, new, {"tasks"})
  BY MoreTold
<1>4. \A i \in Told(all, {"accepted", "started"}) : i \in 1..Len(old)
  <2>1. \A i \in Told(all, {"accepted", "started"}) : i \in Told(old, {"accepted", "started"})
    BY <1>1, <1>3 DEF Adds
  <2> QED BY <2>1, LenProperties DEF Told
<1>5. \A i \in Told(all, {"tasks"}) : i \in 1..Len(old)
  <2>1. \A i \in Told(all, {"tasks"}) : i \in Told(old, {"tasks"})
    BY <1>1, <1>3 DEF Adds
  <2> QED BY <2>1, LenProperties DEF Told
<1> QED BY <1>2, <1>4, <1>5 DEF WorkFits

\* What holds of the loop, the process and what it told, between any two steps.
Held ==
  /\ Fits(host, host.gen, events, agent, steered, calls)
  /\ EventsFit(events)
  /\ agent.open => agent.prompts > 0

\* What the process tells, it tells after all it told before.
LEMMA TellFits ==
  ASSUME Held, Live(host), NEW new \in Seq(Events), new # <<>>, Tells(new),
         Core(host', host.gen, events, agent), Live(host'), host'.gen = host.gen,
         agent' \in Agents, agent'.open => agent'.prompts > 0,
         UNCHANGED <<steered, calls>>,
         NEW all, all = NewsOf(host, events) \o new,
         SubmissionFits(host', all), WorkFits(host', all, agent'),
         SteersFit(host', all, steered, calls)
  PROVE  Held'
<1>1. /\ DOMAIN events' = DOMAIN events \union {host.gen} /\ EventsFit(events')
      /\ Untaken(events', host.gen) = all
  BY TellsFacts DEF Held, NewsOf
<1>2. Fits(host', host.gen, events', agent', steered, calls)
  BY <1>1, WithNews
<1>3. Fits(host', host'.gen, events', agent', steered', calls')
  BY <1>2
<1> QED BY <1>1, <1>3 DEF Held

LEMMA HeldFacts ==
  ASSUME Held
  PROVE  /\ host \in Hosts /\ agent \in Agents /\ EventsFit(events)
         /\ agent.prompts \in Nat /\ agent.open \in BOOLEAN /\ agent.task \in BOOLEAN
         /\ Core(host, host.gen, events, agent)
         /\ SubmissionFits(host, NewsOf(host, events))
         /\ WorkFits(host, NewsOf(host, events), agent)
         /\ SteersFit(host, NewsOf(host, events), steered, calls)
         /\ NewsOf(host, events) \in Seq(Events)
         /\ AgentOf(host, host.gen, agent) = agent
         /\ Fits(host, host.gen, events, agent, steered, calls)
<1>1. host \in Hosts /\ GivenFit(host.gen, events, agent)
  BY FitsFacts DEF Held
<1>2. agent \in Agents
  BY <1>1 DEF GivenFit
<1>3. NewsOf(host, events) \in Seq(Events)
  BY EmptySeq DEF Held, EventsFit, NewsOf, Untaken
<1>4. AgentOf(host, host.gen, agent) = agent
  BY DEF AgentOf
<1> QED BY <1>1, <1>2, <1>3, <1>4 DEF Held, Fits, Agents

LEMMA TakesTurnFits ==
  ASSUME Held, TakesTurn
  PROVE  Held' /\ Keeps(host, host')
<1> DEFINE c == Head(host.inbox)
           e == Event("accepted", c.id, c.texts)
           old == NewsOf(host, events)
           all == old \o <<e>>
<1>1. /\ Live(host) /\ host.inbox # <<>> /\ c.do = "turn"
      /\ host' = [host EXCEPT !.inbox = Tail(@)] /\ Tells(<<e>>)
      /\ agent' = [agent EXCEPT !.prompts = @ + 1] /\ UNCHANGED <<steered, calls>>
  BY DEF TakesTurn, Reads, Running, ProviderOnly, log, history
<1>2. /\ Core(host', host.gen, events, agent) /\ host'.gen = host.gen /\ Live(host')
      /\ c.texts \in Seq(Texts) /\ c.id \in Nat /\ Keeps(host, host')
      /\ host'.delivery = host.delivery
      /\ Prompts(host') = {} /\ Told(old, {"accepted"}) = {}
      /\ c.id = host.delivery /\ Holds(host', host.delivery, c.texts)
      /\ host.delivery # 0 => \E j \in DOMAIN host'.queue : host'.queue[j].id = host.delivery
      /\ SteersFit(host', old, steered, calls)
  BY <1>1, ReadFits DEF Held
<1>3. e \in Events /\ e.is = "accepted" /\ e.id = c.id /\ e.texts = c.texts
  BY <1>2 DEF Event, Events
<1>4. old \in Seq(Events) /\ agent \in Agents /\ agent.prompts \in Nat
  BY HeldFacts
<1>5. agent' \in Agents /\ agent'.prompts > 0
  BY <1>1, <1>4 DEF Agents
<1> HIDE DEF c, e, old
<1>6. /\ <<e>> \in Seq(Events) /\ <<e>> # <<>> /\ <<e>>[1] = e
      /\ Told(<<e>>, {"accepted"}) = {1} /\ Told(<<e>>, {"accepted", "closed"}) = {1}
      /\ Settling(<<e>>) = {}
  BY <1>3, OneEvent DEF Settling
<1>7. /\ Adds(all, old, <<e>>, {"accepted"}) /\ Len(old) + 1 \in Told(all, {"accepted", "closed"})
  BY <1>4, <1>6, MoreTold
<1>8. \A i \in Told(all, {"accepted"}) : i = Len(old) + 1 /\ all[i] = e
  BY <1>2, <1>6, <1>7 DEF Adds
<1>9. SteersFit(host', all, steered, calls)
  BY <1>2, <1>4, <1>6, OtherNews
<1> HIDE DEF all
<1>10. SubmissionFits(host', all)
  BY <1>2, <1>3, <1>7, <1>8 DEF SubmissionFits
<1>11. WorkFits(host', all, agent')
  BY <1>5, Busy
<1>12. Held'
  BY <1>1, <1>2, <1>5, <1>6, <1>9, <1>10, <1>11, TellFits DEF all, old
<1> QED BY <1>2, <1>12

LEMMA TakesCompactFits ==
  ASSUME Held, TakesCompact
  PROVE  Held' /\ Keeps(host, host')
<1> DEFINE c == Head(host.inbox)
           old == NewsOf(host, events)
<1>1. /\ Live(host) /\ host.inbox # <<>> /\ c.do = "compact"
      /\ host' = [host EXCEPT !.inbox = Tail(@)]
      /\ agent' = [agent EXCEPT !.prompts = @ + 1] /\ UNCHANGED <<events, steered, calls>>
  BY DEF TakesCompact, Reads, Running, ProviderOnly, log, history
<1>2. /\ Core(host', host.gen, events, agent) /\ host'.gen = host.gen /\ Live(host')
      /\ Keeps(host, host') /\ SubmissionFits(host', old)
      /\ SteersFit(host', old, steered, calls)
  BY <1>1, ReadFits DEF Held
<1>4. agent \in Agents /\ agent.prompts \in Nat /\ EventsFit(events)
  BY HeldFacts
<1>5. agent' \in Agents /\ agent'.prompts > 0
  BY <1>1, <1>4 DEF Agents
<1>6. WorkFits(host', old, agent')
  BY <1>5, Busy
<1>7. Fits(host', host.gen, events, agent', steered, calls)
  BY <1>2, <1>4, <1>5, <1>6, WithNews DEF NewsOf
<1>8. Fits(host', host'.gen, events', agent', steered', calls')
  BY <1>1, <1>2, <1>7
<1> QED BY <1>1, <1>2, <1>4, <1>5, <1>8 DEF Held

\* A steer that was read is settled next.
LEMMA SettlesNext ==
  ASSUME NEW n, NEW old \in Seq(Events), NEW e \in Events, NEW all, all = old \o <<e>>,
         NEW st, NEW cl, SteersFit(n, old, st, cl), Steer1(n, e.texts, st, cl),
         \A i \in InboxSteers(n) : Disjoint(n.inbox[i].texts, e.texts),
         \A j \in Settling(old) : Disjoint(e.texts, old[j].texts),
         e.is \in {"steerAccepted", "steerRejected"}
  PROVE  SteersFit(n, all, st, cl)
<1>1. <<e>> \in Seq(Events) /\ <<e>>[1] = e /\ Settling(<<e>>) = {1}
  BY OneEvent DEF Settling
<1>2. Adds(all, old, <<e>>, {"steerAccepted", "steerRejected"})
  BY <1>1, MoreTold
<1>3. \A i \in Settling(all) : \/ i \in Settling(old) /\ all[i] = old[i]
                               \/ i = Len(old) + 1 /\ all[i] = e
  BY <1>1, <1>2 DEF Settling, Adds
<1>4. \A s, t : Disjoint(s, t) => Disjoint(t, s)
  BY DEF Disjoint
<1>5. \A i \in InboxSteers(n) : \A j \in Settling(all) : Disjoint(n.inbox[i].texts, all[j].texts)
  BY <1>3 DEF SteersFit
<1>6. \A i \in Settling(all) : Steer1(n, all[i].texts, st, cl)
  BY <1>3 DEF SteersFit
<1>7. \A i, j \in Settling(all) : i # j => Disjoint(all[i].texts, all[j].texts)
  <2> SUFFICES ASSUME NEW i \in Settling(all), NEW j \in Settling(all), i # j
               PROVE  Disjoint(all[i].texts, all[j].texts)
    OBVIOUS
  <2>1. CASE i \in Settling(old) /\ all[i] = old[i] /\ j \in Settling(old) /\ all[j] = old[j]
    BY <2>1 DEF SteersFit
  <2>2. CASE i \in Settling(old) /\ all[i] = old[i] /\ j = Len(old) + 1 /\ all[j] = e
    BY <1>4, <2>2
  <2>3. CASE j \in Settling(old) /\ all[j] = old[j] /\ i = Len(old) + 1 /\ all[i] = e
    BY <2>3
  <2> QED BY <1>3, <2>1, <2>2, <2>3
<1> QED BY <1>5, <1>6, <1>7 DEF SteersFit

LEMMA TakesSteerFits ==
  ASSUME Held, TakesSteer
  PROVE  Held' /\ Keeps(host, host')
<1> DEFINE c == Head(host.inbox)
           old == NewsOf(host, events)
<1>1. /\ Live(host) /\ host.inbox # <<>> /\ c.do = "steer"
      /\ host' = [host EXCEPT !.inbox = Tail(@)]
      /\ UNCHANGED <<agent, steered, calls>>
      /\ \/ Tells(<<Event("steerAccepted", 0, c.texts)>>)
         \/ Tells(<<Event("steerRejected", 0, c.texts)>>)
  BY DEF TakesSteer, Reads, Running, ProviderOnly, log, history
<1>2. PICK is \in {"steerAccepted", "steerRejected"} : Tells(<<Event(is, 0, c.texts)>>)
  BY <1>1
<1> DEFINE e == Event(is, 0, c.texts)
           all == old \o <<e>>
<1>3. /\ Core(host', host.gen, events, agent) /\ host'.gen = host.gen /\ Live(host')
      /\ c.texts \in Seq(Texts) /\ Keeps(host, host')
      /\ SubmissionFits(host', old) /\ WorkFits(host', old, AgentOf(host, host.gen, agent))
      /\ SteersFit(host', old, steered, calls)
      /\ Steer1(host', c.texts, steered, calls)
      /\ \A i \in InboxSteers(host') : Disjoint(host'.inbox[i].texts, c.texts)
      /\ \A j \in Settling(old) : Disjoint(c.texts, old[j].texts)
  BY <1>1, ReadFits DEF Held
<1>4. e \in Events /\ e.is = is /\ e.texts = c.texts
  BY <1>3 DEF Event, Events
<1>5. old \in Seq(Events) /\ agent \in Agents /\ AgentOf(host, host.gen, agent) = agent
  BY HeldFacts
<1>6. Tells(<<e>>)
  BY <1>2
<1> HIDE DEF c, e, old
<1>7. /\ <<e>> \in Seq(Events) /\ <<e>> # <<>>
      /\ Told(<<e>>, {"accepted"}) = {} /\ Told(<<e>>, {"accepted", "started"}) = {}
      /\ Told(<<e>>, {"tasks"}) = {}
  BY <1>4, OneEvent
<1>8. SubmissionFits(host', all)
  BY <1>3, <1>5, <1>7, OtherNews
<1>9. SteersFit(host', all, steered, calls)
  <2> HIDE DEF all
  <2>1. all = old \o <<e>>
    BY DEF all
  <2> QED BY <1>3, <1>4, <1>5, <2>1, SettlesNext
<1>10. WorkFits(host', all, agent')
  <2> HIDE DEF all
  <2>1. all = old \o <<e>>
    BY DEF all
  <2> QED BY <1>1, <1>3, <1>5, <1>7, <2>1, OtherWork
<1> HIDE DEF all
<1>11. Held'
  <2>1. agent'.open => agent'.prompts > 0
    BY <1>1 DEF Held
  <2> QED BY <1>1, <1>3, <1>5, <1>6, <1>7, <1>8, <1>9, <1>10, <2>1, TellFits DEF all, old
<1> QED BY <1>3, <1>11

\* The process goes on with its work.
LEMMA TellsWorkFits ==
  ASSUME Held, Running, UNCHANGED <<host, steered, calls>>,
         NEW e \in Events, Tells(<<e>>), e.is \in {"started", "tasks"},
         agent' \in Agents, agent'.prompts > 0
  PROVE  Held' /\ Keeps(host, host')
<1> DEFINE old == NewsOf(host, events)
           all == old \o <<e>>
<1>1. /\ <<e>> \in Seq(Events) /\ <<e>> # <<>>
      /\ Told(<<e>>, {"accepted"}) = {} /\ Settling(<<e>>) = {}
  BY OneEvent DEF Settling
<1>2. /\ SubmissionFits(host, old) /\ SteersFit(host, old, steered, calls)
      /\ old \in Seq(Events) /\ Core(host, host.gen, events, agent)
  BY HeldFacts
<1>3. SubmissionFits(host, all) /\ SteersFit(host, all, steered, calls)
  BY <1>1, <1>2, OtherNews
<1>4. WorkFits(host, all, agent')
  BY Busy
<1>5. host' = host /\ Live(host)
  BY DEF Running
<1> HIDE DEF all, old
<1>6. Held'
  BY <1>1, <1>2, <1>3, <1>4, <1>5, TellFits DEF all, old
<1> QED BY <1>5, <1>6 DEF Keeps

LEMMA BeginsFits ==
  ASSUME Held, Begins
  PROVE  Held' /\ Keeps(host, host')
<1>1. /\ Running /\ agent.prompts > 0 /\ agent' = [agent EXCEPT !.open = TRUE]
      /\ Tells(<<Event("started", 0, <<>>)>>) /\ UNCHANGED <<host, steered, calls>>
  BY DEF Begins, ProviderOnly, log, history
<1>2. agent \in Agents
  BY HeldFacts
<1>3. agent' \in Agents /\ agent'.prompts > 0
  BY <1>1, <1>2 DEF Agents
<1>4. Event("started", 0, <<>>) \in Events /\ Event("started", 0, <<>>).is = "started"
  BY EmptySeq DEF Event, Events
<1> QED BY <1>1, <1>3, <1>4, TellsWorkFits

LEMMA StartsTaskFits ==
  ASSUME Held, StartsTask
  PROVE  Held' /\ Keeps(host, host')
<1>1. /\ Running /\ agent.open /\ agent' = [agent EXCEPT !.task = TRUE]
      /\ Tells(<<Event("tasks", 1, <<>>)>>) /\ UNCHANGED <<host, steered, calls>>
  BY DEF StartsTask, log, history
<1>2. agent \in Agents /\ agent.prompts > 0
  BY <1>1, HeldFacts DEF Held
<1>3. agent' \in Agents /\ agent'.prompts > 0
  BY <1>1, <1>2 DEF Agents
<1>4. Event("tasks", 1, <<>>) \in Events /\ Event("tasks", 1, <<>>).is = "tasks"
  BY EmptySeq DEF Event, Events
<1> QED BY <1>1, <1>3, <1>4, TellsWorkFits

LEMMA EndsTaskFits ==
  ASSUME Held, EndsTask
  PROVE  Held' /\ Keeps(host, host')
<1>1. /\ Live(host) /\ agent' = [agent EXCEPT !.task = FALSE, !.prompts = @ + 1]
      /\ UNCHANGED <<host, events, steered, calls>>
  BY DEF EndsTask, Running, ProviderOnly, log, history
<1>2. /\ agent \in Agents /\ agent.prompts \in Nat /\ EventsFit(events)
      /\ Core(host, host.gen, events, agent)
      /\ SubmissionFits(host, NewsOf(host, events))
      /\ SteersFit(host, NewsOf(host, events), steered, calls)
  BY HeldFacts
<1>3. agent' \in Agents /\ agent'.prompts > 0
  <2>1. agent' = [open |-> agent.open, prompts |-> agent.prompts + 1, task |-> FALSE]
    BY <1>1, <1>2 DEF Agents
  <2> QED BY <1>2, <2>1 DEF Agents
<1>4. WorkFits(host, NewsOf(host, events), agent')
  BY <1>3, Busy
<1>5. Fits(host, host.gen, events, agent', steered, calls)
  BY <1>1, <1>2, <1>3, <1>4, WithNews DEF NewsOf
<1> QED BY <1>1, <1>2, <1>3, <1>5 DEF Held, Keeps

\* The turn ends, after the process said what tasks are left.
LEMMA FinishWork ==
  ASSUME NEW h, NEW old \in Seq(Events), NEW e \in Events, NEW f \in Events,
         NEW all, all = old \o <<e, f>>, NEW b,
         e.is = "tasks", f.is = "completed", e.id > 0 => b.task
  PROVE  WorkFits(h, all, b)
<1> DEFINE new == <<e, f>>
<1>1. /\ new \in Seq(Events) /\ new[1] = e /\ new[2] = f /\ DOMAIN new = {1, 2}
  <2>1. new[1] = e /\ new[2] = f /\ DOMAIN new = 1..2
    OBVIOUS
  <2>2. new \in Seq(Events)
    OBVIOUS
  <2> HIDE DEF new
  <2> QED BY <2>1, <2>2
<1>2. /\ Told(new, {"completed", "closed"}) = {2} /\ Told(new, {"tasks", "closed"}) = {1}
      /\ Told(new, {"accepted", "started"}) = {} /\ Told(new, {"tasks"}) = {1}
  BY <1>1 DEF Told
<1>3. all = old \o new
  OBVIOUS
<1> HIDE DEF new
<1>4. /\ Len(old) + 2 \in Told(all, {"completed", "closed"})
      /\ Len(old) + 1 \in Told(all, {"tasks", "closed"})
      /\ \A i \in 1..Len(old) : Follows(all, i, {"completed", "closed"})
      /\ \A i \in 1..Len(old) : Follows(all, i, {"tasks", "closed"})
  <2>1. 2 \in Told(new, {"completed", "closed"}) /\ 1 \in Told(new, {"tasks", "closed"})
    BY <1>2
  <2> QED BY <1>1, <1>3, <2>1, EndFollows
<1>5. Adds(all, old, new, {"accepted", "started"}) /\ Adds(all, old, new, {"tasks"})
  BY <1>1, <1>3, MoreTold
<1>6. \A i \in Told(all, {"accepted", "started"}) : i \in 1..Len(old)
  <2>1. \A i \in Told(all, {"accepted", "started"}) : i \in Told(old, {"accepted", "started"})
    BY <1>2, <1>5 DEF Adds
  <2> QED BY <2>1, LenProperties DEF Told
<1>7. \A i \in Told(all, {"tasks"}) : i \in 1..Len(old) \/ all[i] = e
  <2>1. \A j \in Told(new, {"tasks"}) : new[j] = e
    BY <1>1, <1>2
  <2>2. \A i \in Told(all, {"tasks"}) : i \in Told(old, {"tasks"}) \/ all[i] = e
    BY <1>5, <2>1 DEF Adds
  <2>3. \A i \in Told(old, {"tasks"}) : i \in 1..Len(old)
    BY LenProperties DEF Told
  <2> QED BY <2>2, <2>3
<1> QED BY <1>4, <1>6, <1>7 DEF WorkFits

LEMMA FinishesFits ==
  ASSUME Held, Finishes
  PROVE  Held' /\ Keeps(host, host')
<1> DEFINE e == Event("tasks", IF agent.task THEN 1 ELSE 0, <<>>)
           f == Event("completed", 0, <<>>)
           new == <<e, f>>
           old == NewsOf(host, events)
           all == old \o new
<1>1. /\ Live(host) /\ agent.open /\ Tells(new) /\ UNCHANGED <<host, steered, calls>>
      /\ agent' = [agent EXCEPT !.open = FALSE, !.prompts = @ - 1]
  BY DEF Finishes, Running, ProviderOnly, log, history
<1>2. /\ e \in Events /\ e.is = "tasks"
      /\ e.id > 0 => agent.task
      /\ f \in Events /\ f.is = "completed"
  BY EmptySeq DEF Event, Events
<1>3. /\ agent \in Agents /\ agent.prompts \in Nat /\ agent.task \in BOOLEAN
      /\ agent.prompts > 0
      /\ Core(host, host.gen, events, agent)
      /\ SubmissionFits(host, old) /\ WorkFits(host, old, agent)
      /\ SteersFit(host, old, steered, calls) /\ old \in Seq(Events)
  BY <1>1, HeldFacts DEF Held
<1>4. /\ agent' \in Agents /\ ~agent'.open /\ agent'.task = agent.task
      /\ agent'.prompts \in Nat
  <2>1. agent' = [open |-> FALSE, prompts |-> agent.prompts - 1, task |-> agent.task]
    BY <1>1, <1>3 DEF Agents
  <2>2. agent.prompts - 1 \in Nat
    BY <1>3
  <2> QED BY <1>3, <2>1, <2>2 DEF Agents
<1> HIDE DEF e, f, old
<1>5. /\ new \in Seq(Events) /\ new # <<>> /\ new[1] = e /\ new[2] = f /\ DOMAIN new = {1, 2}
  <2>1. /\ new[1] = e /\ new[2] = f /\ DOMAIN new = 1..2
    OBVIOUS
  <2>2. new \in Seq(Events) /\ new # <<>>
    BY <1>2
  <2> QED BY <2>1, <2>2
<1>6. Told(new, {"accepted"}) = {} /\ Settling(new) = {}
  BY <1>2, <1>5 DEF Told, Settling
<1>7. SubmissionFits(host, all) /\ SteersFit(host, all, steered, calls)
  BY <1>3, <1>5, <1>6, OtherNews
<1>8. WorkFits(host, all, agent')
  <2>1. all = old \o <<e, f>>
    OBVIOUS
  <2> HIDE DEF all, new
  <2>2. e.id > 0 => agent'.task
    BY <1>2, <1>4
  <2> QED BY <1>2, <1>3, <1>4, <2>1, <2>2, FinishWork
<1> HIDE DEF all, new
<1>9. Held'
  <2>1. host' = host
    BY <1>1
  <2>2. all = NewsOf(host, events) \o new
    BY DEF all, old
  <2> QED BY <1>1, <1>3, <1>4, <1>5, <1>7, <1>8, <2>1, <2>2, TellFits
<1> QED BY <1>1, <1>9 DEF Keeps

LEMMA DiesFits ==
  ASSUME Held, Dies
  PROVE  Held' /\ Keeps(host, host')
<1> DEFINE e == Event("closed", 0, <<>>)
           old == NewsOf(host, events)
           all == old \o <<e>>
<1>1. /\ Live(host) /\ Tells(<<e>>) /\ UNCHANGED <<steered, calls>>
      /\ agent' = Resting /\ host' = [host EXCEPT !.reading = FALSE]
  BY DEF Dies, Running, log, history
<1>2. /\ Core(host, host.gen, events, agent) /\ host \in Hosts
      /\ Fits(host, host.gen, events, agent, steered, calls) /\ old \in Seq(Events)
  BY HeldFacts
<1>3. e \in Events /\ e.is = "closed"
  BY EmptySeq DEF Event, Events
<1>4. agent' \in Agents /\ ~agent'.open
  BY <1>1 DEF Resting, Agents
<1>5. host' \in Hosts
  BY <1>1, <1>2 DEF Hosts
<1>6. /\ host'.runtime = host.runtime /\ host'.gen = host.gen /\ host'.starts = host.starts
      /\ host'.delivery = host.delivery /\ host'.inbox = host.inbox /\ host'.steers = host.steers
      /\ host'.turn = host.turn /\ host'.tasks = host.tasks /\ host'.queue = host.queue
      /\ host'.next = host.next
      /\ host'.place = host.place
      /\ host'.timers = host.timers /\ host'.idle = host.idle
      /\ host'.swallowed = host.swallowed /\ host'.alarm = host.alarm
  BY <1>1, <1>2 DEF Hosts
<1>7. Fits(host', host.gen, events, agent, steered, calls)
  <2>1. IdleFits(host')
    BY <1>2, <1>6, CoreFacts DEF IdleFits, HasWork
  <2> QED BY <1>2, <1>5, <1>6, <2>1, SameQueueFits
<1>8. /\ Core(host', host.gen, events, agent) /\ NewsOf(host', events) = old
      /\ SubmissionFits(host', old) /\ SteersFit(host', old, steered, calls)
  BY <1>6, <1>7 DEF Fits, NewsOf
<1> HIDE DEF e, old
<1>9. /\ <<e>> \in Seq(Events) /\ <<e>> # <<>>
      /\ Told(<<e>>, {"accepted"}) = {} /\ Settling(<<e>>) = {}
  BY <1>3, OneEvent DEF Settling
<1>10. SubmissionFits(host', all) /\ SteersFit(host', all, steered, calls)
  BY <1>2, <1>8, <1>9, OtherNews
<1>11. WorkFits(host', all, agent')
  <2>1. \E new \in Seq(Events) : new = <<e>> /\ all = old \o new
    BY <1>9
  <2> HIDE DEF all
  <2> QED BY <1>2, <1>3, <2>1, ClosedWork
<1> HIDE DEF all
<1>12. Held'
  <2>1. Live(host') /\ all = NewsOf(host, events) \o <<e>>
    BY <1>1, <1>6 DEF Live, all, old
  <2> QED BY <1>1, <1>4, <1>6, <1>8, <1>9, <1>10, <1>11, <2>1, TellFits
<1>13. Keeps(host, host')
  BY <1>6, SameQueueKeeps
<1> QED BY <1>12, <1>13

-------------------------------------------------------------------------------
(* The steps of the loop *)

\* A handler ran to its end.
LEMMA HandledFits ==
  ASSUME Held, NEW n, Fits(n, host.gen, events', agent, steered', calls'),
         EventsFit(events'), Handled(n)
  PROVE  Held' /\ host' = n
<1>1. host' = n /\ agent' = IF n.gen = host.gen THEN agent ELSE Resting
  BY DEF Handled
<1>2. AgentOf(n, host.gen, agent) = agent' /\ AgentOf(n, n.gen, agent') = agent'
  BY <1>1 DEF AgentOf
<1>3. Core(n, host.gen, events', agent) /\ n.gen \in Nat /\ n.starts \in Nat
  BY FitsFacts
<1>4. agent' \in Agents /\ (agent'.open => agent'.prompts > 0)
  <2>1. Resting \in Agents /\ ~Resting.open
    BY DEF Resting, Agents
  <2>2. agent \in Agents /\ (agent.open => agent.prompts > 0)
    BY HeldFacts DEF Held
  <2> QED BY <1>1, <2>1, <2>2
<1>5. Core(n, n.gen, events', agent')
  <2>1. ProcessFits(n, n.gen, events') /\ GivenFit(n.gen, events', agent')
    BY <1>3, <1>4 DEF Core, ProcessFits, GivenFit
  <2> QED BY <1>3, <2>1 DEF Core
<1>6. Fits(n, n.gen, events', agent', steered', calls')
  BY <1>2, <1>5 DEF Fits
<1> QED BY <1>1, <1>4, <1>6 DEF Held

\* A compaction is asked of the provider.
LEMMA CompactionFits ==
  ASSUME NEW h, NEW n \in Hosts, NEW g0, NEW evs, NEW ag, NEW st, NEW cl,
         Fits(h, g0, evs, ag, st, cl), Live(h),
         n.inbox = Append(h.inbox, Command("compact", 0, <<>>)),
         n.runtime = h.runtime, n.gen = h.gen, n.starts = h.starts, n.delivery = h.delivery,
         n.steers = h.steers, n.turn = h.turn, n.tasks = h.tasks, n.queue = h.queue,
         n.next = h.next, n.place = h.place, n.timers = h.timers, n.idle = h.idle,
         n.swallowed = h.swallowed,
         n.alarm = h.alarm
  PROVE  Fits(n, g0, evs, ag, st, cl) /\ Keeps(h, n)
<1> DEFINE c == Command("compact", 0, <<>>)
<1>1. h \in Hosts /\ h.inbox \in Seq(InboxCommands)
  BY SMTT(60), FitsFacts DEF Hosts
<1>2. c \in InboxCommands /\ c.do = "compact"
  BY EmptySeq DEF Command, InboxCommands
<1>3. /\ DOMAIN n.inbox = 1..(Len(h.inbox) + 1) /\ DOMAIN h.inbox = 1..Len(h.inbox)
      /\ Len(h.inbox) \in Nat
      /\ \A i \in DOMAIN h.inbox : n.inbox[i] = h.inbox[i]
      /\ n.inbox[Len(h.inbox) + 1] = c
  BY <1>1, <1>2, AppendProperties, LenProperties
<1>4. \A i \in DOMAIN n.inbox : i \in DOMAIN h.inbox \/ n.inbox[i].do = "compact"
  BY <1>2, <1>3
<1>5. Prompts(n) = Prompts(h) /\ InboxSteers(n) = InboxSteers(h)
  BY <1>3, <1>4 DEF Prompts, InboxSteers
<1>6. \A i \in Prompts(h) \union InboxSteers(h) : n.inbox[i] = h.inbox[i]
  BY <1>3 DEF Prompts, InboxSteers
<1>7. NewsOf(n, evs) = NewsOf(h, evs) /\ AgentOf(n, g0, ag) = AgentOf(h, g0, ag)
  BY DEF NewsOf, AgentOf
<1>8. Core(n, g0, evs, ag)
  <2>1. ProcessFits(n, g0, evs)
    BY FitsFacts DEF ProcessFits, Live
  <2>2. QueueFits(h) /\ n.queue = h.queue /\ n.next = h.next
    BY FitsFacts
  <2>3. QueueFits(n)
    BY <2>2, SameEntriesFit
  <2>4. IdleFits(n)
    BY FitsFacts DEF IdleFits, HasWork
  <2> QED BY <2>1, <2>3, <2>4, FitsFacts DEF Core
<1>9. SubmissionFits(n, NewsOf(n, evs))
  <2>1. SubmissionFits(h, NewsOf(h, evs))
    BY DEF Fits
  <2>2. \A id, t : Holds(n, id, t) <=> Holds(h, id, t)
    BY DEF Holds
  <2>3. n.delivery = h.delivery /\ n.queue = h.queue
    OBVIOUS
  <2>4. \A i \in Prompts(n) : n.inbox[i] = h.inbox[i]
    BY <1>5, <1>6
  <2> QED BY ZenonT(60), <1>5, <1>7, <2>1, <2>2, <2>3, <2>4 DEF SubmissionFits
<1>10. WorkFits(n, NewsOf(n, evs), AgentOf(n, g0, ag))
  BY <1>7 DEF Fits, WorkFits
<1>11. SteersFit(n, NewsOf(n, evs), st, cl)
  <2>1. SteersFit(h, NewsOf(h, evs), st, cl)
    BY DEF Fits
  <2>2. \A t : Steer1(n, t, st, cl) <=> Steer1(h, t, st, cl)
    BY DEF Steer1
  <2> QED BY ZenonT(60), <1>5, <1>6, <1>7, <2>1, <2>2 DEF SteersFit
<1>12. Keeps(h, n)
  BY SameQueueKeeps
<1> QED BY <1>8, <1>9, <1>10, <1>11, <1>12 DEF Fits

LEMMA StaleLaunchFits ==
  ASSUME Held, StaleLaunch
  PROVE  Held' /\ Keeps(host, host')
<1>1. PICK g \in host.launching : Handled([host EXCEPT !.launching = @ \ {g}])
  BY DEF StaleLaunch
<1>2. UNCHANGED <<events, steered, calls>>
  BY DEF StaleLaunch, log, history
<1> DEFINE n == [host EXCEPT !.launching = @ \ {g}]
<1>3. host \in Hosts /\ Fits(host, host.gen, events, agent, steered, calls) /\ EventsFit(events)
  BY HeldFacts
<1>4. n \in Hosts /\ Alike(host, n) /\ n.turn = host.turn /\ n.idle = host.idle
  <2>1. host.launching \ {g} \in SUBSET Nat
    BY <1>3 DEF Hosts
  <2> QED BY <1>3, <2>1 DEF Hosts, Alike
<1>5. Handled(n)
  BY <1>1
<1> HIDE DEF n
<1>6. Fits(n, host.gen, events, agent, steered, calls) /\ Keeps(host, n)
  BY <1>3, <1>4, AlikeFits
<1> QED BY <1>2, <1>3, <1>5, <1>6, HandledFits

\* The provider that arrives has been told nothing, and has told nothing.
LEMMA ArrivedFits ==
  ASSUME Held, Arriving, NEW up \in Hosts,
         up.runtime = "live", up.gen = host.gen, up.starts = host.starts,
         up.delivery = host.delivery, up.inbox = host.inbox, up.steers = host.steers,
         up.turn = host.turn, up.tasks = host.tasks, up.queue = host.queue,
         up.next = host.next, up.place = host.place, up.timers = host.timers, up.idle = host.idle,
         up.swallowed = host.swallowed, up.alarm = host.alarm
  PROVE  /\ Fits(up, host.gen, events, agent, steered, calls) /\ Keeps(host, up)
         /\ up.inbox = <<>> /\ ~up.turn
<1>1. /\ Core(host, host.gen, events, agent)
      /\ Fits(host, host.gen, events, agent, steered, calls) /\ host.runtime = "starting"
  BY HeldFacts DEF Arriving
<1>2. /\ host.inbox = <<>> /\ ~host.turn /\ ~host.tasks /\ host.delivery = 0 /\ host.gen # 0
  BY <1>1 DEF Core, ProcessFits, Live
<1>3. NewsOf(up, events) = NewsOf(host, events) /\ AgentOf(up, host.gen, agent) = agent
      /\ AgentOf(host, host.gen, agent) = agent
      /\ Prompts(up) = Prompts(host) /\ InboxSteers(up) = InboxSteers(host)
  BY DEF NewsOf, AgentOf, Prompts, InboxSteers
<1>4. Core(up, host.gen, events, agent)
  <2>1. ProcessFits(up, host.gen, events)
    BY <1>1, <1>2 DEF Core, ProcessFits, Live
  <2>2. QueueFits(host) /\ up.queue = host.queue /\ up.next = host.next
    BY <1>1 DEF Core
  <2>3. QueueFits(up)
    BY ZenonT(60), <2>2 DEF QueueFits
  <2>4. IdleFits(up)
    BY <1>1 DEF Core, IdleFits, HasWork
  <2> QED BY <1>1, <2>1, <2>3, <2>4 DEF Core
<1>5. SubmissionFits(up, NewsOf(up, events))
  <2>1. SubmissionFits(host, NewsOf(host, events))
    BY <1>1 DEF Fits
  <2>2. \A id, t : Holds(up, id, t) <=> Holds(host, id, t)
    BY DEF Holds
  <2> QED BY <1>3, <2>1, <2>2 DEF SubmissionFits
<1>6. WorkFits(up, NewsOf(up, events), agent)
  BY <1>1, <1>3 DEF Fits, WorkFits
<1>7. SteersFit(up, NewsOf(up, events), steered, calls)
  <2>1. SteersFit(host, NewsOf(host, events), steered, calls)
    BY <1>1 DEF Fits
  <2>2. \A t : Steer1(up, t, steered, calls) <=> Steer1(host, t, steered, calls)
    BY DEF Steer1
  <2> QED BY <1>3, <2>1, <2>2 DEF SteersFit
<1>8. Keeps(host, up)
  BY SameQueueKeeps
<1> QED BY <1>2, <1>3, <1>4, <1>5, <1>6, <1>7, <1>8 DEF Fits

LEMMA LaunchSucceedsFits ==
  ASSUME Held, LaunchSucceeds
  PROVE  Held' /\ Keeps(host, host')
<1> DEFINE up == [host EXCEPT !.launching = @ \ {host.gen}, !.runtime = "live",
                              !.reading = TRUE]
           asked == [up EXCEPT !.request = FALSE, !.inbox = <<Command("compact", 0, <<>>)>>]
           over == [up EXCEPT !.turn = FALSE]
<1>1. /\ Arriving /\ UNCHANGED <<events, steered, calls>>
      /\ Handled(CASE up.request -> asked
                   [] ~up.request /\ up.place = "viewed" -> Dispatch(up)
                   [] ~up.request /\ up.place = "parked" -> CompletedParked(up))
  BY DEF LaunchSucceeds, log, history
<1>2. host \in Hosts /\ EventsFit(events)
  BY HeldFacts
<1>3. up \in Hosts
  <2>1. host.launching \ {host.gen} \in SUBSET Nat
    BY <1>2 DEF Hosts
  <2> QED BY <1>2, <2>1 DEF Hosts
<1>4. /\ up.runtime = "live" /\ up.gen = host.gen /\ up.starts = host.starts
      /\ up.delivery = host.delivery /\ up.inbox = host.inbox /\ up.steers = host.steers
      /\ up.turn = host.turn /\ up.tasks = host.tasks /\ up.queue = host.queue
      /\ up.next = host.next
      /\ up.place = host.place
      /\ up.timers = host.timers /\ up.idle = host.idle
      /\ up.swallowed = host.swallowed /\ up.alarm = host.alarm
  BY <1>2 DEF Hosts
<1> HIDE DEF up
<1>5. /\ Fits(up, host.gen, events, agent, steered, calls) /\ Keeps(host, up)
      /\ up.inbox = <<>> /\ ~up.turn
  BY <1>1, <1>3, <1>4, ArrivedFits
<1>6. Fits(asked, host.gen, events, agent, steered, calls) /\ Keeps(up, asked)
  <2> DEFINE c == Command("compact", 0, <<>>)
  <2>1. <<c>> \in Seq(InboxCommands) /\ <<c>> = Append(<<>>, c)
    BY EmptySeq DEF Command, InboxCommands
  <2>2. asked \in Hosts
    BY <1>3, <2>1 DEF Hosts
  <2>3. /\ asked.inbox = <<c>> /\ asked.runtime = up.runtime /\ asked.gen = up.gen
        /\ asked.starts = up.starts /\ asked.delivery = up.delivery
        /\ asked.steers = up.steers /\ asked.turn = up.turn /\ asked.tasks = up.tasks
        /\ asked.queue = up.queue /\ asked.next = up.next
        /\ asked.place = up.place
        /\ asked.timers = up.timers
        /\ asked.idle = up.idle /\ asked.swallowed = up.swallowed /\ asked.alarm = up.alarm
    BY <1>3 DEF Hosts
  <2>4. asked.inbox = Append(up.inbox, c) /\ Live(up)
    BY <1>4, <1>5, <2>1, <2>3 DEF Live
  <2> HIDE DEF asked
  <2> QED BY <1>5, <2>2, <2>3, <2>4, CompactionFits
<1>7. Fits(Dispatch(up), host.gen, events, agent, steered, calls) /\ Keeps(up, Dispatch(up))
  BY <1>5, DispatchFits
<1>8. /\ Fits(CompletedParked(up), host.gen, events, agent, steered, calls)
      /\ Keeps(up, CompletedParked(up))
  <2>1. over \in Hosts /\ Alike(up, over) /\ ~over.turn /\ over.idle = up.idle
    BY ZenonT(60), <1>3 DEF Hosts, Alike
  <2> HIDE DEF over
  <2>2. Fits(over, host.gen, events, agent, steered, calls)
    BY <1>5, <2>1, AlikeFits
  <2> QED BY <1>3, <2>2, CompletedParkedFits DEF over
<1> DEFINE n == CASE up.request -> asked
                  [] ~up.request /\ up.place = "viewed" -> Dispatch(up)
                  [] ~up.request /\ up.place = "parked" -> CompletedParked(up)
<1> HIDE DEF asked
<1>9. Fits(n, host.gen, events, agent, steered, calls) /\ Keeps(up, n)
  <2>1. n = asked \/ n = Dispatch(up) \/ n = CompletedParked(up)
    <3>1. up.place = "viewed" \/ up.place = "parked"
      BY <1>3, <1>4, <1>5, FitsFacts DEF IdleFits, Hosts
    <3> QED BY <3>1
  <2> QED BY <1>6, <1>7, <1>8, <2>1
<1>10. Handled(n)
  BY <1>1 DEF asked
<1> HIDE DEF n
<1>11. Held' /\ host' = n
  BY <1>1, <1>2, <1>9, <1>10, HandledFits
<1> QED BY <1>5, <1>9, <1>11, KeepsThrough

LEMMA LaunchFailsFits ==
  ASSUME Held, LaunchFails
  PROVE  Held' /\ Keeps(host, host')
<1> DEFINE n == [host EXCEPT !.launching = @ \ {host.gen}, !.runtime = "idle", !.gen = 0,
                             !.delivery = 0, !.turn = FALSE, !.tasks = FALSE]
<1>1. Arriving /\ UNCHANGED <<events, steered, calls>> /\ Handled(n)
  BY DEF LaunchFails, log, history
<1>2. /\ host \in Hosts /\ EventsFit(events) /\ Core(host, host.gen, events, agent)
      /\ host.starts \in Nat /\ host.runtime = "starting"
  BY <1>1, HeldFacts, CoreFacts DEF Arriving
<1>3. n \in Hosts
  <2>1. host.launching \ {host.gen} \in SUBSET Nat
    BY <1>2 DEF Hosts
  <2> QED BY <1>2, <2>1 DEF Hosts
<1>4. /\ n.runtime = "idle" /\ n.gen = 0 /\ n.starts = host.starts
      /\ n.delivery = 0 /\ n.inbox = host.inbox /\ ~n.turn /\ ~n.tasks
      /\ n.queue = host.queue /\ n.next = host.next /\ n.timers = host.timers
      /\ n.swallowed = host.swallowed /\ n.alarm = host.alarm
  BY <1>2 DEF Hosts
<1> HIDE DEF n
<1>5. /\ host.inbox = <<>> /\ 0 \notin DOMAIN events /\ IsFiniteSet(host.timers)
  BY <1>2 DEF Core, ProcessFits, IdleFits, Live
<1>6. /\ ~Live(n) /\ n.runtime = "idle" /\ n.gen = 0
      /\ n.gen \notin DOMAIN events /\ n.gen <= n.starts /\ host.starts <= n.starts
      /\ n.inbox = <<>> /\ IdleFits(n)
  BY <1>2, <1>4, <1>5 DEF Live, IdleFits
<1>7. Fits(n, host.gen, events, agent, steered, calls)
  BY <1>2, <1>3, <1>4, <1>6, QuietQueueFits
<1>8. Keeps(host, n)
  BY <1>4, SameQueueKeeps
<1> QED BY <1>1, <1>2, <1>7, <1>8, HandledFits

\* Where the texts are.
Accounted ==
  /\ said \in Seq(Texts) /\ IsInjective(said) /\ written \in 0..MaxTexts
  /\ calls \subseteq Texts /\ withdrawn \subseteq Texts
  /\ QueuedTexts(host) \union ToSet(said) \union steered \subseteq 1..written
  /\ ToSet(said) \intersect (QueuedTexts(host) \union steered) = {}
  /\ QueuedTexts(host) \intersect steered = {}
  /\ (1..written) \ calls
       \subseteq QueuedTexts(host) \union ToSet(said) \union steered \union withdrawn
                \union host.swallowed
  /\ Calm(host)

LEMMA KeptTexts ==
  ASSUME Accounted, Keeps(host, host'), UNCHANGED <<log, history>>
  PROVE  Accounted'
<1>1. /\ QueuedTexts(host') = QueuedTexts(host) /\ host'.swallowed = host.swallowed
      /\ Calm(host') /\ UNCHANGED <<said, steered, calls, withdrawn, written>>
  BY DEF Keeps, Accounted, log, history
<1> QED BY <1>1 DEF Accounted

\* What is neither in the queue nor elsewhere any more has gone to its new place.
LEMMA GainedTexts ==
  ASSUME Accounted, NEW new, Gains(host, host', new), new \subseteq 1..written',
         1..written \subseteq 1..written', written' \in 0..MaxTexts,
         new \intersect (QueuedTexts(host) \union ToSet(said)) = {},
         new \intersect steered' = {}, steered' \subseteq steered,
         calls \subseteq calls', calls' \subseteq Texts, UNCHANGED <<said, withdrawn>>,
         ((1..written') \ calls') \ ((1..written) \ calls) \subseteq new,
         (steered \ steered') \ calls \subseteq new
  PROVE  Accounted'
<1>1. /\ QueuedTexts(host') \subseteq QueuedTexts(host) \union new
      /\ QueuedTexts(host) \union host.swallowed \union new
           \subseteq QueuedTexts(host') \union host'.swallowed
      /\ Calm(host')
  BY DEF Gains, Accounted
<1>2. /\ said \in Seq(Texts) /\ IsInjective(said)
      /\ QueuedTexts(host) \union ToSet(said) \union steered \subseteq 1..written
      /\ ToSet(said) \intersect (QueuedTexts(host) \union steered) = {}
      /\ QueuedTexts(host) \intersect steered = {} /\ withdrawn \subseteq Texts
      /\ (1..written) \ calls
           \subseteq QueuedTexts(host) \union ToSet(said) \union steered \union withdrawn
                    \union host.swallowed
  BY DEF Accounted
<1>3. QueuedTexts(host') \union ToSet(said) \union steered' \subseteq 1..written'
  BY <1>1, <1>2
<1>4. /\ ToSet(said) \intersect (QueuedTexts(host') \union steered') = {}
      /\ QueuedTexts(host') \intersect steered' = {}
  BY <1>1, <1>2
<1>5. (1..written') \ calls'
        \subseteq QueuedTexts(host') \union ToSet(said) \union steered' \union withdrawn
                 \union host'.swallowed
  BY <1>1, <1>2
<1> QED BY <1>1, <1>2, <1>3, <1>4, <1>5 DEF Accounted

LEMMA NewTextFacts ==
  ASSUME Accounted, Write
  PROVE  /\ NewText \in Texts /\ NewText \notin 1..written /\ written' \in 0..MaxTexts
         /\ 1..written' = (1..written) \union {NewText}
         /\ NewText \notin QueuedTexts(host) \union ToSet(said) \union steered
<1>1. written \in Nat /\ written < MaxTexts /\ written' = written + 1
      /\ MaxTexts \in Nat /\ NewText = written + 1
  BY BoundsAssumption DEF Accounted, Write, NewText
<1>2. NewText \notin 1..written
  BY <1>1
<1> QED BY <1>1, <1>2 DEF Accounted, Texts

-------------------------------------------------------------------------------
(* The loop takes an event *)

LEMMA TakesFacts ==
  ASSUME Held, NEW g \in DOMAIN events, NEW what, Takes(g, what)
  PROVE  /\ Live(host) /\ host.gen = g /\ Head(events[host.gen]).is = what
         /\ host.gen \in DOMAIN events
         /\ events' = AfterFirst(host.gen) /\ EventsFit(events')
         /\ Fits(host, host.gen, events, agent, steered, calls) /\ EventsFit(events)
<1>1. EventsFit(events)
  BY DEF Held
<1>2. Live(host) /\ host.gen = g /\ Head(events[host.gen]).is = what /\ events' = AfterFirst(g)
  BY DEF Takes, Current
<1>3. EventsFit(AfterFirst(g))
  BY <1>1, AfterFirstFacts
<1> QED BY <1>1, <1>2, <1>3 DEF Held

LEMMA OnStartedFits ==
  ASSUME Held, Accounted, NEW g \in DOMAIN events, OnStarted(g)
  PROVE  Held' /\ Accounted'
<1>1. Takes(g, "started") /\ Handled(TurnStarted(host)) /\ UNCHANGED <<log, history>>
  BY DEF OnStarted
<1>2. UNCHANGED <<steered, calls>>
  BY <1>1 DEF log, history
<1>3. /\ Fits(TurnStarted(host), host.gen, events', agent, steered', calls')
      /\ Keeps(host, TurnStarted(host)) /\ EventsFit(events')
  BY <1>1, <1>2, TakesFacts, TurnStartedFits
<1>4. Held' /\ host' = TurnStarted(host)
  BY <1>1, <1>3, HandledFits
<1> QED BY <1>1, <1>3, <1>4, KeptTexts

LEMMA OnTasksFits ==
  ASSUME Held, Accounted, NEW g \in DOMAIN events, OnTasks(g)
  PROVE  Held' /\ Accounted'
<1> DEFINE n == TasksChanged(host, Head(events[g]).id)
<1>1. Takes(g, "tasks") /\ Handled(n) /\ UNCHANGED <<log, history>>
  BY DEF OnTasks
<1>2. UNCHANGED <<steered, calls>>
  BY <1>1 DEF log, history
<1>3. /\ Fits(n, host.gen, events', agent, steered', calls')
      /\ Keeps(host, n) /\ EventsFit(events')
  BY <1>1, <1>2, TakesFacts, TasksChangedFits
<1> HIDE DEF n
<1>4. Held' /\ host' = n
  BY <1>1, <1>3, HandledFits
<1> QED BY <1>1, <1>3, <1>4, KeptTexts

LEMMA OnCompletedFits ==
  ASSUME Held, Accounted, NEW g \in DOMAIN events, OnCompleted(g)
  PROVE  Held' /\ Accounted'
<1>1. Takes(g, "completed") /\ Handled(Completed(host)) /\ UNCHANGED <<log, history>>
  BY DEF OnCompleted
<1>2. UNCHANGED <<steered, calls>>
  BY <1>1 DEF log, history
<1>3. /\ Fits(Completed(host), host.gen, events', agent, steered', calls')
      /\ Keeps(host, Completed(host)) /\ EventsFit(events')
  BY <1>1, <1>2, TakesFacts, TurnCompletedFits
<1>4. Held' /\ host' = Completed(host)
  BY <1>1, <1>3, HandledFits
<1> QED BY <1>1, <1>3, <1>4, KeptTexts

LEMMA OnClosedFits ==
  ASSUME Held, Accounted, NEW g \in DOMAIN events, OnClosed(g)
  PROVE  Held' /\ Accounted'
<1>1. Takes(g, "closed") /\ Handled(Closed(host)) /\ UNCHANGED <<log, history>>
  BY DEF OnClosed
<1>2. UNCHANGED <<steered, calls>>
  BY <1>1 DEF log, history
<1>3. EventsFit(events') /\ Core(host, host.gen, events', agent)
  <2>1. /\ Live(host) /\ host.gen \in DOMAIN events /\ events' = AfterFirst(host.gen)
        /\ EventsFit(events') /\ EventsFit(events)
        /\ Fits(host, host.gen, events, agent, steered, calls)
    BY <1>1, TakesFacts
  <2> QED BY <2>1, TakenFits
<1>4. /\ Fits(Closed(host), host.gen, events', agent, steered', calls')
      /\ Keeps(host, Closed(host))
  BY <1>3, ClosedFits
<1>5. Held' /\ host' = Closed(host)
  BY <1>1, <1>3, <1>4, HandledFits
<1> QED BY <1>1, <1>4, <1>5, KeptTexts

LEMMA OnSteerAcceptedFits ==
  ASSUME Held, Accounted, NEW g \in DOMAIN events, OnSteerAccepted(g)
  PROVE  Held' /\ Accounted'
<1> DEFINE first == Head(events[host.gen])
           s == host.steers \ {first.texts}
           n == [host EXCEPT !.steers = s]
<1>1. Takes(g, "steerAccepted") /\ UNCHANGED <<log, history>>
      /\ Handled([host EXCEPT !.steers = @ \ {Head(events[g]).texts}])
  BY DEF OnSteerAccepted
<1>2. UNCHANGED <<steered, calls>>
  BY <1>1 DEF log, history
<1>3. /\ Live(host) /\ host.gen = g /\ first.is = "steerAccepted" /\ host.gen \in DOMAIN events
      /\ events' = AfterFirst(host.gen) /\ EventsFit(events') /\ EventsFit(events)
      /\ Fits(host, host.gen, events, agent, steered, calls)
  BY <1>1, TakesFacts
<1>4. Fits(n, host.gen, AfterFirst(host.gen), agent, steered, calls) /\ Keeps(host, n)
  <2>1. s = host.steers \/ s = host.steers \ {first.texts}
    OBVIOUS
  <2>2. first.is \in {"steerAccepted", "steerRejected"} /\ first = Head(events[host.gen])
    BY <1>3
  <2> HIDE DEF s, first
  <2> QED BY <1>3, <2>1, <2>2, SettledFits
<1>5. Handled(n)
  BY <1>1, <1>3
<1> HIDE DEF n
<1>6. Held' /\ host' = n
  BY <1>2, <1>3, <1>4, <1>5, HandledFits
<1> QED BY <1>1, <1>4, <1>6, KeptTexts

LEMMA OnSteerRejectedFits ==
  ASSUME Held, Accounted, NEW g \in DOMAIN events, OnSteerRejected(g)
  PROVE  Held' /\ Accounted'
<1> DEFINE first == Head(events[host.gen])
           texts == first.texts
           s == host.steers \ {texts}
           n == [host EXCEPT !.steers = s]
           next == SendTurn(n, texts)
           rest == Without(steered, texts)
<1>1. /\ Takes(g, "steerRejected") /\ UNCHANGED <<said, history>>
      /\ steered' = steered \ ToSet(Head(events[g]).texts)
      /\ \/ /\ Head(events[g]).texts \in host.steers
            /\ Handled(SendTurn([host EXCEPT !.steers = @ \ {Head(events[g]).texts}],
                                Head(events[g]).texts))
         \/ Head(events[g]).texts \notin host.steers /\ UNCHANGED <<host, agent>>
  BY DEF OnSteerRejected
<1>2. UNCHANGED <<calls, withdrawn, written>>
  BY <1>1 DEF history
<1>3. /\ Live(host) /\ host.gen = g /\ first.is = "steerRejected" /\ host.gen \in DOMAIN events
      /\ events' = AfterFirst(host.gen) /\ EventsFit(events') /\ EventsFit(events)
      /\ Fits(host, host.gen, events, agent, steered, calls)
  BY <1>1, TakesFacts
<1>4. steered' = rest
  BY <1>1, <1>3 DEF Without
<1>5. \/ texts \in host.steers /\ Handled(next)
      \/ texts \notin host.steers /\ UNCHANGED <<host, agent>>
  BY <1>1, <1>3
<1>6. /\ Fits(n, host.gen, AfterFirst(host.gen), agent, rest, calls) /\ Keeps(host, n)
      /\ texts \in Seq(Texts) /\ IsInjective(texts) /\ ToSet(texts) \subseteq steered
      /\ texts \in host.steers \/ ToSet(texts) \subseteq calls
  <2>1. s = host.steers \ {first.texts}
    OBVIOUS
  <2>2. first.is \in {"steerAccepted", "steerRejected"} /\ first = Head(events[host.gen])
    BY <1>3
  <2> HIDE DEF s, first
  <2> QED BY ZenonT(60), <1>3, <2>1, <2>2, SettledFits
<1>7. Fits(host, host.gen, AfterFirst(host.gen), agent, rest, calls)
  <2>1. [host EXCEPT !.steers = host.steers] = host
    <3>1. host \in Hosts
      BY HeldFacts
    <3> QED BY <3>1 DEF Hosts
  <2>2. first.is \in {"steerAccepted", "steerRejected"} /\ first = Head(events[host.gen])
    BY <1>3
  <2> HIDE DEF first
  <2>4. Fits([host EXCEPT !.steers = host.steers], host.gen, AfterFirst(host.gen), agent,
             rest, calls)
    BY <1>3, <2>2, SettledFits
  <2> QED BY <2>1, <2>4
<1>8. /\ ToSet(texts) \intersect QueuedTexts(n) = {} /\ ToSet(texts) \intersect ToSet(said) = {}
      /\ ToSet(texts) \intersect QueuedTexts(host) = {} /\ ToSet(texts) \subseteq 1..written
  BY <1>6 DEF Accounted, Keeps
<1>9. /\ Fits(next, host.gen, AfterFirst(host.gen), agent, rest, calls)
      /\ Gains(host, next, ToSet(texts))
  <2> HIDE DEF n, texts, rest
  <2> QED BY <1>6, <1>8, SendTurnFits, KeepsThenGains
<1> HIDE DEF next, n, texts, rest, first
<1>10. CASE texts \in host.steers /\ Handled(next)
  <2>1. Held' /\ host' = next
    BY <1>2, <1>3, <1>4, <1>9, <1>10, HandledFits
  <2>2. Accounted'
    <3>1. /\ ToSet(texts) \intersect steered' = {} /\ steered' \subseteq steered
          /\ (steered \ steered') \ calls \subseteq ToSet(texts)
      BY <1>4 DEF rest, Without
    <3>2. Gains(host, host', ToSet(texts)) /\ ToSet(texts) \subseteq 1..written'
      BY <1>2, <1>8, <1>9, <2>1
    <3>3. written' \in 0..MaxTexts /\ calls' \subseteq Texts
      BY <1>2 DEF Accounted
    <3>4. /\ ToSet(texts) \intersect (QueuedTexts(host) \union ToSet(said)) = {}
          /\ ((1..written') \ calls') \ ((1..written) \ calls) \subseteq ToSet(texts)
          /\ UNCHANGED <<said, withdrawn>> /\ calls \subseteq calls'
          /\ 1..written \subseteq 1..written'
      BY <1>1, <1>2, <1>8
    <3> QED BY <3>1, <3>2, <3>3, <3>4, GainedTexts
  <2> QED BY <2>1, <2>2
<1>11. CASE texts \notin host.steers /\ UNCHANGED <<host, agent>>
  <2>1. Held'
    <3>1. Fits(host', host'.gen, events', agent', steered', calls')
      BY <1>2, <1>3, <1>4, <1>7, <1>11
    <3>2. agent'.open => agent'.prompts > 0
      BY <1>11 DEF Held
    <3> QED BY <1>3, <3>1, <3>2 DEF Held
  <2>2. Accounted'
    <3>1. /\ {} \intersect steered' = {} /\ steered' \subseteq steered
          /\ (steered \ steered') \ calls \subseteq {}
      BY <1>4, <1>6, <1>11 DEF rest, Without
    <3>2. Gains(host, host', {}) /\ {} \subseteq 1..written'
      BY <1>11 DEF Gains
    <3>3. written' \in 0..MaxTexts /\ calls' \subseteq Texts
      BY <1>2 DEF Accounted
    <3>4. /\ {} \intersect (QueuedTexts(host) \union ToSet(said)) = {}
          /\ ((1..written') \ calls') \ ((1..written) \ calls) \subseteq {}
          /\ UNCHANGED <<said, withdrawn>> /\ calls \subseteq calls'
          /\ 1..written \subseteq 1..written'
      BY <1>1, <1>2
    <3> QED BY <3>1, <3>2, <3>3, <3>4, GainedTexts
  <2> QED BY <2>1, <2>2
<1> QED BY <1>5, <1>10, <1>11

LEMMA JoinedTexts ==
  ASSUME NEW s \in Seq(Texts), NEW t \in Seq(Texts), IsInjective(s), IsInjective(t),
         ToSet(s) \intersect ToSet(t) = {}
  PROVE  /\ s \o t \in Seq(Texts) /\ IsInjective(s \o t)
         /\ ToSet(s \o t) = ToSet(s) \union ToSet(t)
<1> DEFINE u == s \o t
<1>1. /\ u \in Seq(Texts) /\ DOMAIN u = 1..(Len(s) + Len(t))
      /\ \A i \in DOMAIN s : u[i] = s[i]
      /\ \A i \in DOMAIN t : Len(s) + i \in DOMAIN u /\ u[Len(s) + i] = t[i]
      /\ \A i \in DOMAIN u : \/ i \in DOMAIN s /\ u[i] = s[i]
                             \/ i - Len(s) \in DOMAIN t /\ u[i] = t[i - Len(s)]
  BY ConcatElements
<1> HIDE DEF u
<1>2. /\ DOMAIN s = 1..Len(s) /\ Len(s) \in Nat
      /\ DOMAIN t = 1..Len(t) /\ Len(t) \in Nat
  BY LenProperties
<1>3. /\ \A v : v \in ToSet(s) <=> \E i \in DOMAIN s : s[i] = v
      /\ \A v : v \in ToSet(t) <=> \E i \in DOMAIN t : t[i] = v
      /\ \A v : v \in ToSet(u) <=> \E i \in DOMAIN u : u[i] = v
  BY DEF ToSet
<1>4. \A v : v \in ToSet(u) => v \in ToSet(s) \union ToSet(t)
  BY <1>1, <1>3
<1>5. \A v : v \in ToSet(s) => v \in ToSet(u)
  <2>1. DOMAIN s \subseteq DOMAIN u
    BY <1>1, <1>2
  <2> QED BY <1>1, <1>3, <2>1
<1>6. \A v : v \in ToSet(t) => v \in ToSet(u)
  BY <1>1, <1>3
<1>7. ASSUME NEW i \in DOMAIN u, NEW j \in DOMAIN u, u[i] = u[j] PROVE i = j
  <2>1. i \in Nat /\ j \in Nat
    BY <1>1, <1>2
  <2>2. CASE i \in DOMAIN s /\ u[i] = s[i] /\ j \in DOMAIN s /\ u[j] = s[j]
    BY <1>7, <2>2 DEF IsInjective
  <2>3. CASE i \in DOMAIN s /\ u[i] = s[i] /\ j - Len(s) \in DOMAIN t /\ u[j] = t[j - Len(s)]
    BY <1>3, <1>7, <2>3
  <2>4. CASE j \in DOMAIN s /\ u[j] = s[j] /\ i - Len(s) \in DOMAIN t /\ u[i] = t[i - Len(s)]
    BY <1>3, <1>7, <2>4
  <2>5. CASE /\ i - Len(s) \in DOMAIN t /\ u[i] = t[i - Len(s)]
             /\ j - Len(s) \in DOMAIN t /\ u[j] = t[j - Len(s)]
    <3>1. i - Len(s) = j - Len(s)
      BY <1>7, <2>5 DEF IsInjective
    <3> QED BY <1>2, <2>1, <3>1
  <2> QED BY <1>1, <2>2, <2>3, <2>4, <2>5
<1>8. IsInjective(u)
  BY <1>7 DEF IsInjective
<1>9. ToSet(u) = ToSet(s) \union ToSet(t)
  BY <1>4, <1>5, <1>6
<1> QED BY <1>1, <1>8, <1>9 DEF u

LEMMA OnAcceptedFits ==
  ASSUME Held, Accounted, NEW g \in DOMAIN events, OnAccepted(g)
  PROVE  Held' /\ Accounted'
<1> DEFINE at == Accepted(host, Head(events[host.gen]).id)
           k == First(at)
           texts == host.queue[k].texts
           n == [Take(host, k) EXCEPT !.delivery = 0, !.turn = TRUE, !.idle = 0]
<1>1. Takes(g, "accepted") /\ UNCHANGED <<steered, history>>
  BY DEF OnAccepted
<1>2. UNCHANGED <<calls, withdrawn, written>>
  BY <1>1 DEF history
<1>3. /\ Live(host) /\ host.gen = g /\ Head(events[host.gen]).is = "accepted"
      /\ host.gen \in DOMAIN events
      /\ events' = AfterFirst(host.gen) /\ EventsFit(events') /\ EventsFit(events)
      /\ Fits(host, host.gen, events, agent, steered, calls)
  <2> HIDE DEF n, texts, k, at
  <2> QED BY ZenonT(60), <1>1, TakesFacts
<1>4. /\ at # {} /\ Fits(n, host.gen, AfterFirst(host.gen), agent, steered, calls)
      /\ QueuedTexts(n) = QueuedTexts(host) \ ToSet(texts)
      /\ ToSet(texts) \subseteq QueuedTexts(host)
      /\ texts \in Seq(Texts) /\ IsInjective(texts)
      /\ n.swallowed = host.swallowed /\ (Calm(host) => Calm(n))
  <2> USE <1>3
  <2> QED BY ZenonT(60), AcceptedFits
<1>5. Handled(n) /\ said' = said \o texts
  BY ZenonT(60), <1>3, <1>4 DEF OnAccepted
<1> HIDE DEF at, k, texts, n
<1>6. Held' /\ host' = n
  BY <1>1, <1>2, <1>3, <1>4, <1>5, HandledFits
<1>7. /\ said \in Seq(Texts) /\ IsInjective(said) /\ ToSet(said) \intersect ToSet(texts) = {}
  BY <1>4 DEF Accounted
<1>8. /\ said' \in Seq(Texts) /\ IsInjective(said')
      /\ ToSet(said') = ToSet(said) \union ToSet(texts)
  BY <1>4, <1>5, <1>7, JoinedTexts
<1>9. Accounted'
  <2>1. /\ QueuedTexts(host') = QueuedTexts(host) \ ToSet(texts)
        /\ host'.swallowed = host.swallowed /\ Calm(host')
    BY <1>4, <1>6 DEF Accounted
  <2> QED BY <1>1, <1>2, <1>4, <1>8, <2>1 DEF Accounted
<1> QED BY <1>6, <1>9

LEMMA StaleEventFits ==
  ASSUME Held, Accounted, StaleEvent
  PROVE  Held' /\ Accounted'
<1>1. PICK g \in DOMAIN events : ~Current(g) /\ events' = AfterFirst(g)
  BY DEF StaleEvent
<1>2. UNCHANGED <<host, agent, log, history>>
  BY DEF StaleEvent
<1>3. UNCHANGED <<steered, calls>>
  BY <1>2 DEF log, history
<1>4. /\ Fits(host, host.gen, events, agent, steered, calls) /\ EventsFit(events)
      /\ Core(host, host.gen, events, agent)
  BY HeldFacts
<1>5. g # host.gen
  <2>1. CASE Live(host)
    BY <1>1, <2>1 DEF Current
  <2>2. CASE ~Live(host)
    BY <1>4, <2>2 DEF Core, ProcessFits
  <2> QED BY <2>1, <2>2
<1>6. /\ DOMAIN AfterFirst(g) \subseteq DOMAIN events /\ EventsFit(AfterFirst(g))
      /\ Untaken(AfterFirst(g), host.gen) = Untaken(events, host.gen)
  BY <1>4, <1>5, AfterFirstFacts
<1>7. Core(host, host.gen, AfterFirst(g), agent)
  BY <1>4, <1>6 DEF Core, ProcessFits, GivenFit, EventsFit
<1>8. Fits(host, host.gen, AfterFirst(g), agent, steered, calls)
  BY <1>4, <1>6, <1>7 DEF Fits, NewsOf
<1>9. Held'
  BY <1>1, <1>2, <1>3, <1>6, <1>8 DEF Held
<1>10. Keeps(host, host')
  BY <1>2 DEF Keeps
<1> QED BY <1>2, <1>9, <1>10, KeptTexts

-------------------------------------------------------------------------------
(* People act *)

\* What a step changes of the thread alone, and of no text.
LEMMA PlainFits ==
  ASSUME Held, Accounted, NEW n, Fits(n, host.gen, events, agent, steered, calls),
         Keeps(host, n), Handled(n), UNCHANGED <<events, log, history>>
  PROVE  Held' /\ Accounted'
<1>1. UNCHANGED <<steered, calls>>
  BY DEF log, history
<1>2. Fits(n, host.gen, events', agent, steered', calls') /\ EventsFit(events')
  BY <1>1, HeldFacts
<1>3. Held' /\ host' = n
  BY <1>2, HandledFits
<1> QED BY <1>3, KeptTexts

\* Where the thread is shown, and what is selected for it.
LEMMA FlagsFit ==
  ASSUME Held, NEW n \in Hosts, Alike(host, n), n.turn = host.turn,
         n.idle = 0 \/ n.idle = host.idle
  PROVE  Fits(n, host.gen, events, agent, steered, calls) /\ Keeps(host, n)
BY AlikeFits, HeldFacts

LEMMA SelectFits ==
  ASSUME Held, Accounted, Select
  PROVE  Held' /\ Accounted'
<1> DEFINE a == [host EXCEPT !.place = "viewed"]
           b == Dispatch(a)
           c == IF host.queue # <<>> THEN EnsureStarted(b) ELSE b
           n == IF host.place = "none" THEN a ELSE Reschedule(c)
<1>1. Handled(n) /\ UNCHANGED <<events, log, history>>
  BY DEF Select
<1>2. host \in Hosts
  BY HeldFacts
<1>3. a \in Hosts /\ Alike(host, a) /\ a.turn = host.turn /\ a.idle = host.idle
  BY <1>2 DEF Hosts, Alike
<1> HIDE DEF a
<1>4. Fits(a, host.gen, events, agent, steered, calls) /\ Keeps(host, a)
  BY <1>3, FlagsFit
<1>5. Fits(b, host.gen, events, agent, steered, calls) /\ Keeps(host, b)
  BY <1>4, DispatchFits, KeepsThrough
<1> HIDE DEF b
<1>6. Fits(c, host.gen, events, agent, steered, calls) /\ Keeps(host, c)
  BY <1>5, EnsureStartedFits, KeepsThrough
<1> HIDE DEF c
<1>7. Fits(n, host.gen, events, agent, steered, calls) /\ Keeps(host, n)
  BY <1>4, <1>6, RescheduleFits, KeepsThrough
<1> HIDE DEF n
<1> QED BY <1>1, <1>7, PlainFits

LEMMA UnselectFits ==
  ASSUME Held, Accounted, Unselect
  PROVE  Held' /\ Accounted'
<1> DEFINE a == [host EXCEPT !.place = "parked", !.idle = IF HasWork(host) THEN 0 ELSE @]
           n == MarkIdle(Reschedule(a))
<1>1. /\ Handled(n) \/ (host.runtime = "idle" /\ ~HasWork(host) /\ Handled(Evict(host)))
      /\ UNCHANGED <<events, log, history>>
  BY DEF Unselect
<1>2. host \in Hosts /\ Core(host, host.gen, events, agent)
  BY HeldFacts
<1>3. a \in Hosts /\ Alike(host, a) /\ a.turn = host.turn /\ (a.idle = 0 \/ a.idle = host.idle)
  BY <1>2 DEF Hosts, Alike
<1> HIDE DEF a
<1>4. Fits(a, host.gen, events, agent, steered, calls) /\ Keeps(host, a)
  BY <1>3, FlagsFit
<1>5. /\ Fits(Reschedule(a), host.gen, events, agent, steered, calls)
      /\ Keeps(host, Reschedule(a))
  BY <1>4, RescheduleFits, KeepsThrough
<1>6. Fits(n, host.gen, events, agent, steered, calls) /\ Keeps(host, n)
  BY <1>5, MarkIdleFits, KeepsThrough
<1> HIDE DEF n
<1>7. CASE Handled(n)
  BY <1>1, <1>6, <1>7, PlainFits
<1>8. CASE ~HasWork(host) /\ Handled(Evict(host))
  <2>1. host.queue = <<>>
    BY <1>8 DEF HasWork
  <2>2. Fits(Evict(host), host.gen, events, agent, steered, calls) /\ Keeps(host, Evict(host))
    BY <1>2, <2>1, EvictFits
  <2> QED BY <1>1, <1>8, <2>2, PlainFits
<1> QED BY <1>1, <1>7, <1>8

\* What is written is in the queue when the handler ends.
LEMMA WrittenTexts ==
  ASSUME Accounted, Write, Gains(host, host', {NewText}), UNCHANGED <<said, steered, withdrawn>>,
         calls \subseteq calls', calls' \subseteq Texts
  PROVE  Accounted'
<1>1. /\ written' \in 0..MaxTexts /\ 1..written' = (1..written) \union {NewText}
      /\ NewText \notin QueuedTexts(host) \union ToSet(said) \union steered
  BY NewTextFacts
<1>2. /\ {NewText} \subseteq 1..written' /\ 1..written \subseteq 1..written'
      /\ {NewText} \intersect (QueuedTexts(host) \union ToSet(said)) = {}
      /\ {NewText} \intersect steered' = {} /\ steered' \subseteq steered
      /\ ((1..written') \ calls') \ ((1..written) \ calls) \subseteq {NewText}
      /\ (steered \ steered') \ calls \subseteq {NewText}
  BY <1>1
<1>3. UNCHANGED <<said, withdrawn>>
  OBVIOUS
<1> QED BY <1>1, <1>2, <1>3, GainedTexts

LEMMA SendFits ==
  ASSUME Held, Accounted, Send
  PROVE  Held' /\ Accounted'
<1> DEFINE n == SendTurn(host, <<NewText>>)
<1>1. /\ Write /\ Handled(n) /\ UNCHANGED <<events, said, steered, calls, withdrawn>>
  BY DEF Send, log
<1>2. /\ <<NewText>> \in Seq(Texts) /\ IsInjective(<<NewText>>) /\ ToSet(<<NewText>>) = {NewText}
      /\ ToSet(<<NewText>>) \intersect QueuedTexts(host) = {}
  BY <1>1, NewTextFacts, OneText
<1>3. Fits(n, host.gen, events, agent, steered, calls) /\ Gains(host, n, {NewText})
  BY <1>2, HeldFacts, SendTurnFits
<1> HIDE DEF n
<1>4. Held' /\ host' = n
  BY <1>1, <1>3, HeldFacts, HandledFits
<1>5. calls \subseteq calls' /\ calls' \subseteq Texts
  BY <1>1 DEF Accounted
<1> QED BY <1>1, <1>3, <1>4, <1>5, WrittenTexts

LEMMA ScheduleFits ==
  ASSUME Held, Accounted, Schedule
  PROVE  Held' /\ Accounted'
<1> DEFINE a == Push(host, <<NewText>>, "later", "user")
           b == EnsureStarted(a)
           n == Reschedule(b)
<1>1. /\ Write /\ Handled(n) /\ UNCHANGED <<events, said, steered, calls, withdrawn>>
  BY DEF Schedule, log
<1>2. /\ <<NewText>> \in Seq(Texts) /\ IsInjective(<<NewText>>) /\ ToSet(<<NewText>>) = {NewText}
      /\ ToSet(<<NewText>>) \intersect QueuedTexts(host) = {}
  BY <1>1, NewTextFacts, OneText
<1>3. /\ Fits(a, host.gen, events, agent, steered, calls)
      /\ QueuedTexts(a) = QueuedTexts(host) \union {NewText} /\ a.swallowed = host.swallowed
  BY SMTT(60), <1>2, HeldFacts, PushFits
<1> HIDE DEF a
<1>4. Fits(b, host.gen, events, agent, steered, calls) /\ Keeps(a, b)
  BY <1>3, EnsureStartedFits
<1> HIDE DEF b
<1>5. Fits(n, host.gen, events, agent, steered, calls) /\ Keeps(b, n) /\ Calm(n)
  BY <1>4, RescheduleFits
<1> HIDE DEF n
<1>6. Gains(host, n, {NewText})
  BY <1>3, <1>4, <1>5 DEF Gains, Keeps
<1>7. Held' /\ host' = n
  BY <1>1, <1>5, HeldFacts, HandledFits
<1>8. calls \subseteq calls' /\ calls' \subseteq Texts
  BY <1>1 DEF Accounted
<1> QED BY <1>1, <1>6, <1>7, <1>8, WrittenTexts

\* A text that was just written is shown as a steer.
LEMMA SteeredTexts ==
  ASSUME Accounted, Write, Keeps(host, host'), steered' = steered \union {NewText},
         UNCHANGED <<said, withdrawn>>, calls \subseteq calls', calls' \subseteq Texts
  PROVE  Accounted'
<1>1. /\ written' \in 0..MaxTexts /\ 1..written' = (1..written) \union {NewText}
      /\ NewText \notin QueuedTexts(host) \union ToSet(said) \union steered
  BY NewTextFacts
<1>2. /\ QueuedTexts(host') = QueuedTexts(host) /\ host'.swallowed = host.swallowed
      /\ Calm(host')
  BY DEF Keeps, Accounted
<1> QED BY <1>1, <1>2 DEF Accounted

LEMMA SteerFits ==
  ASSUME Held, Accounted, Steer
  PROVE  Held' /\ Accounted'
<1> DEFINE texts == <<NewText>>
           s == host.steers \union {texts}
           n == [Steered(host, texts) EXCEPT !.steers = s]
<1>1. /\ CanSteer(host) /\ Write /\ Handled(Steered(host, texts))
      /\ steered' = steered \union {NewText} /\ UNCHANGED <<events, said, calls, withdrawn>>
  BY DEF Steer
<1>2. /\ texts \in Seq(Texts) /\ IsInjective(texts) /\ ToSet(texts) = {NewText}
      /\ ToSet(texts) \intersect steered = {}
  BY <1>1, NewTextFacts, OneText
<1>3. /\ host \in Hosts /\ Live(host) /\ host.steers \in SUBSET Seq(Texts)
      /\ Fits(host, host.gen, events, agent, steered, calls) /\ EventsFit(events)
  BY <1>1, HeldFacts DEF CanSteer, Hosts
<1>4. Steered(host, texts) = n
  BY <1>3 DEF Steered, Hosts
<1>5. s \in SUBSET Seq(Texts) /\ host.steers \subseteq s /\ texts \in s
  BY <1>2, <1>3
<1> HIDE DEF texts, s
<1>6. Fits(n, host.gen, events, agent, With(steered, texts), calls) /\ Keeps(host, n)
  BY <1>2, <1>3, <1>5, SteeredFits
<1> HIDE DEF n
<1>7. steered' = With(steered, texts)
  BY <1>1, <1>2 DEF With
<1>8. Fits(n, host.gen, events', agent, steered', calls') /\ EventsFit(events')
  BY <1>1, <1>3, <1>6, <1>7
<1>9. Held' /\ host' = n
  BY <1>1, <1>4, <1>8, HandledFits
<1>10. calls \subseteq calls' /\ calls' \subseteq Texts
  BY <1>1 DEF Accounted
<1> QED BY <1>1, <1>6, <1>9, <1>10, SteeredTexts

\* A queued message becomes a steer.
LEMMA QueuedSteerFits ==
  ASSUME Held, Accounted, NEW i \in Takeable(host), CanSteer(host),
         Handled(Reschedule(Steered(Take(host, i), host.queue[i].texts))),
         steered' = steered \union ToSet(host.queue[i].texts),
         UNCHANGED <<events, said, history>>
  PROVE  Held' /\ Accounted'
<1> DEFINE a == Take(host, i)
           texts == host.queue[i].texts
           s == a.steers \union {texts}
           b == [Steered(a, texts) EXCEPT !.steers = s]
           n == Reschedule(b)
<1>1. UNCHANGED <<calls, withdrawn, written>>
  BY DEF history
<1>2. /\ Fits(a, host.gen, events, agent, steered, calls)
      /\ QueuedTexts(a) = QueuedTexts(host) \ ToSet(texts)
      /\ ToSet(texts) \subseteq QueuedTexts(host)
      /\ texts \in Seq(Texts) /\ IsInjective(texts)
      /\ a.swallowed = host.swallowed /\ a.runtime = host.runtime
  BY HeldFacts, TakeFits
<1> HIDE DEF a, texts
<1>3. /\ a \in Hosts /\ Live(a) /\ a.steers \in SUBSET Seq(Texts)
      /\ ToSet(texts) \intersect steered = {}
  <2>1. a \in Hosts
    BY <1>2, FitsFacts
  <2>2. QueuedTexts(host) \intersect steered = {} /\ Live(a)
    BY <1>2 DEF Accounted, CanSteer, Live
  <2> QED BY <1>2, <2>1, <2>2 DEF Hosts
<1>4. Steered(a, texts) = b
  BY <1>3 DEF Steered, Hosts
<1>5. s \in SUBSET Seq(Texts) /\ a.steers \subseteq s /\ texts \in s
  BY <1>2, <1>3
<1> HIDE DEF s
<1>6. Fits(b, host.gen, events, agent, With(steered, texts), calls) /\ Keeps(a, b)
  BY ZenonT(60), <1>2, <1>3, <1>5, SteeredFits
<1> HIDE DEF b
<1>7. /\ Fits(n, host.gen, events, agent, With(steered, texts), calls) /\ Keeps(b, n)
      /\ Calm(n)
  BY <1>6, RescheduleFits
<1>8. Handled(n)
  BY <1>4 DEF a, texts
<1> HIDE DEF n
<1>9. steered' = With(steered, texts)
  BY DEF With, texts
<1>10. Fits(n, host.gen, events', agent, steered', calls') /\ EventsFit(events')
  BY <1>1, <1>7, <1>9, HeldFacts
<1>11. Held' /\ host' = n
  BY <1>8, <1>10, HandledFits
<1>12. /\ QueuedTexts(host') = QueuedTexts(host) \ ToSet(texts)
       /\ host'.swallowed = host.swallowed /\ Calm(host')
  BY <1>2, <1>6, <1>7, <1>11 DEF Keeps
<1>13. Accounted'
  BY <1>1, <1>2, <1>3, <1>9, <1>12 DEF Accounted, With
<1> QED BY <1>11, <1>13

LEMMA SteerQueuedFits ==
  ASSUME Held, Accounted, SteerQueued
  PROVE  Held' /\ Accounted'
<1>1. PICK i \in Takeable(host) :
        LET texts == host.queue[i].texts
            taken == Take(host, i)
        IN IF CanSteer(host)
           THEN Handled(Reschedule(Steered(taken, texts))) /\ steered' = steered \union ToSet(texts)
           ELSE Handled(Reschedule(SendTurn(taken, texts))) /\ UNCHANGED steered
  BY DEF SteerQueued
<1>2. UNCHANGED <<events, said, history>>
  BY DEF SteerQueued
<1>3. CASE CanSteer(host)
  BY <1>1, <1>2, <1>3, QueuedSteerFits
<1>4. CASE ~CanSteer(host)
  <2> DEFINE a == Take(host, i)
             texts == host.queue[i].texts
             b == SendTurn(a, texts)
             n == Reschedule(b)
  <2>1. Handled(n) /\ UNCHANGED steered
    BY <1>1, <1>4
  <2>2. /\ Fits(a, host.gen, events, agent, steered, calls)
        /\ QueuedTexts(a) = QueuedTexts(host) \ ToSet(texts)
        /\ ToSet(texts) \subseteq QueuedTexts(host)
        /\ texts \in Seq(Texts) /\ IsInjective(texts) /\ a.swallowed = host.swallowed
        /\ Calm(host) => Calm(a)
    BY HeldFacts, TakeFits
  <2>3. ToSet(texts) \intersect QueuedTexts(a) = {}
    BY <2>2
  <2> HIDE DEF a, texts
  <2>4. Fits(b, host.gen, events, agent, steered, calls) /\ Gains(a, b, ToSet(texts))
    BY <2>2, <2>3, SendTurnFits
  <2> HIDE DEF b
  <2>5. Fits(n, host.gen, events, agent, steered, calls) /\ Keeps(b, n) /\ Calm(n)
    BY <2>4, RescheduleFits
  <2> HIDE DEF n
  <2>6. UNCHANGED <<calls, withdrawn, written>>
    BY <1>2 DEF history
  <2>7. Held' /\ host' = n
    BY <1>2, <2>1, <2>5, <2>6, HeldFacts, HandledFits
  <2>8. Gains(host, host', {})
    BY <2>2, <2>4, <2>5, <2>7 DEF Gains, Keeps
  <2>9. Accounted'
    <3>1. written' \in 0..MaxTexts /\ calls' \subseteq Texts
      BY <2>6 DEF Accounted
    <3>2. /\ {} \intersect steered' = {} /\ steered' \subseteq steered
          /\ (steered \ steered') \ calls \subseteq {} /\ {} \subseteq 1..written'
          /\ {} \intersect (QueuedTexts(host) \union ToSet(said)) = {}
          /\ ((1..written') \ calls') \ ((1..written) \ calls) \subseteq {}
          /\ UNCHANGED <<said, withdrawn>> /\ calls \subseteq calls'
          /\ 1..written \subseteq 1..written'
      BY <1>2, <2>1, <2>6
    <3> QED BY <2>8, <3>1, <3>2, GainedTexts
  <2> QED BY <2>7, <2>9
<1> QED BY <1>3, <1>4

LEMMA DropQueuedFits ==
  ASSUME Held, Accounted, DropQueued
  PROVE  Held' /\ Accounted'
<1>1. PICK i \in Takeable(host) :
        /\ Handled(Reschedule(Take(host, i)))
        /\ withdrawn' = withdrawn \union ToSet(host.queue[i].texts)
  BY DEF DropQueued
<1>2. UNCHANGED <<events, said, steered, calls, written>>
  BY DEF DropQueued, log
<1> DEFINE a == Take(host, i)
           texts == host.queue[i].texts
           n == Reschedule(a)
<1>3. /\ Fits(a, host.gen, events, agent, steered, calls)
      /\ QueuedTexts(a) = QueuedTexts(host) \ ToSet(texts)
      /\ ToSet(texts) \subseteq QueuedTexts(host)
      /\ texts \in Seq(Texts) /\ a.swallowed = host.swallowed
  BY HeldFacts, TakeFits
<1> HIDE DEF a
<1>4. Fits(n, host.gen, events, agent, steered, calls) /\ Keeps(a, n) /\ Calm(n)
  BY <1>3, RescheduleFits
<1>5. Handled(n) /\ withdrawn' = withdrawn \union ToSet(texts)
  BY <1>1 DEF a
<1> HIDE DEF n, texts
<1>6. Held' /\ host' = n
  BY <1>2, <1>4, <1>5, HeldFacts, HandledFits
<1>7. /\ QueuedTexts(host') = QueuedTexts(host) \ ToSet(texts)
      /\ host'.swallowed = host.swallowed /\ Calm(host')
  BY <1>3, <1>4, <1>6 DEF Keeps
<1>8. ToSet(texts) \subseteq Texts
  <2>1. \A j \in DOMAIN texts : texts[j] \in Texts
    BY <1>3, ElementOfSeq, LenProperties
  <2> QED BY <2>1 DEF ToSet
<1>9. Accounted'
  BY <1>2, <1>3, <1>5, <1>7, <1>8 DEF Accounted
<1> QED BY <1>6, <1>9

LEMMA MoveQueuedFits ==
  ASSUME Held, Accounted, MoveQueued
  PROVE  Held' /\ Accounted'
<1>1. PICK i \in DOMAIN host.queue, j \in DOMAIN host.queue :
        Handled([host EXCEPT !.queue = InsertAt(RemoveAt(@, i), j, @[i])])
  BY DEF MoveQueued
<1> DEFINE n == [host EXCEPT !.queue = InsertAt(RemoveAt(@, i), j, @[i])]
<1>2. Fits(n, host.gen, events, agent, steered, calls) /\ Keeps(host, n)
  BY HeldFacts, MovedFits
<1>3. Handled(n) /\ UNCHANGED <<events, log, history>>
  BY <1>1 DEF MoveQueued
<1> HIDE DEF n
<1> QED BY <1>2, <1>3, PlainFits

LEMMA FlagStepFits ==
  ASSUME Held, Accounted, NEW n \in Hosts, Alike(host, n), n.turn = host.turn,
         n.idle = host.idle, Handled(n), UNCHANGED <<events, log, history>>
  PROVE  Held' /\ Accounted'
BY FlagsFit, PlainFits

LEMMA ChangeSettingsFits ==
  ASSUME Held, Accounted, ChangeSettings
  PROVE  Held' /\ Accounted'
<1> DEFINE n == [host EXCEPT !.settings = "model"]
<1>1. Handled(n) /\ UNCHANGED <<events, log, history>>
  BY DEF ChangeSettings
<1>2. host \in Hosts
  BY HeldFacts
<1>3. n \in Hosts /\ Alike(host, n) /\ n.turn = host.turn /\ n.idle = host.idle
  BY <1>2 DEF Hosts, Alike
<1> HIDE DEF n
<1> QED BY <1>1, <1>3, FlagStepFits

LEMMA MoveByOwnTurnFits ==
  ASSUME Held, Accounted, MoveByOwnTurn
  PROVE  Held' /\ Accounted'
<1> DEFINE n == [host EXCEPT !.settings = "cwd"]
<1>1. Handled(n) /\ UNCHANGED <<events, log, history>>
  BY DEF MoveByOwnTurn
<1>2. host \in Hosts
  BY HeldFacts
<1>3. n \in Hosts /\ Alike(host, n) /\ n.turn = host.turn /\ n.idle = host.idle
  BY <1>2 DEF Hosts, Alike
<1> HIDE DEF n
<1> QED BY <1>1, <1>3, FlagStepFits

LEMMA PickProviderFits ==
  ASSUME Held, Accounted, PickProvider
  PROVE  Held' /\ Accounted'
<1> DEFINE n == [host EXCEPT !.relay = TRUE,
                             !.settings = IF host.runtime = "idle" THEN @ ELSE "model"]
<1>1. Handled(n) /\ UNCHANGED <<events, log, history>>
  BY DEF PickProvider
<1>2. host \in Hosts
  BY HeldFacts
<1>3. n \in Hosts /\ Alike(host, n) /\ n.turn = host.turn /\ n.idle = host.idle
  BY ZenonT(60), <1>2 DEF Hosts, Alike
<1> HIDE DEF n
<1> QED BY <1>1, <1>3, FlagStepFits

LEMMA UnpickProviderFits ==
  ASSUME Held, Accounted, UnpickProvider
  PROVE  Held' /\ Accounted'
<1> DEFINE n == [host EXCEPT !.relay = FALSE]
<1>1. Handled(n) /\ UNCHANGED <<events, log, history>>
  BY DEF UnpickProvider
<1>2. host \in Hosts
  BY HeldFacts
<1>3. n \in Hosts /\ Alike(host, n) /\ n.turn = host.turn /\ n.idle = host.idle
  BY <1>2 DEF Hosts, Alike
<1> HIDE DEF n
<1> QED BY <1>1, <1>3, FlagStepFits

\* The turn that is cut off is closed, and the message waits for the new provider.
LEMMA ConfirmRelayFits ==
  ASSUME Held, Accounted, ConfirmRelay
  PROVE  Held' /\ Accounted'
<1> DEFINE off == [host EXCEPT !.relay = FALSE]
           cut == ShutDown(off)
           over == [[cut EXCEPT !.running = FALSE] EXCEPT !.turn = FALSE]
           closed == IF cut.running THEN Completed(cut) ELSE cut
           pushed == Push(closed, <<NewText>>, "now", "user")
           n == EnsureStarted(pushed)
<1>1. Write /\ Handled(n) /\ UNCHANGED <<events, said, steered, calls, withdrawn>>
  BY DEF ConfirmRelay, log
<1>2. host \in Hosts
  BY HeldFacts
<1>3. off \in Hosts /\ Alike(host, off) /\ off.turn = host.turn /\ off.idle = host.idle
  BY <1>2 DEF Hosts, Alike
<1> HIDE DEF off
<1>4. /\ Core(off, host.gen, events, agent) /\ Keeps(host, off)
      /\ Fits(off, host.gen, events, agent, steered, calls)
  BY <1>3, FlagsFit, FitsFacts
<1>5. Fits(cut, host.gen, events, agent, steered, calls) /\ Keeps(host, cut)
  BY <1>4, ShutDownFits, KeepsThrough
<1>6. cut \in Hosts
  BY <1>5, FitsFacts
<1> HIDE DEF cut
<1>7. over \in Hosts /\ Alike(cut, over) /\ ~over.turn /\ over.idle = cut.idle
  BY ZenonT(60), <1>6 DEF Hosts, Alike
<1> HIDE DEF over
<1>8. Fits(over, host.gen, events, agent, steered, calls)
  BY <1>5, <1>7, AlikeFits
<1>9. Fits(Completed(cut), host.gen, events, agent, steered, calls) /\ Keeps(cut, Completed(cut))
  BY <1>6, <1>8, CompletedFits DEF over
<1>10. Fits(closed, host.gen, events, agent, steered, calls) /\ Keeps(host, closed)
  BY <1>5, <1>9, KeepsThrough
<1> HIDE DEF closed
<1>11. /\ <<NewText>> \in Seq(Texts) /\ IsInjective(<<NewText>>)
       /\ ToSet(<<NewText>>) = {NewText}
       /\ ToSet(<<NewText>>) \intersect QueuedTexts(closed) = {}
  BY <1>1, <1>10, NewTextFacts, OneText DEF Keeps
<1>12. /\ Fits(pushed, host.gen, events, agent, steered, calls)
       /\ QueuedTexts(pushed) = QueuedTexts(closed) \union {NewText}
       /\ pushed.swallowed = closed.swallowed
       /\ Calm(closed) => Calm(pushed)
  <2> DEFINE texts == <<NewText>>
  <2>1. pushed = Push(closed, texts, "now", "user")
    BY DEF pushed
  <2>2. /\ texts \in Seq(Texts) /\ IsInjective(texts) /\ ToSet(texts) = {NewText}
        /\ ToSet(texts) \intersect QueuedTexts(closed) = {}
    BY <1>11
  <2> HIDE DEF texts, pushed
  <2>3. LET q == Push(closed, texts, "now", "user")
        IN /\ Fits(q, host.gen, events, agent, steered, calls)
           /\ QueuedTexts(q) = QueuedTexts(closed) \union ToSet(texts)
           /\ q.swallowed = closed.swallowed /\ (Calm(closed) => Calm(q))
    BY <1>10, <2>2, PushFits
  <2> QED BY <2>1, <2>2, <2>3
<1> HIDE DEF pushed
<1>13. Fits(n, host.gen, events, agent, steered, calls) /\ Keeps(pushed, n)
  BY <1>12, EnsureStartedFits
<1> HIDE DEF n
<1>14. Held' /\ host' = n
  BY <1>1, <1>13, HeldFacts, HandledFits
<1>15. Gains(host, host', {NewText})
  BY <1>10, <1>12, <1>13, <1>14 DEF Gains, Keeps
<1>16. calls \subseteq calls' /\ calls' \subseteq Texts
  BY <1>1 DEF Accounted
<1> QED BY <1>1, <1>14, <1>15, <1>16, WrittenTexts

LEMMA CompactFits ==
  ASSUME Held, Accounted, Compact
  PROVE  Held' /\ Accounted'
<1> DEFINE c == Command("compact", 0, <<>>)
           sent == [host EXCEPT !.inbox = Append(@, c)]
           asked == [host EXCEPT !.request = TRUE]
<1>1. /\ \/ Live(host) /\ Handled(sent)
         \/ ~Live(host) /\ Handled(EnsureStarted(asked))
      /\ UNCHANGED <<events, log, history>>
  BY DEF Compact
<1>2. /\ host \in Hosts /\ host.inbox \in Seq(InboxCommands)
      /\ Fits(host, host.gen, events, agent, steered, calls)
  BY HeldFacts DEF Hosts
<1>3. CASE Live(host) /\ Handled(sent)
  <2>1. c \in InboxCommands
    BY EmptySeq DEF Command, InboxCommands
  <2>2. Append(host.inbox, c) \in Seq(InboxCommands)
    BY <1>2, <2>1, AppendProperties
  <2>3. sent \in Hosts
    BY <1>2, <2>2 DEF Hosts
  <2>4. /\ sent.inbox = Append(host.inbox, c) /\ sent.runtime = host.runtime
        /\ sent.gen = host.gen /\ sent.starts = host.starts /\ sent.delivery = host.delivery
        /\ sent.steers = host.steers /\ sent.turn = host.turn /\ sent.tasks = host.tasks
        /\ sent.queue = host.queue /\ sent.next = host.next /\ sent.place = host.place
        /\ sent.timers = host.timers /\ sent.idle = host.idle
        /\ sent.swallowed = host.swallowed /\ sent.alarm = host.alarm
    BY <1>2 DEF Hosts
  <2> HIDE DEF sent
  <2>5. Fits(sent, host.gen, events, agent, steered, calls) /\ Keeps(host, sent)
    BY <1>2, <1>3, <2>3, <2>4, CompactionFits
  <2> QED BY <1>1, <1>3, <2>5, PlainFits
<1>4. CASE Handled(EnsureStarted(asked))
  <2>1. asked \in Hosts /\ Alike(host, asked) /\ asked.turn = host.turn
        /\ asked.idle = host.idle
    BY <1>2 DEF Hosts, Alike
  <2> HIDE DEF asked
  <2>2. Fits(asked, host.gen, events, agent, steered, calls) /\ Keeps(host, asked)
    BY <2>1, FlagsFit
  <2>3. /\ Fits(EnsureStarted(asked), host.gen, events, agent, steered, calls)
        /\ Keeps(host, EnsureStarted(asked))
    BY <2>2, EnsureStartedFits, KeepsThrough
  <2> QED BY <1>1, <1>4, <2>3, PlainFits
<1> QED BY <1>1, <1>3, <1>4

LEMMA ArchiveFits ==
  ASSUME Held, Accounted, Archive
  PROVE  Held' /\ Accounted'
<1>1. /\ host.queue = <<>> /\ Handled(Evict(host)) /\ UNCHANGED <<events, log, history>>
  BY DEF Archive, HasWork
<1>2. Fits(Evict(host), host.gen, events, agent, steered, calls) /\ Keeps(host, Evict(host))
  BY <1>1, HeldFacts, EvictFits
<1> QED BY <1>1, <1>2, PlainFits

LEMMA CallbackFits ==
  ASSUME Held, Accounted, Callback
  PROVE  Held' /\ Accounted'
<1> DEFINE texts == <<NewText>>
<1>1. /\ Write /\ calls' = calls \union {NewText} /\ UNCHANGED <<events, said, withdrawn>>
      /\ \/ /\ CanSteer(host)
            /\ Handled([Steered(host, texts) EXCEPT !.steers = host.steers])
            /\ steered' = steered \union {NewText}
         \/ Handled(QueueAutomatic(host, NewText)) /\ UNCHANGED steered
  BY DEF Callback
<1>2. /\ texts \in Seq(Texts) /\ IsInjective(texts) /\ ToSet(texts) = {NewText}
      /\ ToSet(texts) \intersect steered = {} /\ NewText \in Texts
      /\ NewText \notin QueuedTexts(host)
  BY <1>1, NewTextFacts, OneText
<1>3. /\ host \in Hosts /\ host.steers \in SUBSET Seq(Texts)
      /\ Fits(host, host.gen, events, agent, steered, calls) /\ EventsFit(events)
  BY HeldFacts DEF Hosts
<1>4. calls \subseteq calls' /\ calls' \subseteq Texts
  BY <1>1, <1>2 DEF Accounted
<1>5. CASE /\ CanSteer(host)
           /\ Handled([Steered(host, texts) EXCEPT !.steers = host.steers])
           /\ steered' = steered \union {NewText}
  <2> DEFINE s == host.steers
             n == [Steered(host, texts) EXCEPT !.steers = s]
  <2>1. s \in SUBSET Seq(Texts) /\ host.steers \subseteq s /\ ToSet(texts) \subseteq calls'
    BY <1>1, <1>2, <1>3
  <2>2. Handled(n) /\ Live(host)
    BY <1>5 DEF CanSteer
  <2> HIDE DEF s, texts
  <2>3. Fits(n, host.gen, events, agent, With(steered, texts), calls') /\ Keeps(host, n)
    BY <1>2, <1>3, <1>4, <2>1, <2>2, SteeredFits
  <2> HIDE DEF n
  <2>4. steered' = With(steered, texts)
    BY <1>2, <1>5 DEF With
  <2>5. Fits(n, host.gen, events', agent, steered', calls') /\ EventsFit(events')
    BY <1>1, <1>3, <2>3, <2>4
  <2>6. Held' /\ host' = n
    BY <2>2, <2>5, HandledFits
  <2> QED BY <1>1, <1>4, <1>5, <2>3, <2>6, SteeredTexts
<1>6. CASE Handled(QueueAutomatic(host, NewText)) /\ UNCHANGED steered
  <2> DEFINE n == QueueAutomatic(host, NewText)
  <2>1. Fits(n, host.gen, events, agent, steered, calls) /\ Gains(host, n, {NewText})
    BY <1>2, <1>3, QueueAutomaticFits
  <2> HIDE DEF n
  <2>2. Fits(n, host.gen, events, agent, steered, calls')
    BY <1>4, <2>1, SteersGrow
  <2>3. Fits(n, host.gen, events', agent, steered', calls') /\ EventsFit(events')
    BY <1>1, <1>3, <1>6, <2>2
  <2>4. Handled(n)
    BY <1>6 DEF n
  <2>5. Held' /\ host' = n
    BY <2>3, <2>4, HandledFits
  <2> QED BY <1>1, <1>4, <1>6, <2>1, <2>5, WrittenTexts
<1> QED BY <1>1, <1>5, <1>6

-------------------------------------------------------------------------------
(* The timers *)

LEMMA TimePassesFits ==
  ASSUME Held, Accounted, TimePasses
  PROVE  Held' /\ Accounted'
<1>1. PICK i \in DOMAIN host.queue :
        host.queue[i].when = "later" /\ host' = [host EXCEPT !.queue[i].when = "due"]
  BY DEF TimePasses
<1>2. UNCHANGED <<agent, events, log, history>>
  BY DEF TimePasses
<1>3. UNCHANGED <<steered, calls>>
  BY <1>2 DEF log, history
<1> DEFINE q == [host.queue EXCEPT ![i].when = "due"]
<1>4. /\ host \in Hosts /\ host.queue \in Seq(Entries)
      /\ Fits(host, host.gen, events, agent, steered, calls) /\ EventsFit(events)
  BY HeldFacts DEF Hosts
<1>5. host.queue[i] \in Entries
  BY <1>4, QueueElements
<1>6. [host.queue[i] EXCEPT !.when = "due"] \in Entries
  BY <1>5 DEF Entries
<1>7. q \in Seq(Entries) /\ DOMAIN q = DOMAIN host.queue
  BY <1>4, <1>6, ExceptSeq
<1>8. \A j \in DOMAIN q : /\ q[j].id = host.queue[j].id /\ q[j].texts = host.queue[j].texts
                          /\ q[j].when # "now" => host.queue[j].when # "now"
  <2> SUFFICES ASSUME NEW j \in DOMAIN q
               PROVE  /\ q[j].id = host.queue[j].id /\ q[j].texts = host.queue[j].texts
                      /\ q[j].when # "now" => host.queue[j].when # "now"
    OBVIOUS
  <2>1. q[j] = IF j = i THEN [host.queue[i] EXCEPT !.when = "due"] ELSE host.queue[j]
    BY <1>7
  <2> QED BY <1>1, <1>5, <2>1 DEF Entries
<1>9. host' = [host EXCEPT !.queue = q]
  BY <1>1, <1>4 DEF Hosts
<1> HIDE DEF q
<1> DEFINE n == [host EXCEPT !.queue = q]
<1>10. Fits(n, host.gen, events, agent, steered, calls) /\ Keeps(host, n)
  BY <1>4, <1>7, <1>8, RetimedFits
<1>11. n.gen = host.gen
  BY <1>4 DEF Hosts
<1> HIDE DEF n
<1>12. Held'
  <2>1. Fits(host', host'.gen, events', agent', steered', calls')
    BY <1>2, <1>3, <1>9, <1>10, <1>11 DEF n
  <2> QED BY <1>2, <1>4, <2>1 DEF Held
<1>13. Keeps(host, host')
  BY <1>9, <1>10 DEF n
<1> QED BY <1>2, <1>12, <1>13, KeptTexts

\* What a step moves within the thread.
LEMMA MovingFits ==
  ASSUME Held, Accounted, NEW n, Fits(n, host.gen, events, agent, steered, calls),
         Gains(host, n, {}), Handled(n), UNCHANGED <<events, log, history>>
  PROVE  Held' /\ Accounted'
<1>1. UNCHANGED <<said, steered, calls, withdrawn, written>>
  BY DEF log, history
<1>2. Fits(n, host.gen, events', agent, steered', calls') /\ EventsFit(events')
  BY <1>1, HeldFacts
<1>3. Held' /\ host' = n
  BY <1>2, HandledFits
<1>4. Gains(host, host', {})
  BY <1>3
<1>5. written' \in 0..MaxTexts /\ calls' \subseteq Texts
  BY <1>1 DEF Accounted
<1>6. /\ {} \intersect steered' = {} /\ steered' \subseteq steered
      /\ (steered \ steered') \ calls \subseteq {} /\ {} \subseteq 1..written'
      /\ {} \intersect (QueuedTexts(host) \union ToSet(said)) = {}
      /\ ((1..written') \ calls') \ ((1..written) \ calls) \subseteq {}
      /\ UNCHANGED <<said, withdrawn>> /\ calls \subseteq calls'
      /\ 1..written \subseteq 1..written'
  BY <1>1
<1> QED BY <1>3, <1>4, <1>5, <1>6, GainedTexts

LEMMA FireDueScheduledFits ==
  ASSUME Held, Accounted, FireDueScheduled
  PROVE  Held' /\ Accounted'
<1> DEFINE a == IF host.place = "viewed" THEN FireViewed(host) ELSE FireParked(host)
           n == Reschedule(a)
<1>1. Handled(n) /\ UNCHANGED <<events, log, history>>
  BY DEF FireDueScheduled
<1>2. /\ Fits(FireViewed(host), host.gen, events, agent, steered, calls)
      /\ Gains(host, FireViewed(host), {})
      /\ Fits(FireParked(host), host.gen, events, agent, steered, calls)
      /\ Keeps(host, FireParked(host))
  BY HeldFacts, FireViewedFits, FireParkedFits
<1>3. Gains(host, FireParked(host), {})
  BY <1>2 DEF Gains, Keeps
<1>4. Fits(a, host.gen, events, agent, steered, calls) /\ Gains(host, a, {})
  BY <1>2, <1>3
<1> HIDE DEF a
<1>5. Fits(n, host.gen, events, agent, steered, calls) /\ Gains(host, n, {})
  BY <1>4, RescheduleFits, GainsThenKeeps
<1> HIDE DEF n
<1> QED BY <1>1, <1>5, MovingFits

\* The timer of the idle period that stands is over.
LEMMA ReapedFits ==
  ASSUME Held, host.runtime # "starting", NEW off \in Hosts, off.timers \subseteq host.timers,
         off.runtime = host.runtime, off.gen = host.gen, off.starts = host.starts,
         off.delivery = host.delivery, off.inbox = host.inbox, off.steers = host.steers,
         off.turn = host.turn, off.tasks = host.tasks, off.queue = host.queue,
         off.next = host.next, off.idle = host.idle, off.place = host.place,
         off.swallowed = host.swallowed, off.alarm = host.alarm
  PROVE  Fits(Reaped(off), host.gen, events, agent, steered, calls) /\ Keeps(host, Reaped(off))
<1>1. /\ host \in Hosts /\ Fits(host, host.gen, events, agent, steered, calls)
      /\ IdleFits(host) /\ host.timers \in SUBSET Nat
  BY HeldFacts, FitsFacts DEF Hosts
<1>4. IsFiniteSet(off.timers)
  BY <1>1, FS_Subset DEF IdleFits
<1>5. Keeps(host, off)
  BY SameQueueKeeps
<1>6. ASSUME HasWork(off) \/ off.runtime = "idle"
      PROVE  Fits(off, host.gen, events, agent, steered, calls)
  <2>1. HasWork(off) <=> HasWork(host)
    BY DEF HasWork
  <2>2. IdleFits(off)
    BY <1>1, <1>4, <1>6, <2>1 DEF IdleFits
  <2> QED BY <1>1, <2>2, SameQueueFits
<1> DEFINE rest == [off EXCEPT !.idle = 0]
<1>7. /\ rest \in Hosts /\ rest.idle = 0 /\ rest.timers = off.timers
      /\ rest.runtime = host.runtime /\ rest.gen = host.gen /\ rest.starts = host.starts
      /\ rest.delivery = host.delivery /\ rest.inbox = host.inbox
      /\ rest.steers = host.steers /\ rest.turn = host.turn /\ rest.tasks = host.tasks
      /\ rest.queue = host.queue /\ rest.next = host.next /\ rest.place = host.place
      /\ rest.swallowed = host.swallowed /\ rest.alarm = host.alarm
  BY DEF Hosts
<1>8. Evict(rest) = Evict(off) /\ ShutDown(rest) = ShutDown(off)
  BY ZenonT(60) DEF Evict, ShutDown, Forget, Hosts
<1> HIDE DEF rest
<1>9. IdleFits(rest)
  BY <1>1, <1>4, <1>7 DEF IdleFits
<1>10. Core(rest, host.gen, events, agent) /\ Keeps(host, rest)
  BY <1>1, <1>7, <1>9, SameQueueFits, SameQueueKeeps, FitsFacts
<1>11. CASE HasWork(off)
  <2>1. Reaped(off) = off
    BY <1>11 DEF Reaped
  <2> QED BY <1>5, <1>6, <1>11, <2>1
<1>12. CASE ~HasWork(off) /\ off.place = "parked"
  <2>1. Reaped(off) = Reschedule(Evict(rest))
    BY <1>8, <1>12 DEF Reaped
  <2>2. rest.queue = <<>>
    BY <1>7, <1>12 DEF HasWork
  <2>3. Fits(Evict(rest), host.gen, events, agent, steered, calls) /\ Keeps(host, Evict(rest))
    BY <1>10, <2>2, EvictFits, KeepsThrough
  <2> QED BY <2>1, <2>3, RescheduleFits, KeepsThrough
<1>13. CASE ~HasWork(off) /\ off.place = "viewed" /\ Live(off)
  <2>1. Reaped(off) = ShutDown(rest)
    BY <1>8, <1>13 DEF Reaped
  <2>2. /\ Fits(ShutDown(rest), host.gen, events, agent, steered, calls)
        /\ Keeps(host, ShutDown(rest))
    BY <1>10, ShutDownFits, KeepsThrough
  <2> QED BY <2>1, <2>2
<1>14. CASE ~HasWork(off) /\ off.place = "viewed" /\ ~Live(off)
  <2>1. Reaped(off) = off
    BY <1>14 DEF Reaped
  <2>2. off.runtime = "idle"
    BY <1>14 DEF Live, Hosts
  <2> QED BY <1>5, <1>6, <2>1, <2>2
<1>15. CASE ~HasWork(off) /\ off.place = "none"
  <2>1. Reaped(off) = off
    BY <1>15 DEF Reaped
  <2>2. off.runtime = "idle"
    BY <1>1, <1>15 DEF IdleFits
  <2> QED BY <1>5, <1>6, <2>1, <2>2
<1> QED BY <1>11, <1>12, <1>13, <1>14, <1>15 DEF Hosts

LEMMA ReapFits ==
  ASSUME Held, Accounted, Reap
  PROVE  Held' /\ Accounted'
<1>1. PICK t \in host.timers :
        LET off == [host EXCEPT !.timers = @ \ {t}]
        IN Handled(IF host.idle = t THEN Reaped(off) ELSE off)
  BY DEF Reap
<1> DEFINE off == [host EXCEPT !.timers = @ \ {t}]
<1>2. /\ Handled(IF host.idle = t THEN Reaped(off) ELSE off)
      /\ host.runtime # "starting" /\ UNCHANGED <<events, log, history>>
  BY <1>1 DEF Reap
<1>3. /\ host \in Hosts /\ Fits(host, host.gen, events, agent, steered, calls)
      /\ IdleFits(host) /\ host.timers \in SUBSET Nat
  BY HeldFacts, FitsFacts DEF Hosts
<1>4. off \in Hosts
  <2>1. host.timers \ {t} \in SUBSET Nat
    BY <1>3
  <2> QED BY <1>3, <2>1 DEF Hosts
<1>5. /\ off.runtime = host.runtime /\ off.gen = host.gen /\ off.starts = host.starts
      /\ off.delivery = host.delivery /\ off.inbox = host.inbox /\ off.steers = host.steers
      /\ off.turn = host.turn /\ off.tasks = host.tasks /\ off.queue = host.queue
      /\ off.next = host.next /\ off.timers = host.timers \ {t} /\ off.idle = host.idle
      /\ off.place = host.place /\ off.swallowed = host.swallowed /\ off.alarm = host.alarm
  BY <1>3 DEF Hosts
<1> HIDE DEF off
<1>6. CASE host.idle = t
  <2>1. off.timers \subseteq host.timers
    BY <1>5
  <2>2. Fits(Reaped(off), host.gen, events, agent, steered, calls) /\ Keeps(host, Reaped(off))
    BY <1>2, <1>4, <1>5, <2>1, ReapedFits
  <2> QED BY <1>2, <1>6, <2>2, PlainFits
<1>7. CASE host.idle # t
  <2>1. IdleFits(off)
    BY <1>3, <1>5, <1>7, FS_Subset DEF IdleFits, HasWork
  <2>2. Fits(off, host.gen, events, agent, steered, calls) /\ Keeps(host, off)
    BY <1>3, <1>4, <1>5, <2>1, SameQueueFits, SameQueueKeeps
  <2> QED BY <1>2, <1>7, <2>2, PlainFits
<1> QED BY <1>6, <1>7

LEMMA EvictIdleFits ==
  ASSUME Held, Accounted, EvictIdle
  PROVE  Held' /\ Accounted'
<1> DEFINE n == Reschedule(Evict(host))
<1>1. /\ host.queue = <<>> /\ Handled(n) /\ UNCHANGED <<events, log, history>>
  BY DEF EvictIdle, HasWork
<1>2. Fits(Evict(host), host.gen, events, agent, steered, calls) /\ Keeps(host, Evict(host))
  BY <1>1, HeldFacts, EvictFits
<1>3. Fits(n, host.gen, events, agent, steered, calls) /\ Keeps(host, n)
  BY <1>2, RescheduleFits, KeepsThrough
<1> HIDE DEF n
<1> QED BY <1>1, <1>3, PlainFits

-------------------------------------------------------------------------------
(* The theorems *)

\* The inductive invariant.  Held: the entry on its way is in the queue and on its way
\* once, the flags the loop keeps of the provider's work have something that ends them
\* and comes after what raises them, an idle period has its timer, and a steer that is
\* not settled has its texts to itself.  Accounted: every text written is in one place.
IInv == Held /\ Accounted /\ upsets \in 0..MaxUpsets

LEMMA InitFits ==
  ASSUME Init
  PROVE  IInv
<1>1. MaxTexts \in Nat /\ MaxUpsets \in Nat
  BY BoundsAssumption
<1>2. Fresh \in Hosts
  <2>1. <<>> \in Seq(Entries) /\ <<>> \in Seq(InboxCommands)
    BY EmptySeq
  <2> QED BY <2>1 DEF Fresh, Hosts
<1>3. /\ Fresh.runtime = "idle" /\ Fresh.gen = 0 /\ Fresh.starts = 0 /\ Fresh.queue = <<>>
      /\ Fresh.inbox = <<>> /\ Fresh.delivery = 0 /\ ~Fresh.turn /\ ~Fresh.tasks
      /\ Fresh.timers = {} /\ Fresh.swallowed = {} /\ Fresh.idle = 0
  BY DEF Fresh
<1>4. host = Fresh /\ host.gen = 0 /\ agent = Resting /\ DOMAIN events = {}
  BY <1>3 DEF Init
<1>5. DOMAIN Fresh.queue = {}
  BY <1>3
<1>6. GivenFit(0, events, agent)
  BY <1>4 DEF GivenFit, Agents, Resting
<1>7. ProcessFits(Fresh, 0, events)
  BY <1>3, <1>4 DEF ProcessFits, Live
<1>8. QueueFits(Fresh) /\ IdleFits(Fresh)
  BY <1>3, <1>5, FS_EmptySet DEF QueueFits, IdleFits
<1>9. Fits(host, host.gen, events, agent, steered, calls)
  BY <1>2, <1>3, <1>4, <1>6, <1>7, <1>8, Quiet DEF Live
<1>10. Held
  BY <1>4, <1>9 DEF Held, EventsFit, Resting
<1>11. QueuedTexts(host) = {} /\ Calm(host) /\ host.swallowed = {}
  BY <1>3, <1>4, <1>5 DEF QueuedTexts, Calm, Timed
<1>12. Accounted
  <2>1. said = <<>> /\ steered = {} /\ calls = {} /\ withdrawn = {} /\ written = 0
    BY DEF Init
  <2>2. said \in Seq(Texts) /\ DOMAIN said = {} /\ ToSet(said) = {} /\ 1..written = {}
    BY <2>1, EmptySeq DEF ToSet
  <2>3. IsInjective(said) /\ written \in 0..MaxTexts
    BY <1>1, <2>1, <2>2 DEF IsInjective
  <2> QED BY <1>11, <2>1, <2>2, <2>3 DEF Accounted
<1> QED BY <1>1, <1>10, <1>12 DEF IInv, Init

\* What people and children do.
LEMMA PeopleFit ==
  ASSUME Held, Accounted, People
  PROVE  Held' /\ Accounted'
<1>1. CASE Select
  BY <1>1, SelectFits
<1>2. CASE Unselect
  BY <1>2, UnselectFits
<1>3. CASE Send
  BY <1>3, SendFits
<1>4. CASE Schedule
  BY <1>4, ScheduleFits
<1>5. CASE Steer
  BY <1>5, SteerFits
<1>6. CASE SteerQueued
  BY <1>6, SteerQueuedFits
<1>7. CASE DropQueued
  BY <1>7, DropQueuedFits
<1>8. CASE MoveQueued
  BY <1>8, MoveQueuedFits
<1>9. CASE ChangeSettings
  BY <1>9, ChangeSettingsFits
<1>10. CASE MoveByOwnTurn
  BY <1>10, MoveByOwnTurnFits
<1>11. CASE PickProvider
  BY <1>11, PickProviderFits
<1>12. CASE UnpickProvider
  BY <1>12, UnpickProviderFits
<1>13. CASE ConfirmRelay
  BY <1>13, ConfirmRelayFits
<1>14. CASE Compact
  BY <1>14, CompactFits
<1>15. CASE Archive
  BY <1>15, ArchiveFits
<1>16. CASE Callback
  BY <1>16, CallbackFits
<1> QED
  BY <1>1, <1>2, <1>3, <1>4, <1>5, <1>6, <1>7, <1>8, <1>9, <1>10, <1>11, <1>12, <1>13,
     <1>14, <1>15, <1>16 DEF People

\* A launch ends, and the provider works: no text moves.
LEMMA WorkingFits ==
  ASSUME Held, Accounted, Launch \/ Provider
  PROVE  Held' /\ Accounted'
<1>1. CASE LaunchSucceeds
  <2>1. UNCHANGED <<log, history>>
    BY <1>1 DEF LaunchSucceeds
  <2> QED BY <1>1, <2>1, LaunchSucceedsFits, KeptTexts
<1>2. CASE LaunchFails
  <2>1. UNCHANGED <<log, history>>
    BY <1>2 DEF LaunchFails
  <2> QED BY <1>2, <2>1, LaunchFailsFits, KeptTexts
<1>3. CASE StaleLaunch
  <2>1. UNCHANGED <<log, history>>
    BY <1>3 DEF StaleLaunch
  <2> QED BY <1>3, <2>1, StaleLaunchFits, KeptTexts
<1>4. CASE TakesTurn
  <2>1. UNCHANGED <<log, history>>
    BY <1>4 DEF TakesTurn, ProviderOnly
  <2> QED BY <1>4, <2>1, TakesTurnFits, KeptTexts
<1>5. CASE TakesCompact
  <2>1. UNCHANGED <<log, history>>
    BY <1>5 DEF TakesCompact, ProviderOnly
  <2> QED BY <1>5, <2>1, TakesCompactFits, KeptTexts
<1>6. CASE TakesSteer
  <2>1. UNCHANGED <<log, history>>
    BY <1>6 DEF TakesSteer, ProviderOnly
  <2> QED BY <1>6, <2>1, TakesSteerFits, KeptTexts
<1>7. CASE Begins
  <2>1. UNCHANGED <<log, history>>
    BY <1>7 DEF Begins, ProviderOnly
  <2> QED BY <1>7, <2>1, BeginsFits, KeptTexts
<1>8. CASE Finishes
  <2>1. UNCHANGED <<log, history>>
    BY <1>8 DEF Finishes, ProviderOnly
  <2> QED BY <1>8, <2>1, FinishesFits, KeptTexts
<1>9. CASE StartsTask
  <2>1. UNCHANGED <<log, history>>
    BY <1>9 DEF StartsTask
  <2> QED BY <1>9, <2>1, StartsTaskFits, KeptTexts
<1>10. CASE EndsTask
  <2>1. UNCHANGED <<log, history>>
    BY <1>10 DEF EndsTask, ProviderOnly
  <2> QED BY <1>10, <2>1, EndsTaskFits, KeptTexts
<1>11. CASE Dies
  <2>1. UNCHANGED <<log, history>>
    BY <1>11 DEF Dies
  <2> QED BY <1>11, <2>1, DiesFits, KeptTexts
<1> QED
  BY <1>1, <1>2, <1>3, <1>4, <1>5, <1>6, <1>7, <1>8, <1>9, <1>10, <1>11
     DEF Launch, Provider, Work

\* The loop takes an event.
LEMMA OnEventFits ==
  ASSUME Held, Accounted, OnEvent
  PROVE  Held' /\ Accounted'
<1>1. CASE StaleEvent
  BY <1>1, StaleEventFits
<1>2. ASSUME NEW g \in DOMAIN events,
             OnStarted(g) \/ OnAccepted(g) \/ OnTasks(g) \/ OnCompleted(g)
               \/ OnClosed(g) \/ OnSteerAccepted(g) \/ OnSteerRejected(g)
      PROVE  Held' /\ Accounted'
  BY <1>2, OnStartedFits, OnAcceptedFits, OnTasksFits, OnCompletedFits, OnClosedFits,
     OnSteerAcceptedFits, OnSteerRejectedFits
<1> QED BY <1>1, <1>2 DEF OnEvent

\* No step goes beyond the bound on what people and providers do.
LEMMA UpsetsFit ==
  ASSUME Next, upsets \in 0..MaxUpsets
  PROVE  upsets' \in 0..MaxUpsets
<1> DEFINE Bounded == upsets' = upsets \/ \E kind \in Kinds : Upset(kind)
<1>1. Bounded => upsets' \in 0..MaxUpsets
  BY BoundsAssumption DEF Upset
<1>2. CASE People
  BY <1>1, <1>2
     DEF People, Select, Unselect, Send, Schedule, Steer, SteerQueued, DropQueued, MoveQueued,
         ChangeSettings, MoveByOwnTurn, PickProvider, UnpickProvider, ConfirmRelay, Compact,
         Archive, Callback, Kinds
<1>3. CASE Launch
  BY <1>1, <1>3 DEF Launch, LaunchSucceeds, LaunchFails, StaleLaunch, Kinds
<1>4. CASE Provider
  <2>1. CASE TakesTurn \/ TakesCompact \/ TakesSteer
    BY <1>1, <2>1 DEF TakesTurn, TakesCompact, TakesSteer, ProviderOnly
  <2>2. CASE Begins \/ Finishes
    BY <1>1, <2>2 DEF Begins, Finishes, ProviderOnly
  <2>3. CASE StartsTask \/ EndsTask
    BY <1>1, <2>3 DEF StartsTask, EndsTask, ProviderOnly, Kinds
  <2>4. CASE Dies
    BY SMTT(60), <1>1, <2>4 DEF Dies, ProviderOnly, Kinds
  <2> QED BY <1>4, <2>1, <2>2, <2>3, <2>4 DEF Provider, Work
<1>5. CASE OnEvent
  BY ZenonT(60), <1>1, <1>5
     DEF OnEvent, StaleEvent, OnStarted, OnAccepted, OnTasks, OnCompleted, OnClosed,
         OnSteerAccepted, OnSteerRejected
<1>6. CASE TimePasses \/ Timers \/ EvictIdle
  BY <1>1, <1>6 DEF TimePasses, Timers, FireDueScheduled, Reap, EvictIdle, Kinds
<1> QED BY <1>2, <1>3, <1>4, <1>5, <1>6 DEF Next

LEMMA NextFits ==
  ASSUME IInv, [Next]_vars
  PROVE  IInv'
<1>1. Held /\ Accounted /\ upsets \in 0..MaxUpsets
  BY DEF IInv
<1>2. CASE UNCHANGED vars
  <2>1. UNCHANGED <<host, agent, events, said, steered, calls, withdrawn, written, upsets>>
    BY <1>2 DEF vars, log, history
  <2>2. Held'
    BY <1>1, <2>1 DEF Held
  <2>3. Accounted'
    BY <1>1, <2>1 DEF Accounted
  <2> QED BY <1>1, <2>1, <2>2, <2>3 DEF IInv
<1>3. CASE Next
  <2>1. upsets' \in 0..MaxUpsets
    BY <1>1, <1>3, UpsetsFit
  <2>2. Held' /\ Accounted'
    <3>1. CASE People
      BY <1>1, <3>1, PeopleFit
    <3>2. CASE Launch \/ Provider
      BY <1>1, <3>2, WorkingFits
    <3>3. CASE OnEvent
      BY <1>1, <3>3, OnEventFits
    <3>4. CASE TimePasses \/ EvictIdle
      BY <1>1, <3>4, TimePassesFits, EvictIdleFits
    <3>5. CASE Timers
      BY <1>1, <3>5, FireDueScheduledFits, ReapFits DEF Timers
    <3> QED BY <1>3, <3>1, <3>2, <3>3, <3>4, <3>5 DEF Next
  <2> QED BY <2>1, <2>2 DEF IInv
<1> QED BY <1>2, <1>3

\* In every reachable state what the loop holds, what the provider does and what is
\* between them fit, and every text has its place (the inductive invariant).
THEOREM Invariant == Spec => []IInv
<1>1. Init => IInv
  BY InitFits
<1>2. IInv /\ [Next]_vars => IInv'
  BY NextFits
<1> QED BY <1>1, <1>2, PTL DEF Spec

\* The loop reads the events of the process in use only while it is live; else there
\* are none.
LEMMA NewsFacts ==
  ASSUME Held
  PROVE  /\ News = NewsOf(host, events) /\ News \in Seq(Events)
         /\ DOMAIN News = 1..Len(News) /\ Len(News) \in Nat
         /\ DOMAIN host.inbox = 1..Len(host.inbox) /\ Len(host.inbox) \in Nat
<1>1. News = NewsOf(host, events)
  <2>1. ProcessFits(host, host.gen, events)
    BY HeldFacts, CoreFacts
  <2> QED BY <2>1 DEF ProcessFits, News, NewsOf, Untaken
<1>2. News \in Seq(Events)
  BY <1>1, HeldFacts
<1>3. host.inbox \in Seq(InboxCommands)
  BY HeldFacts DEF Hosts
<1> QED BY <1>1, <1>2, <1>3, SequenceElements

\* Every variable of the thread and of its provider has its type, and a provider that
\* works has a prompt to work on.
THEOREM TypeCorrect == Spec => []TypeOK
<1>1. IInv => TypeOK
  <2> SUFFICES ASSUME IInv
               PROVE  TypeOK
    OBVIOUS
  <2>1. Held /\ Accounted /\ upsets \in 0..MaxUpsets
    BY DEF IInv
  <2>2. /\ host \in Hosts /\ agent \in [open : BOOLEAN, prompts : Nat, task : BOOLEAN]
        /\ (agent.open => agent.prompts > 0)
    BY <2>1, HeldFacts DEF Held, Agents
  <2>3. DOMAIN events \subseteq 1..host.starts
    BY <2>1, HeldFacts, CoreFacts DEF ProcessFits
  <2>4. \A g \in DOMAIN events : events[g] \in Seq(Events) \ {<<>>}
    BY <2>1, HeldFacts DEF EventsFit
  <2>5. steered \subseteq Texts
    BY <2>1, BoundsAssumption DEF Accounted, Texts
  <2> QED BY <2>1, <2>2, <2>3, <2>4, <2>5 DEF TypeOK, Accounted
<1> QED BY <1>1, Invariant, PTL

\* A message a person wrote is in the queue, in the transcript, taken back or refused
\* with the composer kept: no launch that fails, provider that dies, restart, parking,
\* eviction or rejected steer loses one.
THEOREM NothingLost == Spec => []NothingTypedIsLost
<1>1. IInv => NothingTypedIsLost
  BY DEF IInv, Accounted, NothingTypedIsLost
<1> QED BY <1>1, Invariant, PTL

\* However often a message is submitted again, it enters the transcript once, as a turn
\* or as a steer.
THEOREM OnceInTheTranscript == Spec => []SaidOnce
<1>1. IInv => SaidOnce
  BY DEF IInv, Accounted, SaidOnce
<1> QED BY <1>1, Invariant, PTL

LEMMA WayFacts ==
  ASSUME Held
  PROVE  /\ \A p \in OnTheWay :
              \/ \E i \in Prompts(host) :
                   p = [at |-> i, entry |-> host.inbox[i].id, texts |-> host.inbox[i].texts]
              \/ \E i \in Told(News, {"accepted"}) :
                   p = [at |-> Len(host.inbox) + i, entry |-> News[i].id,
                        texts |-> News[i].texts]
         /\ Prompts(host) # {} \/ Told(News, {"accepted"}) # {} => OnTheWay # {}
<1>1. Told(News, {"accepted"}) = {j \in DOMAIN News : News[j].is = "accepted"}
  BY DEF Told
<1> QED BY ZenonT(60), <1>1 DEF OnTheWay, Prompts

\* The provider is given one prompt at a time, and the transcript will show as said what
\* it was given.
THEOREM OneAtATime == Spec => []OneSubmission
<1>1. IInv => OneSubmission
  <2> SUFFICES ASSUME IInv
               PROVE  OneSubmission
    OBVIOUS
  <2>1. Held
    BY DEF IInv
  <2>2. SubmissionFits(host, News)
    BY <2>1, HeldFacts, NewsFacts
  <2>3. ASSUME NEW p \in OnTheWay, NEW q \in OnTheWay
        PROVE  p = q
    BY <2>1, <2>2, WayFacts DEF SubmissionFits
  <2>4. ASSUME NEW p \in OnTheWay
        PROVE  /\ host.delivery = p.entry
               /\ \E j \in DOMAIN host.queue : /\ host.queue[j].id = host.delivery
                                              /\ host.queue[j].texts = p.texts
    <3>1. host.delivery = p.entry /\ Holds(host, host.delivery, p.texts)
      BY <2>1, <2>2, WayFacts DEF SubmissionFits
    <3> QED BY <3>1 DEF Holds
  <2> QED BY <2>3, <2>4 DEF OneSubmission
<1> QED BY <1>1, Invariant, PTL

\* A thread does not sit at "Working" with nobody left to say that the turn, the
\* delivery or the background task is over.
THEOREM WorkEnds == Spec => []WorkingIsReal
<1>1. IInv => WorkingIsReal
  <2> SUFFICES ASSUME IInv
               PROVE  WorkingIsReal
    OBVIOUS
  <2>1. Held
    BY DEF IInv
  <2>2. SubmissionFits(host, News) /\ WorkFits(host, News, agent)
    BY <2>1, HeldFacts, NewsFacts
  <2>3. \A what : Pending(what) <=> Told(News, what) # {}
    BY DEF Pending, Told
  <2>4. host.delivery # 0 => OnTheWay # {} \/ Pending({"closed"})
    <3>1. host.delivery # 0 => Prompts(host) # {} \/ Told(News, {"accepted", "closed"}) # {}
      BY <2>2 DEF SubmissionFits
    <3>2. Told(News, {"accepted", "closed"}) # {} =>
            Told(News, {"accepted"}) # {} \/ Told(News, {"closed"}) # {}
      BY DEF Told
    <3> QED BY <2>1, <2>3, <3>1, <3>2, WayFacts
  <2>5. /\ host.turn => agent.prompts > 0 \/ Pending({"completed", "closed"})
        /\ host.tasks => agent.task \/ agent.prompts > 0 \/ Pending({"tasks", "closed"})
    BY <2>2, <2>3 DEF WorkFits
  <2> QED BY <2>4, <2>5 DEF WorkingIsReal
<1> QED BY <1>1, Invariant, PTL

\* An idle period of a live provider ends by its timer, and a scheduled message has the
\* timer that sends it.
THEOREM TimersGo == Spec => []TimersAreSet
<1>1. IInv => TimersAreSet
  <2> SUFFICES ASSUME IInv
               PROVE  TimersAreSet
    OBVIOUS
  <2>1. IdleFits(host) /\ Calm(host)
    BY HeldFacts, CoreFacts DEF IInv, Accounted
  <2> QED BY <2>1 DEF IdleFits, Calm, Live, TimersAreSet
<1> QED BY <1>1, Invariant, PTL

===============================================================================
