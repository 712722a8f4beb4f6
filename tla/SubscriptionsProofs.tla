-------------------------- MODULE SubscriptionsProofs --------------------------
(***************************************************************************)
(* The mux and the host agree on who is served, and everything reaches a   *)
(* client in the order of the rows, proved for every value of the          *)
(* constants.                                                              *)
(*                                                                         *)
(* Neither SubscriberIsServed nor NothingIsLeftOn is inductive: whether    *)
(* the host sends the topic follows from subscriptions and releases that   *)
(* cross answers on their way.  Flow has three parts.  Types bounds the    *)
(* variables.  Routes says where each request is: with its link, on a      *)
(* line, with the host (Asking), with the read of the log (Waiting) or in  *)
(* an answer (Tells), in one place only; and MuxFits reads off from that   *)
(* whether the host serves the topic, or will once it has read its         *)
(* channel.  OrderFits says that what is on its way to a client is in      *)
(* order, comes after what the client holds, and goes no further than      *)
(* what was sent.                                                          *)
(***************************************************************************)
EXTENDS Subscriptions, SequenceTheorems, FiniteSetTheorems, TLAPS

-------------------------------------------------------------------------------
(* Helpers on sequences *)

LEMMA SequenceElements ==
  ASSUME NEW S, NEW s \in Seq(S)
  PROVE  /\ Len(s) \in Nat /\ DOMAIN s = 1..Len(s)
         /\ \A i \in DOMAIN s : s[i] \in S
BY LenProperties, ElementOfSeq

LEMMA AppendElements ==
  ASSUME NEW S, NEW s \in Seq(S), NEW e \in S
  PROVE  /\ Append(s, e) \in Seq(S) /\ Append(s, e) # <<>>
         /\ DOMAIN Append(s, e) = 1..(Len(s) + 1)
         /\ \A i \in DOMAIN s : Append(s, e)[i] = s[i]
         /\ Append(s, e)[Len(s) + 1] = e
<1>1. DOMAIN s = 1..Len(s)
  BY SequenceElements
<1> QED BY <1>1, AppendProperties, LenProperties

LEMMA TailElements ==
  ASSUME NEW S, NEW s \in Seq(S), s # <<>>
  PROVE  /\ Tail(s) \in Seq(S) /\ DOMAIN s = 1..Len(s) /\ Len(s) \in Nat \ {0}
         /\ DOMAIN Tail(s) = 1..(Len(s) - 1)
         /\ \A i \in 1..(Len(s) - 1) : Tail(s)[i] = s[i + 1]
         /\ Head(s) = s[1] /\ Head(s) \in S
<1>1. Len(s) \in Nat \ {0}
  BY EmptySeq
<1>2. /\ Tail(s) \in Seq(S) /\ Len(Tail(s)) = Len(s) - 1 /\ Head(s) \in S
      /\ \A i \in 1..Len(Tail(s)) : Tail(s)[i] = s[i + 1]
  BY HeadTailProperties
<1>3. DOMAIN s = 1..Len(s) /\ DOMAIN Tail(s) = 1..Len(Tail(s))
  BY <1>2, LenProperties
<1>4. Head(s) = s[1]
  OBVIOUS
<1> QED BY <1>1, <1>2, <1>3, <1>4

LEMMA ConcatElements ==
  ASSUME NEW S, NEW s \in Seq(S), NEW t \in Seq(S)
  PROVE  /\ s \o t \in Seq(S)
         /\ DOMAIN (s \o t) = 1..(Len(s) + Len(t))
         /\ \A i \in DOMAIN s : (s \o t)[i] = s[i]
         /\ \A i \in DOMAIN t : Len(s) + i \in DOMAIN (s \o t) /\ (s \o t)[Len(s) + i] = t[i]
         /\ \A i \in DOMAIN (s \o t) :
              \/ i \in DOMAIN s /\ (s \o t)[i] = s[i]
              \/ i - Len(s) \in DOMAIN t /\ (s \o t)[i] = t[i - Len(s)]
<1>1. /\ Len(s) \in Nat /\ DOMAIN s = 1..Len(s)
      /\ Len(t) \in Nat /\ DOMAIN t = 1..Len(t)
  BY LenProperties
<1>2. /\ s \o t \in Seq(S) /\ Len(s \o t) = Len(s) + Len(t)
      /\ \A i \in 1..(Len(s) + Len(t)) :
           (s \o t)[i] = IF i <= Len(s) THEN s[i] ELSE t[i - Len(s)]
  BY ConcatProperties
<1>3. DOMAIN (s \o t) = 1..(Len(s) + Len(t))
  BY <1>2, LenProperties
<1> QED BY SMTT(60), <1>1, <1>2, <1>3

LEMMA RemoveAtElements ==
  ASSUME NEW S, NEW s \in Seq(S), NEW i \in DOMAIN s
  PROVE  /\ RemoveAt(s, i) \in Seq(S)
         /\ Len(s) \in Nat \ {0} /\ i \in 1..Len(s) /\ DOMAIN s = 1..Len(s)
         /\ DOMAIN RemoveAt(s, i) = 1..(Len(s) - 1)
         /\ Len(RemoveAt(s, i)) = Len(s) - 1
         /\ \A j \in 1..(Len(s) - 1) : RemoveAt(s, i)[j] = s[IF j < i THEN j ELSE j + 1]
<1> DEFINE before == SubSeq(s, 1, i - 1)
           after == SubSeq(s, i + 1, Len(s))
<1>1. Len(s) \in Nat /\ DOMAIN s = 1..Len(s) /\ i \in 1..Len(s)
  BY LenProperties
<1>2. \A j \in 1..Len(s) : s[j] \in S
  BY ElementOfSeq
<1>3. /\ before \in Seq(S) /\ Len(before) = i - 1
      /\ \A j \in 1..(i - 1) : before[j] = s[j]
  BY <1>1, <1>2, SubSeqProperties
<1>4. /\ after \in Seq(S) /\ Len(after) = Len(s) - i
      /\ \A j \in 1..(Len(s) - i) : after[j] = s[i + j]
  BY SMTT(60), <1>1, <1>2, SubSeqProperties
<1> HIDE DEF before, after
<1>0. Len(before) + Len(after) = Len(s) - 1
  BY <1>1, <1>3, <1>4
<1>5. /\ before \o after \in Seq(S) /\ Len(before \o after) = Len(s) - 1
      /\ \A j \in 1..(Len(s) - 1) :
           (before \o after)[j] = IF j <= i - 1 THEN before[j] ELSE after[j - (i - 1)]
  <2>1. /\ before \o after \in Seq(S)
        /\ Len(before \o after) = Len(before) + Len(after)
        /\ \A j \in 1..(Len(before) + Len(after)) : (before \o after)[j] =
             IF j <= Len(before) THEN before[j] ELSE after[j - Len(before)]
    BY <1>3, <1>4, ConcatProperties
  <2> QED BY <1>0, <1>3, <2>1
<1>6. \A j \in 1..(Len(s) - 1) : (before \o after)[j] = s[IF j < i THEN j ELSE j + 1]
  <2> SUFFICES ASSUME NEW j \in 1..(Len(s) - 1)
               PROVE  (before \o after)[j] = s[IF j < i THEN j ELSE j + 1]
    OBVIOUS
  <2>1. CASE j < i
    BY <1>1, <1>3, <1>5, <2>1
  <2>2. CASE ~(j < i)
    <3>1. j - (i - 1) \in 1..(Len(s) - i) /\ i + (j - (i - 1)) = j + 1
      BY <1>1, <2>2
    <3>2. (before \o after)[j] = after[j - (i - 1)]
      BY <1>1, <1>5, <2>2
    <3> QED BY <1>4, <2>2, <3>1, <3>2
  <2> QED BY <2>1, <2>2
<1>7. DOMAIN (before \o after) = 1..(Len(s) - 1)
  BY <1>5, LenProperties
<1>8. before \o after = RemoveAt(s, i)
  BY DEF RemoveAt, before, after
<1>9. \A j \in 1..(Len(s) - 1) : RemoveAt(s, i)[j] = s[IF j < i THEN j ELSE j + 1]
  BY <1>6, <1>8
<1>10. DOMAIN RemoveAt(s, i) = 1..(Len(s) - 1)
  BY <1>7, <1>8
<1>11. RemoveAt(s, i) \in Seq(S) /\ Len(RemoveAt(s, i)) = Len(s) - 1
  BY <1>5, <1>8
<1> QED BY <1>1, <1>9, <1>10, <1>11

LEMMA PrefixElements ==
  ASSUME NEW S, NEW s \in Seq(S), NEW n \in 0..Len(s)
  PROVE  /\ SubSeq(s, 1, n) \in Seq(S) /\ DOMAIN SubSeq(s, 1, n) = 1..n
         /\ DOMAIN s = 1..Len(s)
         /\ \A i \in 1..n : i \in DOMAIN s /\ SubSeq(s, 1, n)[i] = s[i]
<1>1. Len(s) \in Nat /\ DOMAIN s = 1..Len(s) /\ \A i \in 1..Len(s) : s[i] \in S
  BY SequenceElements
<1>2. \A i \in 1..n : s[i] \in S
  BY <1>1
<1>3. /\ SubSeq(s, 1, n) \in Seq(S) /\ Len(SubSeq(s, 1, n)) = n
      /\ \A i \in 1..n : SubSeq(s, 1, n)[i] = s[i]
  BY <1>1, <1>2, SubSeqProperties
<1> QED BY <1>1, <1>3, LenProperties

LEMMA OneElement ==
  ASSUME NEW S, NEW e \in S, NEW s \in Seq(S)
  PROVE  <<e>> \in Seq(S) /\ DOMAIN <<e>> = {1} /\ <<e>>[1] = e /\ Append(s, e) = s \o <<e>>
<1>1. Append(s, e) = s \o <<e>>
  BY AppendIsConcat
<1> QED BY <1>1

LEMMA NoElements ==
  ASSUME NEW S, NEW s \in Seq(S)
  PROVE  <<>> \in Seq(S) /\ DOMAIN <<>> = {} /\ s \o <<>> = s
BY ConcatEmptySeq, EmptySeq

LEMMA MadeElements ==
  ASSUME NEW S, NEW n \in Nat, NEW s, s = [i \in 1..n |-> s[i]], \A i \in 1..n : s[i] \in S
  PROVE  s \in Seq(S) /\ Len(s) = n /\ DOMAIN s = 1..n
<1>1. s \in [1..n -> S]
  OBVIOUS
<1> QED BY <1>1

-------------------------------------------------------------------------------
(* The types *)

FromHost ==
  [kind : {"window", "failed", "ack", "refused"}, request : Requests,
   from : Rows, end : Rows, total : Rows]
  \union [kind : {"event"}, request : {None}, from : Rows, end : Rows,
           total : Rows \ {0}]

ToClient ==
  [kind : {"window", "failed", "refused", "scope"}, request : Nat,
   from : Rows, end : Rows, total : Rows]
  \union [kind : {"event"}, request : {None}, from : Rows, end : Rows,
           total : Rows \ {0}]

ToHost == Subscribing(Requests) \union {Unsubscribing}
LinkLines == Subscribing(Nat) \union {Unsubscribing}
Closing == Line("closed", None, None)
Links ==
  [up : BOOLEAN, epoch : Nat, wants : BOOLEAN, after : Cursors, awaits : Nat \union {None},
   asked : Nat, out : LinkLines \union {None}]
Stores ==
  [scoped : BOOLEAN, held : Replicas \union {None}, baseline : BOOLEAN,
   catching : BOOLEAN, failed : BOOLEAN]

HostTypes ==
  /\ log \in Rows
  /\ host \in [place : {"none", "viewed", "parked"}, cached : BOOLEAN, subscribed : BOOLEAN]
  /\ hydration = None \/ (hydration \in Hydrations /\ hydration.cut <= log)
  /\ host.cached => hydration = None
  /\ toHost \in Seq(ToHost) /\ fromHost \in Seq(FromHost)
  /\ shown \in BOOLEAN /\ gap \in BOOLEAN /\ (shown => host.subscribed)

MuxTypes ==
  /\ topics \subseteq Conns /\ pending \subseteq Requests /\ deferred \in BOOLEAN
  /\ lines \in [Conns -> Seq(LinkLines \union {Closing})]

ClientTypes ==
  /\ inbox \in [Clients -> Seq(ToClient)]
  /\ link \in [Clients -> Links] /\ store \in [Clients -> Stores]

CountTypes == asks \in 0..MaxAsks /\ upsets \in 0..MaxUpsets

Types == HostTypes /\ MuxTypes /\ ClientTypes /\ CountTypes

LEMMA NoneFacts ==
  /\ None \notin Nat /\ None \notin Requests /\ None \notin Hydrations
  /\ None \notin Replicas /\ None \notin LinkLines
BY NoneAssumption DEF LinkLines

LEMMA RowFacts ==
  /\ MaxRecords \in Nat /\ MaxAsks \in Nat /\ MaxUpsets \in Nat /\ WindowRows \in Nat \ {0}
  /\ Rows \subseteq Nat /\ 0 \in Rows
BY BoundsAssumption DEF Rows

LEMMA EventFacts ==
  ASSUME NEW row \in Rows \ {0}
  PROVE  /\ Event(row) \in FromHost /\ Event(row).kind = "event" /\ Event(row).request = None
         /\ Event(row).end = row /\ Event(row).total = row
<1>1. row - 1 \in Rows
  BY RowFacts DEF Rows
<1> QED BY <1>1 DEF Event, Message, FromHost

\* What an answer to request r may be.
IsAnswer(m, r, n) ==
  /\ m \in FromHost /\ m.request = r /\ m.kind \in {"window", "failed", "ack"}
  /\ m.total <= n /\ m.from <= m.end /\ m.end <= m.total

LEMMA WindowFacts ==
  ASSUME NEW reply \in Asked, NEW total \in Rows
  PROVE  /\ Window(reply, total) \in FromHost /\ Window(reply, total).kind = "window"
         /\ Window(reply, total).total = total
         /\ IsAnswer(Window(reply, total), reply.request, total)
<1> DEFINE newest == IF total > WindowRows THEN total - WindowRows ELSE 0
           from == IF reply.after = None \/ reply.after > total THEN newest ELSE reply.after
           end == IF total - from > WindowRows THEN from + WindowRows ELSE total
<1>1. newest \in 0..total
  BY RowFacts
<1>2. reply.after \in Cursors /\ reply.request \in Requests
  BY DEF Asked
<1>3. from \in 0..total
  <2>1. reply.after # None => reply.after \in Nat
    BY <1>2, RowFacts DEF Cursors
  <2> QED BY <1>1, <2>1, RowFacts
<1> HIDE DEF newest, from
<1>4. end \in from..total
  BY <1>3, RowFacts
<1>5. from \in Rows /\ end \in Rows /\ from <= end /\ end <= total
  BY <1>3, <1>4, RowFacts DEF Rows
<1> HIDE DEF end
<1>6. Window(reply, total) = Message("window", reply.request, from, end, total)
  BY DEF Window, newest, from, end
<1>7. Message("window", reply.request, from, end, total) \in FromHost
  BY <1>2, <1>5 DEF Message, FromHost
<1> QED BY <1>2, <1>5, <1>6, <1>7, RowFacts DEF IsAnswer, Message

LEMMA AnswerFacts ==
  ASSUME NEW reply \in Asked, NEW m, NEW n \in Rows, IsAnswer(m, reply.request, n)
  PROVE  /\ IsAnswer(Answer(reply, m), reply.request, n)
         /\ host.subscribed => Answer(reply, m) = m
         /\ ~host.subscribed => Answer(reply, m).kind = "ack"
<1>1. CASE host.subscribed
  BY <1>1 DEF Answer
<1>2. CASE ~host.subscribed
  <2>1. Answer(reply, m) = Message("ack", reply.request, 0, 0, 0)
    BY <1>2 DEF Answer
  <2>2. reply.request \in Requests
    BY DEF Asked
  <2>3. IsAnswer(Answer(reply, m), reply.request, n) /\ Answer(reply, m).kind = "ack"
    BY <2>1, <2>2, RowFacts DEF IsAnswer, Message, FromHost
  <2> QED BY <1>2, <2>3
<1> QED BY <1>1, <1>2

LEMMA RepliesFacts ==
  ASSUME NEW replies \in Seq(Asked), NEW total \in Rows
  PROVE  /\ Replies(replies, total) \in Seq(FromHost)
         /\ DOMAIN Replies(replies, total) = DOMAIN replies
         /\ \A i \in DOMAIN replies :
              /\ IsAnswer(Replies(replies, total)[i], replies[i].request, total)
              /\ host.subscribed => Replies(replies, total)[i] = Window(replies[i], total)
              /\ ~host.subscribed => Replies(replies, total)[i].kind = "ack"
<1>1. Len(replies) \in Nat /\ DOMAIN replies = 1..Len(replies)
      /\ \A i \in DOMAIN replies : replies[i] \in Asked
  BY SequenceElements
<1>2. \A i \in DOMAIN replies :
        LET a == Answer(replies[i], Window(replies[i], total))
        IN /\ IsAnswer(a, replies[i].request, total)
           /\ host.subscribed => a = Window(replies[i], total)
           /\ ~host.subscribed => a.kind = "ack"
  BY <1>1, WindowFacts, AnswerFacts
<1>3. /\ DOMAIN Replies(replies, total) = 1..Len(replies)
      /\ \A i \in DOMAIN replies :
           Replies(replies, total)[i] = Answer(replies[i], Window(replies[i], total))
  BY <1>1 DEF Replies
<1>4. \A i \in DOMAIN replies : Replies(replies, total)[i] \in FromHost
  BY <1>2, <1>3 DEF IsAnswer
<1>5. Replies(replies, total) \in Seq(FromHost)
  <2> DEFINE n == Len(replies)
             s == Replies(replies, total)
  <2>1. s = [i \in 1..n |-> s[i]]
    BY <1>1 DEF Replies
  <2>2. \A i \in 1..n : s[i] \in FromHost
    BY <1>1, <1>4
  <2>3. n \in Nat
    BY <1>1
  <2> HIDE DEF s, n
  <2>4. s \in Seq(FromHost)
    BY <2>1, <2>2, <2>3, MadeElements
  <2> QED BY <2>4 DEF s
<1> QED BY <1>1, <1>2, <1>3, <1>5

LEMMA FailuresFacts ==
  ASSUME NEW replies \in Seq(Asked)
  PROVE  /\ Failures(replies) \in Seq(FromHost)
         /\ DOMAIN Failures(replies) = DOMAIN replies
         /\ \A i \in DOMAIN replies :
              /\ IsAnswer(Failures(replies)[i], replies[i].request, 0)
              /\ Failures(replies)[i].kind # "window"
<1>1. Len(replies) \in Nat /\ DOMAIN replies = 1..Len(replies)
      /\ \A i \in DOMAIN replies : replies[i] \in Asked
  BY SequenceElements
<1>2. \A i \in DOMAIN replies :
        LET m == Message("failed", replies[i].request, 0, 0, 0)
            a == Answer(replies[i], m)
        IN IsAnswer(a, replies[i].request, 0) /\ a.kind # "window"
  <2> SUFFICES ASSUME NEW i \in DOMAIN replies
               PROVE  LET m == Message("failed", replies[i].request, 0, 0, 0)
                          a == Answer(replies[i], m)
                      IN IsAnswer(a, replies[i].request, 0) /\ a.kind # "window"
    OBVIOUS
  <2> DEFINE m == Message("failed", replies[i].request, 0, 0, 0)
  <2>1. replies[i] \in Asked /\ replies[i].request \in Requests
    BY <1>1 DEF Asked
  <2>2. IsAnswer(m, replies[i].request, 0) /\ m.kind = "failed"
    BY <2>1, RowFacts DEF IsAnswer, Message, FromHost
  <2> HIDE DEF m
  <2>3. /\ IsAnswer(Answer(replies[i], m), replies[i].request, 0)
        /\ Answer(replies[i], m) = m \/ Answer(replies[i], m).kind = "ack"
    BY <2>1, <2>2, RowFacts, AnswerFacts
  <2> QED BY <2>2, <2>3 DEF m
<1>3. /\ DOMAIN Failures(replies) = 1..Len(replies)
      /\ \A i \in DOMAIN replies : Failures(replies)[i] =
           Answer(replies[i], Message("failed", replies[i].request, 0, 0, 0))
  BY <1>1 DEF Failures
<1>4. \A i \in DOMAIN replies : Failures(replies)[i] \in FromHost
  BY <1>2, <1>3 DEF IsAnswer
<1>5. Failures(replies) \in Seq(FromHost)
  <2> DEFINE n == Len(replies)
             s == Failures(replies)
  <2>1. s = [i \in 1..n |-> s[i]]
    BY <1>1 DEF Failures
  <2>2. \A i \in 1..n : s[i] \in FromHost
    BY <1>1, <1>4
  <2>3. n \in Nat
    BY <1>1
  <2> HIDE DEF s, n
  <2>4. s \in Seq(FromHost)
    BY <2>1, <2>2, <2>3, MadeElements
  <2> QED BY <2>4 DEF s
<1> QED BY <1>1, <1>2, <1>3, <1>5

LEMMA HeldFacts ==
  ASSUME log \in Rows, hydration \in Hydrations, hydration.cut <= log
  PROVE  /\ Held \in Seq(FromHost) /\ Len(Held) = log - hydration.cut
         /\ hydration.cut \in Rows /\ DOMAIN Held = 1..(log - hydration.cut)
         /\ \A i \in DOMAIN Held :
              Held[i].kind = "event" /\ Held[i].end = hydration.cut + i
                /\ Held[i].total = hydration.cut + i
<1> DEFINE n == log - hydration.cut
           s == Held
<1>1. hydration.cut \in Nat /\ n \in Nat /\ log \in Nat /\ hydration.cut \in Rows
  BY RowFacts DEF Hydrations, Rows
<1>2. \A i \in 1..n : hydration.cut + i \in Rows \ {0}
  BY <1>1, RowFacts DEF Rows
<1>3. s = [i \in 1..n |-> s[i]] /\ \A i \in 1..n : s[i] = Event(hydration.cut + i)
  BY DEF Held
<1>4. \A i \in 1..n : s[i] \in FromHost
  BY <1>2, <1>3, EventFacts
<1> HIDE DEF s
<1>5. s \in Seq(FromHost) /\ Len(s) = n /\ DOMAIN s = 1..n
  BY <1>1, <1>3, <1>4, MadeElements
<1>6. \A i \in 1..n : /\ s[i].kind = "event" /\ s[i].end = hydration.cut + i
                      /\ s[i].total = hydration.cut + i
  <2> SUFFICES ASSUME NEW i \in 1..n
               PROVE  /\ s[i].kind = "event" /\ s[i].end = hydration.cut + i
                      /\ s[i].total = hydration.cut + i
    OBVIOUS
  <2>1. hydration.cut + i \in Rows \ {0} /\ s[i] = Event(hydration.cut + i)
    BY <1>2, <1>3
  <2> HIDE DEF n
  <2> QED BY <2>1, EventFacts
<1> QED BY <1>1, <1>5, <1>6 DEF s

-------------------------------------------------------------------------------
(* The invariant *)

LinkFits(l, lost) ==
  /\ l.epoch + (IF l.up THEN 0 ELSE 1) <= lost
  /\ l.out # None /\ l.out.kind = "subscribe" => l.out.request <= l.asked
  /\ l.awaits # None => l.wants /\ l.awaits = l.asked
  /\ l.up /\ l.out = Unsubscribing => ~l.wants

Over(conn) == LET l == link[conn[1]] IN conn[2] < l.epoch \/ (conn[2] = l.epoch /\ ~l.up)
LinesFit(conn) ==
  /\ lines[conn] # <<>> => Over(conn)
  /\ \A i \in DOMAIN lines[conn] : i > 1 => lines[conn][i].kind = "closed"
  /\ \A i \in DOMAIN lines[conn] : lines[conn][i].kind = "subscribe" =>
        lines[conn][i].request <= link[conn[1]].asked

Asks(s) == {i \in DOMAIN s : s[i].kind = "subscribe"}
Told(s) == {i \in DOMAIN s : s[i].kind # "event"}
Answers(s) == {i \in DOMAIN s : s[i].kind \in {"window", "failed", "ack"}}
RequestsAt(s, at) == {s[i].request : i \in at}
OneEach(s, at) == \A i, j \in at : s[i].request = s[j].request => i = j
Tells(s) == RequestsAt(s, Told(s))
Replied(s) == RequestsAt(s, Answers(s))

Waiters == IF hydration = None THEN <<>> ELSE hydration.replies
Asking == RequestsAt(toHost, Asks(toHost))
Waiting == RequestsAt(Waiters, DOMAIN Waiters)
InHand == Waiting \union Replied(fromHost)
Flight == Asking \union Waiting \union Tells(fromHost)

Unique ==
  /\ OneEach(toHost, Asks(toHost)) /\ OneEach(Waiters, DOMAIN Waiters)
  /\ OneEach(fromHost, Told(fromHost))
  /\ \A r \in Asking : r \notin Waiting /\ r \notin Tells(fromHost)
  /\ \A r \in Waiting : r \notin Tells(fromHost)

Older(r, line) == line.kind = "subscribe" => r.id < line.request
FlightFits(r) ==
  LET l == link[r.conn[1]]
  IN /\ r.conn[2] <= l.epoch /\ r.id <= l.asked
     /\ l.up /\ r.conn[2] = l.epoch /\ l.out # None => Older(r, l.out)
     /\ \A i \in DOMAIN lines[r.conn] : Older(r, lines[r.conn][i])

Releases(s) == {i \in DOMAIN s : s[i].kind = "unsubscribe"}
Serving == host.subscribed /\ Releases(toHost) = {}

MuxFits ==
  /\ \A r \in InHand : r \in pending => Serving
  /\ \A i \in Asks(toHost) : toHost[i].request \in pending => \A j \in Releases(toHost) : j < i
  /\ topics # {} => Serving
  /\ deferred => topics = {} /\ pending # {}
  /\ topics = {} /\ ~deferred /\ Serving => \E r \in InHand : r \in pending
  /\ topics = {} /\ ~deferred => \A i \in Asks(toHost) :
       toHost[i].request \notin pending => \E j \in Releases(toHost) : i < j

Sent == IF hydration # None /\ ~hydration.live THEN hydration.cut ELSE log
Events(s) == {i \in DOMAIN s : s[i].kind = "event"}
WellMade(s) == \A i \in DOMAIN s :
  /\ s[i].kind = "event" => s[i].end = s[i].total
  /\ s[i].kind = "window" => s[i].from <= s[i].end /\ s[i].end <= s[i].total
Precedes(p, s) == \A j \in Events(s) : p < s[j].total
Rising(s) == \A i \in DOMAIN s, j \in Events(s) : i < j => s[i].total < s[j].total
AllPrecede(s, t) == \A i \in DOMAIN s : Precedes(s[i].total, t)
Within(s, n) == \A i \in DOMAIN s : s[i].total <= n

Ordered(s, n) == WellMade(s) /\ Rising(s) /\ Within(s, n)
ClientOrdered(c) ==
  /\ Ordered(inbox[c], Sent) /\ AllPrecede(inbox[c], fromHost)
  /\ store[c].held # None =>
       /\ HeldEnd(store[c].held) <= Sent
       /\ Precedes(HeldEnd(store[c].held), inbox[c])
       /\ Precedes(HeldEnd(store[c].held), fromHost)
  /\ store[c].baseline => store[c].held # None /\ link[c].wants

OrderFits == Ordered(fromHost, Sent) /\ \A c \in Clients : ClientOrdered(c)

-------------------------------------------------------------------------------
(* Sequences of messages *)

LEMMA TailTold ==
  ASSUME NEW S, NEW s \in Seq(S), s # <<>>
  PROVE  /\ \A r \in Tells(Tail(s)) : r \in Tells(s)
         /\ \A r \in Replied(Tail(s)) : r \in Replied(s)
         /\ \A r \in Tells(s) : r \in Tells(Tail(s))
              \/ (r = Head(s).request /\ Head(s).kind # "event")
         /\ \A r \in Replied(s) : r \in Replied(Tail(s))
              \/ (r = Head(s).request /\ Head(s).kind \in {"window", "failed", "ack"})
         /\ Head(s).kind # "event" => Head(s).request \in Tells(s)
         /\ Head(s).kind \in {"window", "failed", "ack"} => Head(s).request \in Replied(s)
         /\ OneEach(s, Told(s)) =>
              /\ OneEach(Tail(s), Told(Tail(s)))
              /\ Head(s).kind # "event" => Head(s).request \notin Tells(Tail(s))
<1> DEFINE t == Tail(s)
<1>1. /\ DOMAIN s = 1..Len(s) /\ Len(s) \in Nat \ {0} /\ DOMAIN t = 1..(Len(s) - 1)
      /\ Head(s) = s[1] /\ \A i \in 1..(Len(s) - 1) : t[i] = s[i + 1]
  BY TailElements
<1> HIDE DEF t
<1>2. \A i \in DOMAIN t : i + 1 \in DOMAIN s /\ t[i] = s[i + 1] /\ i + 1 # 1
  BY <1>1
<1>3. \A i \in DOMAIN s : i # 1 => i - 1 \in DOMAIN t /\ t[i - 1] = s[i]
  BY <1>1
<1>4. 1 \in DOMAIN s
  BY <1>1
<1>5. \A r \in Tells(t) : r \in Tells(s)
  BY <1>2 DEF Tells, RequestsAt, Told
<1>6. \A r \in Replied(t) : r \in Replied(s)
  BY <1>2 DEF Replied, RequestsAt, Answers
<1>7. \A r \in Tells(s) : r \in Tells(t) \/ (r = s[1].request /\ s[1].kind # "event")
  BY <1>3 DEF Tells, RequestsAt, Told
<1>8. \A r \in Replied(s) : r \in Replied(t)
        \/ (r = s[1].request /\ s[1].kind \in {"window", "failed", "ack"})
  BY <1>3 DEF Replied, RequestsAt, Answers
<1>9. /\ s[1].kind # "event" => s[1].request \in Tells(s)
      /\ s[1].kind \in {"window", "failed", "ack"} => s[1].request \in Replied(s)
  BY <1>4 DEF Tells, Replied, RequestsAt, Told, Answers
<1>10. ASSUME OneEach(s, Told(s))
       PROVE  /\ OneEach(t, Told(t))
              /\ s[1].kind # "event" => s[1].request \notin Tells(t)
  <2>1. \A i, j \in DOMAIN t : i + 1 = j + 1 => i = j
    BY <1>1
  <2>2. OneEach(t, Told(t))
    BY <1>2, <1>10, <2>1 DEF OneEach, Told
  <2>3. s[1].kind # "event" => s[1].request \notin Tells(t)
    BY <1>2, <1>4, <1>10 DEF OneEach, Told, Tells, RequestsAt
  <2> QED BY <2>2, <2>3
<1> QED BY <1>1, <1>5, <1>6, <1>7, <1>8, <1>9, <1>10 DEF t

LEMMA ConcatTold ==
  ASSUME NEW S, NEW s \in Seq(S), NEW t \in Seq(S)
  PROVE  /\ \A r : r \in Tells(s \o t) <=> (r \in Tells(s) \/ r \in Tells(t))
         /\ \A r : r \in Replied(s \o t) <=> (r \in Replied(s) \/ r \in Replied(t))
         /\ OneEach(s, Told(s)) /\ OneEach(t, Told(t)) /\ (\A r \in Tells(s) : r \notin Tells(t))
              => OneEach(s \o t, Told(s \o t))
<1> DEFINE u == s \o t
<1>1. /\ \A i \in DOMAIN s : i \in DOMAIN u /\ u[i] = s[i]
      /\ \A i \in DOMAIN t : Len(s) + i \in DOMAIN u /\ u[Len(s) + i] = t[i]
      /\ \A i \in DOMAIN u : \/ i \in DOMAIN s /\ u[i] = s[i]
                             \/ i - Len(s) \in DOMAIN t /\ u[i] = t[i - Len(s)]
      /\ Len(s) \in Nat /\ DOMAIN s = 1..Len(s) /\ DOMAIN t = 1..Len(t)
      /\ Len(t) \in Nat /\ DOMAIN u = 1..(Len(s) + Len(t))
  BY ConcatElements, SequenceElements
<1> HIDE DEF u
<1>2. \A r : r \in Tells(u) <=> (r \in Tells(s) \/ r \in Tells(t))
  BY <1>1 DEF Tells, RequestsAt, Told
<1>3. \A r : r \in Replied(u) <=> (r \in Replied(s) \/ r \in Replied(t))
  BY <1>1 DEF Replied, RequestsAt, Answers
<1>4. ASSUME OneEach(s, Told(s)), OneEach(t, Told(t)), \A r \in Tells(s) : r \notin Tells(t)
      PROVE  OneEach(u, Told(u))
  <2> SUFFICES ASSUME NEW i \in Told(u), NEW j \in Told(u), u[i].request = u[j].request
               PROVE  i = j
    BY DEF OneEach
  <2>1. \A k \in Told(u) :
          \/ k \in Told(s) /\ u[k] = s[k] /\ u[k].request \in Tells(s)
          \/ k - Len(s) \in Told(t) /\ u[k] = t[k - Len(s)] /\ u[k].request \in Tells(t)
    BY <1>1 DEF Told, Tells, RequestsAt
  <2>2. CASE i \in Told(s) /\ u[i] = s[i] /\ j \in Told(s) /\ u[j] = s[j]
    BY <1>4, <2>2 DEF OneEach
  <2>3. CASE /\ i - Len(s) \in Told(t) /\ u[i] = t[i - Len(s)]
             /\ j - Len(s) \in Told(t) /\ u[j] = t[j - Len(s)]
    <3>1. i - Len(s) = j - Len(s)
      BY <1>4, <2>3 DEF OneEach
    <3>2. i \in Nat /\ j \in Nat
      BY <1>1 DEF Told
    <3> QED BY <1>1, <3>1, <3>2
  <2> QED BY <1>4, <2>1, <2>2, <2>3
<1> QED BY <1>2, <1>3, <1>4 DEF u

LEMMA OrderedConcat ==
  ASSUME NEW S, NEW s \in Seq(S), NEW t \in Seq(S), \A e \in S : e.total \in Nat,
         NEW n \in Nat, NEW m \in Nat, n <= m, Ordered(s, n), Ordered(t, m), Precedes(n, t)
  PROVE  /\ Ordered(s \o t, m)
         /\ \A p \in Nat : p <= n /\ Precedes(p, s) => Precedes(p, s \o t)
<1> DEFINE u == s \o t
<1>1. /\ \A i \in DOMAIN s : i \in DOMAIN u /\ u[i] = s[i]
      /\ \A i \in DOMAIN t : Len(s) + i \in DOMAIN u /\ u[Len(s) + i] = t[i]
      /\ \A i \in DOMAIN u : \/ i \in DOMAIN s /\ u[i] = s[i]
                             \/ i - Len(s) \in DOMAIN t /\ u[i] = t[i - Len(s)]
      /\ Len(s) \in Nat /\ DOMAIN s = 1..Len(s) /\ DOMAIN t = 1..Len(t)
      /\ Len(t) \in Nat /\ DOMAIN u = 1..(Len(s) + Len(t))
  BY ConcatElements, SequenceElements
<1>2. /\ \A i \in DOMAIN s : s[i].total \in Nat
      /\ \A i \in DOMAIN t : t[i].total \in Nat
  BY SequenceElements
<1> HIDE DEF u
<1>3. WellMade(u)
  BY SMTT(60), <1>1 DEF Ordered, WellMade
<1>4. Within(u, m)
  <2>1. \A i \in DOMAIN s : s[i].total <= m
    BY <1>2 DEF Ordered, Within
  <2> QED BY <1>1, <2>1 DEF Ordered, Within
<1>5. Rising(u)
  <2> SUFFICES ASSUME NEW i \in DOMAIN u, NEW j \in Events(u), i < j
               PROVE  u[i].total < u[j].total
    BY DEF Rising
  <2>1. CASE j \in DOMAIN s /\ u[j] = s[j]
    <3>1. i \in DOMAIN s /\ u[i] = s[i] /\ j \in Events(s)
      BY <1>1, <2>1 DEF Events
    <3> QED BY <2>1, <3>1 DEF Ordered, Rising
  <2>2. CASE j - Len(s) \in DOMAIN t /\ u[j] = t[j - Len(s)]
    <3>1. j - Len(s) \in Events(t)
      BY <2>2 DEF Events
    <3>2. CASE i \in DOMAIN s /\ u[i] = s[i]
      <4>1. n < t[j - Len(s)].total /\ s[i].total <= n
        BY <3>1, <3>2 DEF Precedes, Ordered, Within
      <4> QED BY <1>2, <2>2, <3>2, <4>1
    <3>3. CASE i - Len(s) \in DOMAIN t /\ u[i] = t[i - Len(s)]
      <4>1. i - Len(s) < j - Len(s)
        BY <1>1 DEF Events
      <4> QED BY <2>2, <3>1, <3>3, <4>1 DEF Ordered, Rising
    <3> QED BY <1>1, <3>2, <3>3
  <2> QED BY <1>1, <2>1, <2>2 DEF Events
<1>6. ASSUME NEW p \in Nat, p <= n, Precedes(p, s)
      PROVE  Precedes(p, u)
  <2>1. \A j \in Events(t) : p < t[j].total
    BY <1>2, <1>6 DEF Precedes, Events
  <2> QED BY <1>1, <1>6, <2>1 DEF Precedes, Events
<1> QED BY <1>3, <1>4, <1>5, <1>6 DEF u, Ordered

LEMMA OrderedTail ==
  ASSUME NEW S, NEW s \in Seq(S), s # <<>>, NEW n, Ordered(s, n)
  PROVE  /\ Ordered(Tail(s), n) /\ Precedes(Head(s).total, Tail(s)) /\ Head(s).total <= n
         /\ \A p : Precedes(p, s) => Precedes(p, Tail(s))
         /\ \A u : AllPrecede(s, u) => AllPrecede(Tail(s), u) /\ Precedes(Head(s).total, u)
<1> DEFINE t == Tail(s)
<1>1. /\ DOMAIN s = 1..Len(s) /\ Len(s) \in Nat \ {0} /\ DOMAIN t = 1..(Len(s) - 1)
      /\ Head(s) = s[1] /\ \A i \in 1..(Len(s) - 1) : t[i] = s[i + 1]
  BY TailElements
<1> HIDE DEF t
<1>2. \A i \in DOMAIN t : i + 1 \in DOMAIN s /\ t[i] = s[i + 1] /\ 1 < i + 1
  BY <1>1
<1>3. 1 \in DOMAIN s
  BY <1>1
<1>4. \A i, j \in DOMAIN t : i < j => i + 1 < j + 1
  BY <1>1
<1>5. WellMade(t) /\ Within(t, n)
  BY <1>2 DEF Ordered, WellMade, Within
<1>6. Rising(t)
  BY <1>2, <1>4 DEF Ordered, Rising, Events
<1>7. Precedes(s[1].total, t) /\ s[1].total <= n
  BY <1>2, <1>3 DEF Ordered, Rising, Precedes, Events, Within
<1>8. \A p : Precedes(p, s) => Precedes(p, t)
  BY <1>2 DEF Precedes, Events
<1>9. \A u : AllPrecede(s, u) => AllPrecede(t, u) /\ Precedes(s[1].total, u)
  BY <1>2, <1>3 DEF AllPrecede
<1> QED BY <1>1, <1>5, <1>6, <1>7, <1>8, <1>9 DEF t, Ordered

LEMMA OrderedPrefix ==
  ASSUME NEW S, NEW s \in Seq(S), NEW k \in 0..Len(s), NEW n, Ordered(s, n)
  PROVE  /\ Ordered(SubSeq(s, 1, k), n)
         /\ \A p : Precedes(p, s) => Precedes(p, SubSeq(s, 1, k))
         /\ \A u : AllPrecede(s, u) => AllPrecede(SubSeq(s, 1, k), u)
<1> DEFINE t == SubSeq(s, 1, k)
<1>1. DOMAIN t = 1..k /\ \A i \in 1..k : i \in DOMAIN s /\ t[i] = s[i]
  BY PrefixElements
<1> HIDE DEF t
<1>2. WellMade(t) /\ Within(t, n) /\ Rising(t)
  BY <1>1 DEF Ordered, WellMade, Within, Rising, Events
<1>3. \A p : Precedes(p, s) => Precedes(p, t)
  BY <1>1 DEF Precedes, Events
<1>4. \A u : AllPrecede(s, u) => AllPrecede(t, u)
  BY <1>1 DEF AllPrecede
<1> QED BY <1>2, <1>3, <1>4 DEF t, Ordered

LEMMA OrderedWider ==
  ASSUME NEW S, NEW s \in Seq(S), \A e \in S : e.total \in Nat,
         NEW n \in Nat, NEW m \in Nat, n <= m, Ordered(s, n)
  PROVE  Ordered(s, m)
<1>1. \A i \in DOMAIN s : s[i].total \in Nat
  BY SequenceElements
<1> QED BY <1>1 DEF Ordered, Within

-------------------------------------------------------------------------------
(* What the host sends *)

\* The rows after p up to n are all among the events of s after place i, up to j.
Filled(s, i, j, p, n) ==
  \A row \in (p + 1)..n : \E k \in Events(s) : i < k /\ k <= j /\ s[k].end = row

\* No record is left out where somebody was answered, nor after a window.
Carries(t) ==
  /\ gap' \/ ~shown \/ Filled(t, 0, Len(t), Sent, Sent')
  /\ \A i \in DOMAIN t : t[i].kind = "window" =>
       shown' /\ Filled(t, i, Len(t), t[i].total, Sent')

\* What a step of the host sends: t, in order and after all that was sent before.
Says(t) ==
  /\ t \in Seq(FromHost) /\ fromHost' = fromHost \o t
  /\ Ordered(t, Sent') /\ Precedes(Sent, t)
  /\ Sent \in Rows /\ Sent' \in Rows /\ Sent <= Sent'
  /\ Carries(t)

Quiet(t) == \A i \in DOMAIN t : t[i].kind = "event"

LEMMA SentFacts ==
  ASSUME HostTypes
  PROVE  Sent \in Rows /\ Sent <= log /\ Waiters \in Seq(Asked)
<1>1. log \in Rows /\ (hydration # None => hydration \in Hydrations /\ hydration.cut <= log)
  BY DEF HostTypes
<1>2. hydration # None => hydration.cut \in Nat /\ hydration.replies \in Seq(Asked)
  BY <1>1 DEF Hydrations
<1> QED BY <1>1, <1>2, RowFacts, EmptySeq DEF Sent, Waiters, Rows

LEMMA SaysNothing ==
  ASSUME HostTypes, fromHost' = fromHost, Sent' \in Rows, Sent <= Sent',
         gap' \/ ~shown \/ Sent' = Sent
  PROVE  Says(<<>>) /\ Quiet(<<>>)
<1>1. fromHost \in Seq(FromHost)
  BY DEF HostTypes
<1>2. <<>> \in Seq(FromHost) /\ DOMAIN <<>> = {} /\ fromHost \o <<>> = fromHost
  BY <1>1, NoElements
<1>3. Sent \in Rows
  BY SentFacts
<1>4. Ordered(<<>>, Sent') /\ Precedes(Sent, <<>>) /\ Quiet(<<>>)
  BY <1>2 DEF Ordered, WellMade, Rising, Within, Precedes, Events, Quiet
<1>5. Carries(<<>>)
  <2>1. Sent' = Sent => \A row : row \notin (Sent + 1)..Sent'
    BY <1>3, RowFacts
  <2> QED BY <1>2, <2>1 DEF Carries, Filled
<1> QED BY <1>2, <1>3, <1>4, <1>5 DEF Says

LEMMA SaysOne ==
  ASSUME HostTypes, NEW m \in FromHost, fromHost' = Append(fromHost, m),
         Sent' \in Rows, Sent <= Sent', m.total <= Sent',
         m.kind = "window" => m.from <= m.end /\ m.end <= m.total /\ m.total = Sent' /\ shown',
         m.kind = "event" => m.end = m.total /\ m.total = Sent + 1,
         Sent' = IF m.kind = "event" THEN Sent + 1 ELSE Sent
  PROVE  Says(<<m>>) /\ (m.kind = "event" => Quiet(<<m>>))
<1>1. fromHost \in Seq(FromHost)
  BY DEF HostTypes
<1>2. /\ <<m>> \in Seq(FromHost) /\ DOMAIN <<m>> = {1} /\ <<m>>[1] = m
      /\ Append(fromHost, m) = fromHost \o <<m>>
  BY <1>1, OneElement
<1>3. Sent \in Rows
  BY SentFacts
<1>4. Ordered(<<m>>, Sent') /\ Precedes(Sent, <<m>>) /\ (m.kind = "event" => Quiet(<<m>>))
  <2> DEFINE t == <<m>>
  <2>1. DOMAIN t = {1} /\ t[1] = m
    BY <1>2
  <2> HIDE DEF t
  <2>2. WellMade(t) /\ Rising(t) /\ Within(t, Sent') /\ Precedes(Sent, t)
    BY <1>3, <2>1, RowFacts DEF WellMade, Rising, Within, Precedes, Events
  <2>3. m.kind = "event" => Quiet(t)
    BY <2>1 DEF Quiet
  <2> QED BY <2>2, <2>3 DEF t, Ordered
<1>5. Carries(<<m>>)
  <2> DEFINE t == <<m>>
  <2>1. DOMAIN t = {1} /\ t[1] = m /\ Len(t) = 1 /\ Sent \in Nat
    BY <1>2, <1>3, RowFacts
  <2> HIDE DEF t
  <2>2. CASE m.kind = "event"
    <3>1. \A row \in (Sent + 1)..Sent' : row = m.end
      BY <2>1, <2>2
    <3>2. 1 \in Events(t) /\ 0 < 1 /\ 1 <= Len(t)
      BY <2>1, <2>2 DEF Events
    <3>3. Filled(t, 0, Len(t), Sent, Sent')
      BY <2>1, <3>1, <3>2 DEF Filled
    <3>4. \A i \in DOMAIN t : t[i].kind # "window"
      BY <2>1, <2>2
    <3>5. Carries(t)
      BY <3>3, <3>4 DEF Carries
    <3> QED BY <3>5 DEF t
  <2>3. CASE m.kind # "event"
    <3>1. \A row : row \notin (Sent + 1)..Sent'
      BY <2>1, <2>3
    <3>2. Carries(t)
      BY <2>1, <2>3, <3>1 DEF Carries, Filled
    <3> QED BY <3>2 DEF t
  <2> QED BY <2>2, <2>3
<1> QED BY <1>2, <1>3, <1>4, <1>5 DEF Says

LEMMA RecordEventSays ==
  ASSUME HostTypes, RecordEvent
  PROVE  HostTypes' /\ Waiters' = Waiters /\ \E t : Says(t) /\ Quiet(t)
<1> DEFINE held == host.place # "none" \/ host.subscribed \/ hydration # None
           out == host.cached \/ (hydration # None /\ hydration.live)
<1>1. /\ log \in Nat /\ log < MaxRecords /\ log' = log + 1
      /\ hydration' = IF held /\ ~host.cached THEN Hydrated ELSE hydration
      /\ fromHost' = IF out THEN Append(fromHost, Event(log + 1)) ELSE fromHost
      /\ UNCHANGED <<host, shown, gap, toHost>>
  BY RowFacts DEF RecordEvent, HostTypes
<1>2. log \in Rows /\ log + 1 \in Rows \ {0}
  BY <1>1, RowFacts DEF Rows
<1>3. /\ hydration # None => hydration \in Hydrations /\ hydration.cut <= log
      /\ host.cached => hydration = None /\ fromHost \in Seq(FromHost)
  BY DEF HostTypes
<1>4. Hydration(log, FALSE, <<>>) \in Hydrations
  BY <1>1, EmptySeq DEF Hydration, Hydrations
<1>5. hydration \in Hydrations => hydration.cut \in Nat
  BY DEF Hydrations
<1>6. hydration' = None \/ (hydration' \in Hydrations /\ hydration'.cut <= log')
  <2>1. CASE hydration' = hydration
    BY <1>1, <1>3, <1>5, <2>1
  <2>2. CASE hydration' = Hydration(log, FALSE, <<>>)
    <3> DEFINE h == Hydration(log, FALSE, <<>>)
    <3>1. h.cut = log /\ h \in Hydrations
      BY <1>4 DEF Hydration
    <3>2. hydration' = h /\ log \in Nat /\ log' = log + 1
      BY <1>1, <2>2
    <3> HIDE DEF h
    <3>3. h.cut <= log'
      BY <3>1, <3>2
    <3> QED BY <3>1, <3>2, <3>3
  <2> QED BY <1>1, <2>1, <2>2 DEF Hydrated
<1>7. Waiters' = Waiters
  BY <1>1, <1>4, NoneFacts DEF Waiters, Hydrated, Hydration
<1>8. Event(log + 1) \in FromHost /\ Event(log + 1).kind = "event"
      /\ Event(log + 1).end = log + 1 /\ Event(log + 1).total = log + 1
  BY <1>2, EventFacts
<1>9. fromHost' \in Seq(FromHost)
  <2> DEFINE m == Event(log + 1)
  <2>1. m \in FromHost /\ fromHost \in Seq(FromHost)
    BY <1>8 DEF HostTypes
  <2>2. fromHost' = fromHost \/ fromHost' = Append(fromHost, m)
    BY <1>1
  <2> HIDE DEF m
  <2>3. Append(fromHost, m) \in Seq(FromHost)
    BY <2>1, AppendElements
  <2> QED BY <2>1, <2>2, <2>3
<1>10. HostTypes'
  <2>1. host'.cached => hydration' = None
    BY <1>1, <1>3
  <2> QED BY <1>1, <1>2, <1>6, <1>9, <2>1 DEF HostTypes
<1>11. \E t : Says(t) /\ Quiet(t)
  <2>1. CASE out
    <3>1. Sent = log /\ Sent' = log + 1
      BY <1>1, <1>3, <2>1 DEF Sent, Hydrated
    <3>2. Says(<<Event(log + 1)>>) /\ Quiet(<<Event(log + 1)>>)
      <4> DEFINE m == Event(log + 1)
      <4>1. /\ m \in FromHost /\ m.kind = "event" /\ m.end = log + 1 /\ m.total = log + 1
            /\ fromHost' = Append(fromHost, m)
        BY <1>1, <1>8, <2>1
      <4> HIDE DEF m
      <4>2. Says(<<m>>) /\ (m.kind = "event" => Quiet(<<m>>))
        BY <1>1, <1>2, <3>1, <4>1, SaysOne
      <4> QED BY <4>1, <4>2 DEF m
    <3> QED BY <3>2
  <2>2. CASE ~out
    <3>1. fromHost' = fromHost
      BY <1>1, <2>2
    <3>2. Sent' \in Rows /\ Sent <= Sent'
      <4>1. CASE hydration = None
        BY <1>1, <1>2, <1>4, <4>1, NoneFacts DEF Sent, Hydrated, Hydration
      <4>2. CASE hydration # None
        <5>1. Sent' = Sent
          BY <1>1, <2>2, <4>2 DEF Sent, Hydrated
        <5>2. Sent \in Rows /\ Sent \in Nat
          BY SentFacts, RowFacts
        <5> QED BY <5>1, <5>2
      <4> QED BY <4>1, <4>2
    <3>3. ~shown \/ Sent' = Sent
      <4>1. CASE hydration # None
        BY <1>1, <2>2, <4>1 DEF Sent, Hydrated
      <4>2. CASE hydration = None /\ held
        BY <1>1, <1>4, <2>2, <4>2, NoneFacts DEF Sent, Hydrated, Hydration
      <4>3. CASE hydration = None /\ ~held
        BY <4>3 DEF HostTypes
      <4> QED BY <4>1, <4>2, <4>3
    <3> QED BY <3>1, <3>2, <3>3, SaysNothing
  <2> QED BY <2>1, <2>2
<1> QED BY <1>7, <1>10, <1>11

\* The ways a step of the host moves the requests: it sends records alone, answers
\* the request it takes, lets it wait, takes a release, or answers some that wait.
SendsRows == toHost' = toHost /\ Waiters' = Waiters /\ \E t : Says(t) /\ Quiet(t)

AnswersHead(m) ==
  /\ toHost # <<>> /\ toHost' = Tail(toHost) /\ Head(toHost).kind = "subscribe"
  /\ Waiters' = Waiters /\ Says(<<m>>)
  /\ m \in FromHost /\ m.request = Head(toHost).request /\ m.kind \in {"window", "refused"}

HeadWaits(reply) ==
  /\ toHost # <<>> /\ toHost' = Tail(toHost) /\ Head(toHost).kind = "subscribe"
  /\ reply \in Asked /\ reply.request = Head(toHost).request
  /\ Waiters' = Append(Waiters, reply) /\ Says(<<>>)

TakesRelease ==
  /\ toHost # <<>> /\ toHost' = Tail(toHost) /\ Head(toHost).kind = "unsubscribe"
  /\ Waiters' = Waiters /\ Says(<<>>)

AnswersOne(i, m) ==
  /\ toHost' = toHost /\ i \in DOMAIN Waiters /\ Waiters' = RemoveAt(Waiters, i)
  /\ Says(<<m>>) /\ IsAnswer(m, Waiters[i].request, log)

AnswersAll(t) ==
  /\ toHost' = toHost /\ Waiters' = <<>> /\ Says(t)
  /\ \A i \in DOMAIN t : t[i].kind # "event" =>
       \E j \in DOMAIN Waiters : IsAnswer(t[i], Waiters[j].request, log)
  /\ \A j \in DOMAIN Waiters : \E i \in DOMAIN t : IsAnswer(t[i], Waiters[j].request, log)
  /\ OneEach(Waiters, DOMAIN Waiters) => OneEach(t, Told(t))

LEMMA SubscribeSays ==
  ASSUME HostTypes, toHost # <<>>, toHost' = Tail(toHost), Head(toHost).kind = "subscribe",
         Subscribe(Head(toHost)), UNCHANGED <<log, gap>>
  PROVE  /\ HostTypes' /\ host'.subscribed
         /\ \/ shown' /\ hydration = None /\ \E m : AnswersHead(m) /\ m.kind = "window"
            \/ shown' = shown /\ \E reply : HeadWaits(reply)
<1> DEFINE line == Head(toHost)
           reply == [request |-> line.request, after |-> line.after]
           place == IF host.subscribed THEN host.place ELSE "viewed"
           more == [Hydrated EXCEPT !.replies = Append(@, reply)]
<1>1. /\ host' = [host EXCEPT !.subscribed = TRUE, !.place = place]
      /\ \/ /\ host.cached /\ fromHost' = Append(fromHost, Window(reply, log))
            /\ shown' = TRUE /\ hydration' = hydration
         \/ ~host.cached /\ hydration' = more /\ fromHost' = fromHost /\ shown' = shown
      /\ log' = log /\ gap' = gap
  BY DEF Subscribe
<1>2. /\ log \in Rows /\ toHost \in Seq(ToHost) /\ fromHost \in Seq(FromHost)
      /\ host \in [place : {"none", "viewed", "parked"}, cached : BOOLEAN,
                   subscribed : BOOLEAN]
      /\ hydration = None \/ (hydration \in Hydrations /\ hydration.cut <= log)
      /\ host.cached => hydration = None /\ shown \in BOOLEAN /\ gap \in BOOLEAN
  BY DEF HostTypes
<1>3. line \in ToHost /\ toHost' \in Seq(ToHost)
  BY <1>2, TailElements
<1>4. line \in Subscribing(Requests)
  BY <1>3 DEF ToHost, Unsubscribing, Line
<1>5. reply \in Asked /\ reply.request = line.request
  BY <1>4 DEF Subscribing, Asked
<1>6. /\ host' \in [place : {"none", "viewed", "parked"}, cached : BOOLEAN,
                   subscribed : BOOLEAN]
      /\ host'.subscribed /\ host'.cached = host.cached
  BY <1>1, <1>2
<1> HIDE DEF reply
<1>7. CASE /\ host.cached /\ fromHost' = Append(fromHost, Window(reply, log))
           /\ shown' = TRUE /\ hydration' = hydration
  <2> DEFINE m == Window(reply, log)
  <2>1. m \in FromHost /\ IsAnswer(m, line.request, log) /\ m.kind = "window" /\ m.total = log
    BY <1>2, <1>5, WindowFacts
  <2>2. fromHost' = Append(fromHost, m) /\ hydration = None
    BY <1>2, <1>7
  <2> HIDE DEF m
  <2>3. fromHost' \in Seq(FromHost)
    BY <1>2, <2>1, <2>2, AppendElements
  <2>4. HostTypes'
    BY <1>1, <1>2, <1>3, <1>6, <1>7, <2>2, <2>3 DEF HostTypes
  <2>5. Sent' = log /\ Sent = log /\ Waiters' = Waiters
    BY <1>1, <1>7, <2>2 DEF Sent, Waiters
  <2>6. Says(<<m>>)
    BY <1>2, <1>7, <2>1, <2>2, <2>5, RowFacts, SaysOne DEF IsAnswer
  <2>7. AnswersHead(m)
    BY <2>1, <2>5, <2>6 DEF AnswersHead, IsAnswer
  <2> QED BY <1>6, <1>7, <2>1, <2>2, <2>4, <2>7
<1>8. CASE ~host.cached /\ hydration' = more /\ fromHost' = fromHost /\ shown' = shown
  <2>1. /\ Hydrated \in Hydrations /\ Hydrated.cut <= log /\ Hydrated.replies = Waiters
        /\ Sent = IF Hydrated.live THEN log ELSE Hydrated.cut
    <3>1. CASE hydration = None
      <4> DEFINE h == Hydration(log, FALSE, <<>>)
      <4>1. /\ log \in Nat /\ h \in Hydrations /\ h.cut = log /\ h.replies = <<>> /\ ~h.live
        BY <1>2, RowFacts, EmptySeq DEF Hydration, Hydrations
      <4>2. Hydrated = h /\ Waiters = <<>> /\ Sent = log
        BY <3>1 DEF Hydrated, Waiters, Sent
      <4> HIDE DEF h
      <4> QED BY <4>1, <4>2
    <3>2. CASE hydration # None
      BY <1>2, <3>2 DEF Hydrated, Waiters, Sent
    <3> QED BY <3>1, <3>2
  <2>2. Append(Waiters, reply) \in Seq(Asked)
    BY <1>5, SentFacts, AppendElements
  <2>3. /\ more \in Hydrations /\ more.cut = Hydrated.cut /\ more.live = Hydrated.live
        /\ more.replies = Append(Waiters, reply)
    BY <2>1, <2>2 DEF Hydrations
  <2> HIDE DEF more
  <2>4. hydration' \in Hydrations /\ hydration' # None /\ hydration'.cut <= log'
    BY <1>1, <1>8, <2>1, <2>3, NoneFacts
  <2>5. HostTypes'
    BY <1>1, <1>2, <1>3, <1>6, <1>8, <2>4 DEF HostTypes
  <2>6. Waiters' = Append(Waiters, reply) /\ Sent' = Sent
    BY <1>1, <1>8, <2>1, <2>3, <2>4 DEF Waiters, Sent
  <2>7. Sent \in Rows /\ Sent \in Nat
    BY SentFacts, RowFacts
  <2>8. Says(<<>>)
    BY <1>8, <2>6, <2>7, SaysNothing
  <2>9. HeadWaits(reply)
    BY <1>5, <2>6, <2>8 DEF HeadWaits
  <2> QED BY <1>6, <1>8, <2>5, <2>9
<1> QED BY <1>1, <1>7, <1>8

LEMMA HostTakesSays ==
  ASSUME HostTypes, HostTakes
  PROVE  /\ HostTypes'
         /\ \/ host'.subscribed /\ shown' /\ hydration = None
                 /\ \E m : AnswersHead(m) /\ m.kind = "window"
            \/ UNCHANGED <<host, shown>> /\ \E m : AnswersHead(m) /\ m.kind = "refused"
            \/ host'.subscribed /\ shown' = shown /\ \E reply : HeadWaits(reply)
            \/ ~host'.subscribed /\ ~shown' /\ TakesRelease
<1> DEFINE line == Head(toHost)
<1>1. toHost # <<>> /\ toHost' = Tail(toHost) /\ UNCHANGED <<log, gap>>
  BY DEF HostTakes
<1>2. /\ log \in Rows /\ toHost \in Seq(ToHost) /\ fromHost \in Seq(FromHost)
      /\ host \in [place : {"none", "viewed", "parked"}, cached : BOOLEAN,
                   subscribed : BOOLEAN]
      /\ hydration = None \/ (hydration \in Hydrations /\ hydration.cut <= log)
      /\ host.cached => hydration = None /\ shown \in BOOLEAN /\ gap \in BOOLEAN
  BY DEF HostTypes
<1>3. line \in ToHost /\ toHost' \in Seq(ToHost)
  BY <1>1, <1>2, TailElements
<1>4. CASE line.kind = "subscribe" /\ Subscribe(line)
  BY <1>1, <1>4, SubscribeSays
<1>5. CASE line.kind = "subscribe" /\ Refuse(line)
  <2> DEFINE m == Message("refused", line.request, 0, 0, 0)
  <2>1. line \in Subscribing(Requests)
    BY <1>3, <1>5 DEF ToHost, Unsubscribing, Line
  <2>2. /\ m \in FromHost /\ m.kind = "refused" /\ m.request = line.request /\ m.total = 0
    BY <2>1, RowFacts DEF Subscribing, Message, FromHost
  <2>3. fromHost' = Append(fromHost, m) /\ UNCHANGED <<host, hydration, shown>>
    BY <1>5 DEF Refuse
  <2> HIDE DEF m
  <2>4. fromHost' \in Seq(FromHost)
    BY <1>2, <2>2, <2>3, AppendElements
  <2>5. HostTypes'
    BY <1>1, <1>2, <1>3, <2>3, <2>4 DEF HostTypes
  <2>6. Sent' = Sent /\ Waiters' = Waiters
    BY <1>1, <2>3 DEF Sent, Waiters
  <2>7. Sent \in Rows /\ Sent \in Nat
    BY SentFacts, RowFacts
  <2>8. Says(<<m>>)
    BY <2>2, <2>3, <2>6, <2>7, SaysOne
  <2>9. AnswersHead(m)
    BY <1>1, <1>5, <2>2, <2>6, <2>8 DEF AnswersHead
  <2> QED BY <2>2, <2>3, <2>5, <2>9
<1>6. CASE line.kind = "unsubscribe" /\ Unsubscribe
  <2>1. /\ host' = [host EXCEPT !.subscribed = FALSE,
                                !.place = IF @ = "viewed" THEN "parked" ELSE @]
        /\ shown' = FALSE /\ UNCHANGED <<hydration, fromHost>>
    BY <1>6 DEF Unsubscribe
  <2>2. /\ host' \in [place : {"none", "viewed", "parked"}, cached : BOOLEAN,
                      subscribed : BOOLEAN]
        /\ ~host'.subscribed /\ host'.cached = host.cached
    BY <1>2, <2>1
  <2>3. HostTypes'
    BY <1>1, <1>2, <1>3, <2>1, <2>2 DEF HostTypes
  <2>4. Sent' = Sent /\ Waiters' = Waiters
    BY <1>1, <2>1 DEF Sent, Waiters
  <2>5. Sent \in Rows /\ Sent \in Nat
    BY SentFacts, RowFacts
  <2>6. Says(<<>>)
    BY <2>1, <2>4, <2>5, SaysNothing
  <2>7. TakesRelease
    BY <1>1, <1>6, <2>4, <2>6 DEF TakesRelease
  <2> QED BY <2>1, <2>2, <2>3, <2>7
<1> QED BY <1>4, <1>5, <1>6 DEF HostTakes

LEMMA HydrationFacts ==
  ASSUME HostTypes, hydration # None
  PROVE  /\ hydration \in Hydrations /\ hydration.cut \in Rows /\ hydration.cut <= log
         /\ hydration.live \in BOOLEAN /\ hydration.replies \in Seq(Asked)
         /\ Waiters = hydration.replies /\ ~host.cached
         /\ Sent = IF hydration.live THEN log ELSE hydration.cut
<1>1. /\ hydration \in Hydrations /\ hydration.cut <= log /\ log \in Rows
      /\ ~host.cached
  BY DEF HostTypes
<1>2. hydration.cut \in Nat /\ hydration.live \in BOOLEAN /\ hydration.replies \in Seq(Asked)
  BY <1>1 DEF Hydrations
<1>3. hydration.cut \in Rows
  BY <1>1, <1>2, RowFacts DEF Rows
<1> QED BY <1>1, <1>2, <1>3 DEF Waiters, Sent

LEMMA TailReadSays ==
  ASSUME HostTypes, TailRead
  PROVE  /\ HostTypes' /\ UNCHANGED host /\ (shown => shown')
         /\ SendsRows \/ \E i, m : AnswersOne(i, m)
<1>1. hydration # None /\ UNCHANGED <<log, host, toHost>>
  BY DEF TailRead
<1>2. /\ log \in Rows /\ toHost \in Seq(ToHost) /\ fromHost \in Seq(FromHost)
      /\ host \in [place : {"none", "viewed", "parked"}, cached : BOOLEAN,
                   subscribed : BOOLEAN]
      /\ shown \in BOOLEAN /\ gap \in BOOLEAN /\ (shown => host.subscribed)
  BY DEF HostTypes
<1>3. /\ hydration \in Hydrations /\ hydration.cut \in Rows /\ hydration.cut <= log
      /\ hydration.live \in BOOLEAN /\ hydration.replies \in Seq(Asked)
      /\ Waiters = hydration.replies /\ ~host.cached
      /\ Sent = IF hydration.live THEN log ELSE hydration.cut
  BY <1>1, HydrationFacts
<1>4. log \in Nat /\ hydration.cut \in Nat
  BY <1>2, <1>3, RowFacts
<1>5. ASSUME log > hydration.cut, hydration' = [hydration EXCEPT !.live = TRUE],
             gap' = (gap \/ HeldBack), UNCHANGED <<fromHost, shown>>
      PROVE  HostTypes' /\ (shown => shown') /\ SendsRows
  <2>1. /\ hydration' \in Hydrations /\ hydration'.cut = hydration.cut
        /\ hydration'.replies = hydration.replies /\ hydration'.live
    BY <1>3, <1>5 DEF Hydrations
  <2>2. hydration' # None
    BY <2>1, NoneFacts
  <2>3. gap' \in BOOLEAN
    BY <1>2, <1>5
  <2>4. HostTypes'
    BY <1>1, <1>2, <1>3, <1>5, <2>1, <2>3 DEF HostTypes
  <2>5. Sent' = log /\ Waiters' = Waiters
    BY <1>1, <1>3, <2>1, <2>2 DEF Sent, Waiters
  <2>6. gap' \/ ~shown \/ Sent' = Sent
    BY <1>3, <1>5, <2>5 DEF HeldBack
  <2>7. Sent <= log
    BY SentFacts
  <2>8. Says(<<>>) /\ Quiet(<<>>)
    BY <1>2, <1>5, <2>5, <2>6, <2>7, SaysNothing
  <2> QED BY <1>1, <1>5, <2>4, <2>5, <2>8 DEF SendsRows
<1>6. ASSUME ~(log > hydration.cut), NEW i \in DOMAIN hydration.replies,
             hydration' = Hydration(hydration.cut, TRUE, RemoveAt(hydration.replies, i)),
             fromHost' = Append(fromHost, Answer(hydration.replies[i],
                                                 Window(hydration.replies[i], log))),
             shown' = (shown \/ host.subscribed), gap' = gap
      PROVE  HostTypes' /\ (shown => shown') /\ \E j, m : AnswersOne(j, m)
  <2> DEFINE reply == hydration.replies[i]
             others == RemoveAt(hydration.replies, i)
             m == Answer(reply, Window(reply, log))
             h == Hydration(hydration.cut, TRUE, others)
  <2>1. reply \in Asked
    BY <1>3, SequenceElements
  <2>2. others \in Seq(Asked)
    BY <1>3, RemoveAtElements
  <2> HIDE DEF reply
  <2>3. IsAnswer(m, reply.request, log) /\ (m.kind = "window" => host.subscribed /\ m.total = log)
    BY <1>2, <2>1, WindowFacts, AnswerFacts
  <2>4. h \in Hydrations /\ h.cut = hydration.cut /\ h.replies = others /\ h.live
    <3> HIDE DEF others
    <3> QED BY <1>3, <1>4, <2>2 DEF Hydration, Hydrations
  <2>5. hydration' = h /\ fromHost' = Append(fromHost, m)
    BY <1>6 DEF reply
  <2> HIDE DEF m, h
  <2>6. hydration' # None
    BY <2>4, <2>5, NoneFacts
  <2>7. m \in FromHost /\ m.kind # "event" /\ m.total <= log
        /\ (m.kind = "window" => m.from <= m.end /\ m.end <= m.total)
    BY <2>3 DEF IsAnswer
  <2>8. fromHost' \in Seq(FromHost)
    BY <1>2, <2>5, <2>7, AppendElements
  <2>9. shown' \in BOOLEAN /\ (shown' => host.subscribed) /\ (host.subscribed => shown')
    BY <1>2, <1>6
  <2>10. HostTypes'
    <3>1. hydration' \in Hydrations /\ hydration'.cut <= log' /\ ~host'.cached
      BY <1>1, <1>3, <2>4, <2>5
    <3>2. gap' \in BOOLEAN /\ shown' \in BOOLEAN /\ (shown' => host'.subscribed)
      BY <1>1, <1>2, <1>6, <2>9
    <3> QED BY <1>1, <1>2, <2>8, <3>1, <3>2 DEF HostTypes
  <2>11. Sent' = log /\ Sent = log /\ Waiters' = RemoveAt(Waiters, i)
    <3>1. Sent' = log
      BY <1>1, <2>4, <2>5 DEF Sent
    <3>2. log = hydration.cut
      BY <1>3, <1>4, <1>6
    <3>3. Sent = log
      BY <1>3, <3>2
    <3>4. Waiters' = others
      BY <2>4, <2>5, <2>6 DEF Waiters
    <3> QED BY <1>3, <3>1, <3>3, <3>4
  <2>12. Says(<<m>>)
    BY SMTT(60), <1>2, <1>4, <2>3, <2>5, <2>7, <2>9, <2>11, SaysOne
  <2>13. AnswersOne(i, m)
    BY <1>1, <1>3, <2>3, <2>11, <2>12 DEF AnswersOne, reply
  <2> QED BY <1>6, <2>10, <2>13
<1>7. CASE log > hydration.cut
  BY <1>1, <1>5, <1>7 DEF TailRead
<1>8. CASE ~(log > hydration.cut)
  BY <1>1, <1>6, <1>8 DEF TailRead
<1> QED BY <1>7, <1>8

\* Answers in the place of the requests they are for, and no record among them.
LEMMA AnswersOnly ==
  ASSUME NEW replies \in Seq(Asked), NEW t \in Seq(FromHost), NEW n,
         DOMAIN t = DOMAIN replies,
         \A i \in DOMAIN t : IsAnswer(t[i], replies[i].request, n)
  PROVE  /\ Ordered(t, n) /\ \A j : j \notin Events(t)
         /\ OneEach(replies, DOMAIN replies) => OneEach(t, Told(t))
<1>1. \A i \in DOMAIN t : t[i].kind # "event" /\ t[i].total <= n
        /\ t[i].from <= t[i].end /\ t[i].end <= t[i].total /\ t[i].request = replies[i].request
  BY DEF IsAnswer
<1>2. \A j : j \notin Events(t)
  BY <1>1 DEF Events
<1>3. WellMade(t) /\ Within(t, n)
  BY <1>1 DEF WellMade, Within
<1>4. Rising(t)
  BY <1>2 DEF Rising
<1>5. OneEach(replies, DOMAIN replies) => OneEach(t, Told(t))
  BY <1>1 DEF OneEach, Told
<1> QED BY <1>2, <1>3, <1>4, <1>5 DEF Ordered

LEMMA FinishHydrationSays ==
  ASSUME HostTypes, FinishHydration
  PROVE  /\ HostTypes' /\ host'.subscribed = host.subscribed /\ (shown => shown')
         /\ \E t : AnswersAll(t)
<1>1. hydration # None /\ hydration' = None /\ UNCHANGED <<log, toHost>>
  BY DEF FinishHydration, HydrationEnds
<1>2. /\ log \in Rows /\ toHost \in Seq(ToHost) /\ fromHost \in Seq(FromHost)
      /\ host \in [place : {"none", "viewed", "parked"}, cached : BOOLEAN,
                   subscribed : BOOLEAN]
      /\ shown \in BOOLEAN /\ gap \in BOOLEAN /\ (shown => host.subscribed)
  BY DEF HostTypes
<1>3. /\ hydration \in Hydrations /\ hydration.cut \in Rows /\ hydration.cut <= log
      /\ hydration.live \in BOOLEAN /\ hydration.replies \in Seq(Asked)
      /\ Waiters = hydration.replies /\ ~host.cached
      /\ Sent = IF hydration.live THEN log ELSE hydration.cut
  BY <1>1, HydrationFacts
<1>4. log \in Nat /\ hydration.cut \in Nat
  BY <1>2, <1>3, RowFacts
<1>5. PICK live \in BOOLEAN : /\ fromHost' = fromHost \o HydratedOut(live)
                              /\ gap' = (gap \/ (live /\ HeldBack))
                              /\ hydration.live => live
  BY <1>3 DEF FinishHydration
<1>6. /\ shown' = (shown \/ (host.subscribed /\ hydration.replies # <<>>))
      /\ host' = [host EXCEPT !.cached = host.place # "none"]
  BY DEF FinishHydration
<1>7. /\ host' \in [place : {"none", "viewed", "parked"}, cached : BOOLEAN,
                   subscribed : BOOLEAN]
      /\ host'.subscribed = host.subscribed
  BY <1>2, <1>6
<1>8. gap' \in BOOLEAN /\ shown' \in BOOLEAN /\ (shown' => host.subscribed) /\ (shown => shown')
  BY <1>2, <1>3, <1>5, <1>6
<1>9. Sent' = log /\ Waiters' = <<>>
  BY <1>1 DEF Sent, Waiters
<1> DEFINE replies == hydration.replies
<1>10. ASSUME NEW t \in Seq(FromHost), t = HydratedOut(live), Ordered(t, log), Precedes(Sent, t),
              Carries(t),
              \A i \in DOMAIN t : t[i].kind # "event" =>
                \E j \in DOMAIN replies : IsAnswer(t[i], replies[j].request, log),
              \A j \in DOMAIN replies : \E i \in DOMAIN t : IsAnswer(t[i], replies[j].request, log),
              OneEach(replies, DOMAIN replies) => OneEach(t, Told(t))
       PROVE  HostTypes' /\ AnswersAll(t)
  <2>1. fromHost' = fromHost \o t
    BY <1>5, <1>10
  <2>2. fromHost' \in Seq(FromHost)
    BY <1>2, <2>1, ConcatElements
  <2>3. HostTypes'
    BY <1>1, <1>2, <1>7, <1>8, <2>2 DEF HostTypes
  <2>4. Sent \in Rows /\ Sent <= log
    BY SentFacts
  <2>5. Says(t)
    BY <1>2, <1>9, <1>10, <2>1, <2>4 DEF Says
  <2>6. Waiters = replies
    BY <1>3
  <2> HIDE DEF replies
  <2>7. AnswersAll(t)
    BY <1>1, <1>9, <1>10, <2>5, <2>6 DEF AnswersAll
  <2> QED BY <2>3, <2>7
<1>11. ASSUME NEW total \in Rows, total <= log
       PROVE  LET s == Replies(replies, total)
              IN /\ s \in Seq(FromHost) /\ Len(s) \in Nat /\ DOMAIN s = 1..Len(s)
                 /\ DOMAIN s = DOMAIN replies
                 /\ \A i \in DOMAIN replies : IsAnswer(s[i], replies[i].request, log)
                 /\ \A i \in DOMAIN s : s[i].kind = "window" => s[i].total = total /\ shown'
                 /\ Ordered(s, total) /\ \A j : j \notin Events(s)
                 /\ OneEach(replies, DOMAIN replies) => OneEach(s, Told(s))
  <2> DEFINE s == Replies(replies, total)
  <2>1. /\ replies \in Seq(Asked)
        /\ \A i \in DOMAIN replies : replies[i] \in Asked
    BY <1>3, SequenceElements
  <2>2. /\ s \in Seq(FromHost) /\ DOMAIN s = DOMAIN replies
        /\ \A i \in DOMAIN replies :
             /\ IsAnswer(s[i], replies[i].request, total)
             /\ host.subscribed => s[i] = Window(replies[i], total)
             /\ ~host.subscribed => s[i].kind = "ack"
    BY <2>1, RepliesFacts
  <2>3. Len(s) \in Nat /\ DOMAIN s = 1..Len(s)
    BY <2>2, SequenceElements
  <2>4. \A i \in DOMAIN replies : host.subscribed => shown'
    <3>1. replies = <<>> => DOMAIN replies = {}
      BY EmptySeq
    <3> QED BY <1>6, <3>1
  <2>5. \A i \in DOMAIN replies : Window(replies[i], total).total = total
    BY <2>1, WindowFacts
  <2> HIDE DEF s
  <2>6. \A i \in DOMAIN s : s[i].kind = "window" => s[i].total = total /\ shown'
    BY <2>2, <2>4, <2>5
  <2>7. \A i \in DOMAIN replies : IsAnswer(s[i], replies[i].request, log)
    <3> SUFFICES ASSUME NEW i \in DOMAIN replies
                 PROVE  IsAnswer(s[i], replies[i].request, log)
      OBVIOUS
    <3>1. IsAnswer(s[i], replies[i].request, total)
      BY <2>2
    <3>2. s[i].total \in Nat
      <4>1. s[i] \in FromHost
        BY <2>2, SequenceElements
      <4> QED BY <4>1, RowFacts DEF FromHost
    <3> QED BY <1>4, <1>11, <3>1, <3>2, RowFacts DEF IsAnswer
  <2>8. /\ Ordered(s, total) /\ \A j : j \notin Events(s)
        /\ OneEach(replies, DOMAIN replies) => OneEach(s, Told(s))
    BY <2>1, <2>2, AnswersOnly
  <2> QED BY <2>2, <2>3, <2>6, <2>7, <2>8 DEF s
<1>12. CASE live
  <2> DEFINE s == Replies(replies, log)
  <2>1. /\ s \in Seq(FromHost) /\ Len(s) \in Nat /\ DOMAIN s = 1..Len(s)
        /\ DOMAIN s = DOMAIN replies
        /\ \A i \in DOMAIN replies : IsAnswer(s[i], replies[i].request, log)
        /\ \A i \in DOMAIN s : s[i].kind = "window" => s[i].total = log /\ shown'
        /\ Ordered(s, log) /\ \A j : j \notin Events(s)
        /\ OneEach(replies, DOMAIN replies) => OneEach(s, Told(s))
    BY <1>2, <1>4, <1>11
  <2>2. s = HydratedOut(live)
    BY <1>12 DEF HydratedOut
  <2> HIDE DEF s
  <2>3. Precedes(Sent, s)
    BY <2>1 DEF Precedes
  <2>4. gap' \/ ~shown \/ Sent = log
    <3>1. CASE hydration.live
      BY <1>3, <3>1
    <3>2. CASE ~hydration.live /\ shown
      <4>1. log > hydration.cut => gap'
        BY <1>5, <1>12, <3>2 DEF HeldBack
      <4>2. log > hydration.cut \/ log = hydration.cut
        BY <1>3, <1>4
      <4> QED BY <1>3, <3>2, <4>1, <4>2
    <3> QED BY <3>1, <3>2
  <2>5. \A row : row \notin (log + 1)..log
    BY <1>4
  <2>6. Carries(s)
    BY <1>9, <2>1, <2>4, <2>5 DEF Carries, Filled
  <2>7. HostTypes' /\ AnswersAll(s)
    BY <1>10, <2>1, <2>2, <2>3, <2>6
  <2> QED BY <1>7, <1>8, <2>7
<1>13. CASE ~live
  <2> DEFINE cut == hydration.cut
             s == Replies(replies, cut)
             h == Held
             t == s \o h
  <2>1. /\ s \in Seq(FromHost) /\ Len(s) \in Nat /\ DOMAIN s = 1..Len(s)
        /\ DOMAIN s = DOMAIN replies
        /\ \A i \in DOMAIN replies : IsAnswer(s[i], replies[i].request, log)
        /\ \A i \in DOMAIN s : s[i].kind = "window" => s[i].total = cut /\ shown'
        /\ Ordered(s, cut) /\ \A j : j \notin Events(s)
        /\ OneEach(replies, DOMAIN replies) => OneEach(s, Told(s))
    BY <1>3, <1>11
  <2>2. /\ h \in Seq(FromHost) /\ Len(h) = log - cut /\ DOMAIN h = 1..(log - cut)
        /\ \A i \in DOMAIN h :
             h[i].kind = "event" /\ h[i].end = cut + i /\ h[i].total = cut + i
    BY <1>2, <1>3, HeldFacts
  <2>3. t = HydratedOut(live) /\ cut \in Nat /\ cut <= log /\ Sent = cut
    BY <1>3, <1>4, <1>5, <1>13 DEF HydratedOut
  <2> HIDE DEF s, h, cut
  <2>4. Ordered(h, log) /\ Precedes(cut, h)
    BY SMTT(60), <1>4, <2>2, <2>3 DEF Ordered, WellMade, Rising, Within, Precedes, Events
  <2>5. \A e \in FromHost : e.total \in Nat
    BY RowFacts DEF FromHost
  <2>6. Precedes(cut, s)
    BY <2>1 DEF Precedes
  <2>7. Ordered(t, log) /\ Precedes(cut, t)
    <3>1. /\ s \in Seq(FromHost) /\ h \in Seq(FromHost) /\ Ordered(s, cut)
          /\ cut \in Nat /\ log \in Nat /\ cut <= log
      BY <1>4, <2>1, <2>2, <2>3
    <3>2. Ordered(t, log) /\ \A p \in Nat : p <= cut /\ Precedes(p, s) => Precedes(p, t)
      BY <2>4, <2>5, <3>1, OrderedConcat
    <3> HIDE DEF t
    <3> QED BY <2>6, <3>1, <3>2
  <2>8. /\ t \in Seq(FromHost) /\ DOMAIN t = 1..(Len(s) + Len(h))
        /\ \A i \in DOMAIN s : t[i] = s[i]
        /\ \A i \in DOMAIN h : Len(s) + i \in DOMAIN t /\ t[Len(s) + i] = h[i]
        /\ \A i \in DOMAIN t : \/ i \in DOMAIN s /\ t[i] = s[i]
                               \/ i - Len(s) \in DOMAIN h /\ t[i] = h[i - Len(s)]
    <3>1. s \in Seq(FromHost) /\ h \in Seq(FromHost)
      BY <2>1, <2>2
    <3> QED BY <3>1, ConcatElements
  <2>9. Len(t) = Len(s) + (log - cut)
    <3>1. s \in Seq(FromHost) /\ h \in Seq(FromHost)
      BY <2>1, <2>2
    <3>2. Len(t) = Len(s) + Len(h)
      BY <3>1, ConcatProperties
    <3> QED BY <2>2, <3>2
  <2>10. OneEach(replies, DOMAIN replies) => OneEach(t, Told(t))
    <3>1. \A i : i \notin Told(h)
      BY <2>2 DEF Told
    <3>2. \A r : r \notin Tells(h)
      BY <3>1 DEF Tells, RequestsAt
    <3>3. OneEach(h, Told(h))
      BY <3>1 DEF OneEach
    <3> QED BY <2>1, <2>2, <3>2, <3>3, ConcatTold
  <2> HIDE DEF t
  <2>11. \A i \in 0..Len(s) : Filled(t, i, Len(t), cut, log)
    <3> SUFFICES ASSUME NEW i \in 0..Len(s), NEW row \in (cut + 1)..log
                 PROVE  \E k \in Events(t) : i < k /\ k <= Len(t) /\ t[k].end = row
      BY DEF Filled
    <3>1. row - cut \in DOMAIN h /\ cut + (row - cut) = row
      BY SMTT(60), <1>4, <2>2, <2>3
    <3>2. /\ Len(s) + (row - cut) \in DOMAIN t /\ t[Len(s) + (row - cut)].kind = "event"
          /\ t[Len(s) + (row - cut)].end = row
      BY <2>2, <2>8, <3>1
    <3>3. i < Len(s) + (row - cut) /\ Len(s) + (row - cut) <= Len(t)
      BY <1>4, <2>1, <2>3, <2>9
    <3> QED BY <3>2, <3>3 DEF Events
  <2>12. Carries(t)
    <3>1. Filled(t, 0, Len(t), cut, log)
      BY <2>1, <2>11
    <3>2. \A i \in DOMAIN t : t[i].kind = "window" =>
            shown' /\ t[i].total = cut /\ i \in 0..Len(s)
      BY <2>1, <2>2, <2>8
    <3> QED BY <1>9, <2>3, <2>11, <3>1, <3>2 DEF Carries
  <2>13. \A i \in DOMAIN t : t[i].kind # "event" =>
           \E j \in DOMAIN replies : IsAnswer(t[i], replies[j].request, log)
    <3> HIDE DEF replies
    <3> QED BY SMTT(60), <2>1, <2>2, <2>8
  <2>14. \A j \in DOMAIN replies : \E i \in DOMAIN t : IsAnswer(t[i], replies[j].request, log)
    <3>1. \A i \in DOMAIN s : i \in DOMAIN t
      BY <1>4, <2>1, <2>2, <2>3, <2>8
    <3> HIDE DEF replies
    <3> QED BY <2>1, <2>8, <3>1
  <2>15. HostTypes' /\ AnswersAll(t)
    BY <1>10, <2>3, <2>7, <2>8, <2>10, <2>12, <2>13, <2>14
  <2> QED BY <1>7, <1>8, <2>15
<1> QED BY <1>5, <1>12, <1>13

LEMMA FailHydrationSays ==
  ASSUME HostTypes, FailHydration
  PROVE  /\ HostTypes' /\ UNCHANGED <<host, shown>>
         /\ \E t : AnswersAll(t)
<1>1. hydration # None /\ hydration' = None /\ UNCHANGED <<log, host, shown, toHost>>
  BY DEF FailHydration, HydrationEnds
<1>2. /\ log \in Rows /\ toHost \in Seq(ToHost) /\ fromHost \in Seq(FromHost)
      /\ host \in [place : {"none", "viewed", "parked"}, cached : BOOLEAN,
                   subscribed : BOOLEAN]
      /\ shown \in BOOLEAN /\ gap \in BOOLEAN /\ (shown => host.subscribed)
  BY DEF HostTypes
<1>3. /\ hydration.cut \in Rows /\ hydration.cut <= log
      /\ hydration.live \in BOOLEAN /\ hydration.replies \in Seq(Asked)
      /\ Waiters = hydration.replies
      /\ Sent = IF hydration.live THEN log ELSE hydration.cut
  BY <1>1, HydrationFacts
<1>4. log \in Nat /\ hydration.cut \in Nat
  BY <1>2, <1>3, RowFacts
<1> DEFINE replies == hydration.replies
           t == Failures(replies)
<1>5. fromHost' = fromHost \o t /\ gap' = (gap \/ HeldBack)
  BY DEF FailHydration
<1>6. /\ replies \in Seq(Asked) /\ t \in Seq(FromHost) /\ DOMAIN t = DOMAIN replies
      /\ \A i \in DOMAIN replies :
           IsAnswer(t[i], replies[i].request, 0) /\ t[i].kind # "window"
  BY <1>3, FailuresFacts
<1> HIDE DEF t
<1>7. \A i \in DOMAIN replies : IsAnswer(t[i], replies[i].request, log)
  <2> SUFFICES ASSUME NEW i \in DOMAIN replies
               PROVE  IsAnswer(t[i], replies[i].request, log)
    OBVIOUS
  <2>1. IsAnswer(t[i], replies[i].request, 0) /\ t[i] \in FromHost
    BY <1>6, SequenceElements
  <2>2. t[i].total \in Nat
    BY <2>1, RowFacts DEF FromHost
  <2> QED BY <1>4, <2>1, <2>2 DEF IsAnswer
<1>8. /\ Ordered(t, log) /\ \A j : j \notin Events(t)
      /\ OneEach(replies, DOMAIN replies) => OneEach(t, Told(t))
  BY <1>6, <1>7, AnswersOnly
<1>9. fromHost' \in Seq(FromHost)
  BY <1>2, <1>5, <1>6, ConcatElements
<1>10. Sent' = log /\ Waiters' = <<>>
  BY <1>1 DEF Sent, Waiters
<1>11. gap' \/ ~shown \/ Sent = log
  <2>1. CASE hydration.live
    BY <1>3, <2>1
  <2>2. CASE ~hydration.live /\ shown
    <3>1. log > hydration.cut => gap'
      BY <1>5, <2>2 DEF HeldBack
    <3>2. log > hydration.cut \/ log = hydration.cut
      BY <1>3, <1>4
    <3> QED BY <1>3, <2>2, <3>1, <3>2
  <2> QED BY <2>1, <2>2
<1>12. Carries(t)
  <2>1. \A row : row \notin (log + 1)..log
    BY <1>4
  <2> QED BY <1>6, <1>10, <1>11, <2>1 DEF Carries, Filled
<1>13. Says(t)
  <2>1. Precedes(Sent, t)
    BY <1>8 DEF Precedes
  <2>2. Sent \in Rows /\ Sent <= log
    BY SentFacts
  <2> QED BY <1>2, <1>5, <1>6, <1>8, <1>10, <1>12, <2>1, <2>2 DEF Says
<1>14. gap' \in BOOLEAN
  BY <1>2, <1>5
<1>15. HostTypes'
  BY <1>1, <1>2, <1>9, <1>14 DEF HostTypes
<1>16. AnswersAll(t)
  <2>1. Waiters = replies
    BY <1>3
  <2> HIDE DEF replies
  <2> QED BY <1>1, <1>6, <1>7, <1>8, <1>10, <1>13, <2>1 DEF AnswersAll
<1> QED BY <1>1, <1>15, <1>16

LEMMA ResidencySays ==
  ASSUME HostTypes, LoadBackground \/ Evict \/ Archive \/ ReleaseLog
  PROVE  /\ HostTypes' /\ host'.subscribed = host.subscribed /\ UNCHANGED shown
         /\ SendsRows
<1>1. /\ UNCHANGED <<log, shown, gap, toHost, fromHost>>
      /\ \/ host' = [host EXCEPT !.place = "parked"]
         \/ host' = [host EXCEPT !.place = "none"]
         \/ host' = [host EXCEPT !.cached = FALSE]
      /\ hydration' = hydration \/ (hydration' = Hydrated /\ ~host.cached
                                     /\ host' = [host EXCEPT !.place = "parked"])
  BY DEF LoadBackground, Evict, Archive, ReleaseLog
<1>2. /\ log \in Rows /\ toHost \in Seq(ToHost) /\ fromHost \in Seq(FromHost)
      /\ host \in [place : {"none", "viewed", "parked"}, cached : BOOLEAN,
                   subscribed : BOOLEAN]
      /\ hydration = None \/ (hydration \in Hydrations /\ hydration.cut <= log)
      /\ host.cached => hydration = None
      /\ shown \in BOOLEAN /\ gap \in BOOLEAN /\ (shown => host.subscribed)
  BY DEF HostTypes
<1>3. /\ host' \in [place : {"none", "viewed", "parked"}, cached : BOOLEAN,
                    subscribed : BOOLEAN]
      /\ host'.subscribed = host.subscribed /\ (host'.cached => host.cached)
      /\ host' = [host EXCEPT !.place = "parked"] => host'.cached = host.cached
  BY <1>1, <1>2
<1>4. /\ hydration' = None \/ (hydration' \in Hydrations /\ hydration'.cut <= log)
      /\ Waiters' = Waiters /\ Sent' = Sent
  <2>1. CASE hydration' = hydration
    BY <1>1, <1>2, <2>1 DEF Waiters, Sent
  <2>2. CASE hydration' = Hydrated /\ hydration = None
    <3> DEFINE h == Hydration(log, FALSE, <<>>)
    <3>1. h \in Hydrations /\ h.cut = log /\ h.replies = <<>> /\ ~h.live /\ log \in Nat
      BY <1>2, RowFacts, EmptySeq DEF Hydration, Hydrations
    <3>2. hydration' = h
      BY <2>2 DEF Hydrated
    <3> HIDE DEF h
    <3>3. hydration' # None
      BY <3>1, <3>2, NoneFacts
    <3> QED BY <1>1, <2>2, <3>1, <3>2, <3>3 DEF Waiters, Sent
  <2>3. CASE hydration' = Hydrated /\ hydration # None
    BY <2>1, <2>3 DEF Hydrated
  <2> QED BY <1>1, <2>1, <2>2, <2>3
<1>5. HostTypes'
  <2>1. host'.cached => hydration' = None
    BY <1>1, <1>2, <1>3
  <2> QED BY <1>1, <1>2, <1>3, <1>4, <2>1 DEF HostTypes
<1>6. Sent \in Rows /\ Sent \in Nat
  BY SentFacts, RowFacts
<1>7. Says(<<>>) /\ Quiet(<<>>)
  BY <1>1, <1>4, <1>6, SaysNothing
<1> QED BY <1>1, <1>3, <1>4, <1>5, <1>7 DEF SendsRows

-------------------------------------------------------------------------------
(* Where the requests are *)

LEMMA AsksTail ==
  ASSUME NEW S, NEW s \in Seq(S), s # <<>>
  PROVE  /\ \A r \in RequestsAt(Tail(s), Asks(Tail(s))) : r \in RequestsAt(s, Asks(s))
         /\ Head(s).kind = "subscribe" => Head(s).request \in RequestsAt(s, Asks(s))
         /\ OneEach(s, Asks(s)) =>
              /\ OneEach(Tail(s), Asks(Tail(s)))
              /\ Head(s).kind = "subscribe" =>
                   Head(s).request \notin RequestsAt(Tail(s), Asks(Tail(s)))
<1> DEFINE t == Tail(s)
<1>1. /\ DOMAIN s = 1..Len(s) /\ Len(s) \in Nat \ {0} /\ DOMAIN t = 1..(Len(s) - 1)
      /\ Head(s) = s[1] /\ \A i \in 1..(Len(s) - 1) : t[i] = s[i + 1]
  BY TailElements
<1> HIDE DEF t
<1>2. \A i \in DOMAIN t : i + 1 \in DOMAIN s /\ t[i] = s[i + 1] /\ i + 1 # 1
  BY <1>1
<1>3. 1 \in DOMAIN s
  BY <1>1
<1>4. \A i, j \in DOMAIN t : i + 1 = j + 1 => i = j
  BY <1>1
<1>5. \A r \in RequestsAt(t, Asks(t)) : r \in RequestsAt(s, Asks(s))
  BY <1>2 DEF RequestsAt, Asks
<1>6. s[1].kind = "subscribe" => s[1].request \in RequestsAt(s, Asks(s))
  BY <1>3 DEF RequestsAt, Asks
<1>7. OneEach(s, Asks(s)) => OneEach(t, Asks(t))
  BY <1>2, <1>4 DEF OneEach, Asks
<1>8. OneEach(s, Asks(s)) /\ s[1].kind = "subscribe" =>
        s[1].request \notin RequestsAt(t, Asks(t))
  BY <1>2, <1>3 DEF OneEach, RequestsAt, Asks
<1> QED BY <1>1, <1>5, <1>6, <1>7, <1>8 DEF t

LEMMA AsksAppend ==
  ASSUME NEW S, NEW s \in Seq(S), NEW e \in S
  PROVE  /\ \A r : r \in RequestsAt(Append(s, e), Asks(Append(s, e))) <=>
              (r \in RequestsAt(s, Asks(s)) \/ (e.kind = "subscribe" /\ r = e.request))
         /\ OneEach(s, Asks(s))
              /\ (e.kind = "subscribe" => e.request \notin RequestsAt(s, Asks(s)))
              => OneEach(Append(s, e), Asks(Append(s, e)))
<1> DEFINE t == Append(s, e)
           n == Len(s) + 1
<1>1. /\ DOMAIN s = 1..Len(s) /\ Len(s) \in Nat /\ DOMAIN t = 1..(Len(s) + 1)
      /\ t[Len(s) + 1] = e /\ \A i \in DOMAIN s : t[i] = s[i]
  BY AppendElements, SequenceElements
<1> HIDE DEF t
<1>2. /\ \A i \in DOMAIN t : i # n => i \in DOMAIN s
      /\ \A i \in DOMAIN s : i \in DOMAIN t /\ i # n
      /\ n \in DOMAIN t /\ t[n] = e
  BY <1>1
<1> HIDE DEF n
<1>3. \A r : r \in RequestsAt(t, Asks(t)) <=>
        (r \in RequestsAt(s, Asks(s)) \/ (e.kind = "subscribe" /\ r = e.request))
  BY <1>1, <1>2 DEF RequestsAt, Asks
<1>4. OneEach(s, Asks(s)) /\ (e.kind = "subscribe" => e.request \notin RequestsAt(s, Asks(s)))
        => OneEach(t, Asks(t))
  BY <1>1, <1>2 DEF OneEach, RequestsAt, Asks
<1> QED BY <1>3, <1>4 DEF t

LEMMA WaitersAppend ==
  ASSUME NEW S, NEW s \in Seq(S), NEW e \in S
  PROVE  /\ \A r : r \in RequestsAt(Append(s, e), DOMAIN Append(s, e)) <=>
              (r \in RequestsAt(s, DOMAIN s) \/ r = e.request)
         /\ OneEach(s, DOMAIN s) /\ e.request \notin RequestsAt(s, DOMAIN s)
              => OneEach(Append(s, e), DOMAIN Append(s, e))
<1> DEFINE t == Append(s, e)
           n == Len(s) + 1
<1>1. /\ DOMAIN s = 1..Len(s) /\ Len(s) \in Nat /\ DOMAIN t = 1..(Len(s) + 1)
      /\ t[Len(s) + 1] = e /\ \A i \in DOMAIN s : t[i] = s[i]
  BY AppendElements, SequenceElements
<1> HIDE DEF t
<1>2. /\ \A i \in DOMAIN t : i # n => i \in DOMAIN s
      /\ \A i \in DOMAIN s : i \in DOMAIN t /\ i # n
      /\ n \in DOMAIN t /\ t[n] = e
  BY <1>1
<1> HIDE DEF n
<1>3. \A r : r \in RequestsAt(t, DOMAIN t) <=> (r \in RequestsAt(s, DOMAIN s) \/ r = e.request)
  BY <1>1, <1>2 DEF RequestsAt
<1>4. OneEach(s, DOMAIN s) /\ e.request \notin RequestsAt(s, DOMAIN s) => OneEach(t, DOMAIN t)
  BY <1>1, <1>2 DEF OneEach, RequestsAt
<1> QED BY <1>3, <1>4 DEF t

LEMMA WaitersRemove ==
  ASSUME NEW S, NEW s \in Seq(S), NEW i \in DOMAIN s, OneEach(s, DOMAIN s)
  PROVE  /\ \A r : r \in RequestsAt(RemoveAt(s, i), DOMAIN RemoveAt(s, i)) <=>
              (r \in RequestsAt(s, DOMAIN s) /\ r # s[i].request)
         /\ OneEach(RemoveAt(s, i), DOMAIN RemoveAt(s, i))
<1> DEFINE t == RemoveAt(s, i)
           at(j) == IF j < i THEN j ELSE j + 1
<1>1. /\ Len(s) \in Nat \ {0} /\ i \in 1..Len(s) /\ DOMAIN s = 1..Len(s)
      /\ DOMAIN t = 1..(Len(s) - 1)
      /\ \A j \in 1..(Len(s) - 1) : t[j] = s[at(j)]
  BY RemoveAtElements
<1> HIDE DEF t
<1>2. \A j \in DOMAIN t : at(j) \in DOMAIN s /\ at(j) # i
  BY <1>1
<1>3. \A j, k \in DOMAIN t : at(j) = at(k) => j = k
  BY <1>1
<1>4. \A k \in DOMAIN s : k # i => \E j \in DOMAIN t : at(j) = k
  <2> SUFFICES ASSUME NEW k \in DOMAIN s, k # i
               PROVE  \E j \in DOMAIN t : at(j) = k
    OBVIOUS
  <2>1. CASE k < i
    BY <1>1, <2>1
  <2>2. CASE ~(k < i)
    <3>1. k - 1 \in DOMAIN t /\ at(k - 1) = k
      BY <1>1, <2>2
    <3> QED BY <3>1
  <2> QED BY <2>1, <2>2
<1>5. \A j \in DOMAIN t : t[j] = s[at(j)]
  BY <1>1
<1> HIDE DEF at
<1>6. \A r : r \in RequestsAt(t, DOMAIN t) <=>
        (r \in RequestsAt(s, DOMAIN s) /\ r # s[i].request)
  <2> SUFFICES ASSUME NEW r
               PROVE  r \in RequestsAt(t, DOMAIN t) <=>
                        (r \in RequestsAt(s, DOMAIN s) /\ r # s[i].request)
    OBVIOUS
  <2>1. r \in RequestsAt(t, DOMAIN t) => r \in RequestsAt(s, DOMAIN s) /\ r # s[i].request
    BY <1>2, <1>5 DEF RequestsAt, OneEach
  <2>2. r \in RequestsAt(s, DOMAIN s) /\ r # s[i].request => r \in RequestsAt(t, DOMAIN t)
    BY <1>4, <1>5 DEF RequestsAt
  <2> QED BY <2>1, <2>2
<1>7. OneEach(t, DOMAIN t)
  BY <1>2, <1>3, <1>5 DEF OneEach
<1> QED BY <1>6, <1>7 DEF t

LEMMA OneTold ==
  ASSUME NEW S, NEW m \in S, m.kind # "event"
  PROVE  /\ \A r : r \in Tells(<<m>>) <=> r = m.request
         /\ \A r : r \in Replied(<<m>>) <=>
              (r = m.request /\ m.kind \in {"window", "failed", "ack"})
         /\ OneEach(<<m>>, Told(<<m>>))
<1> DEFINE t == <<m>>
<1>1. DOMAIN t = {1} /\ t[1] = m
  OBVIOUS
<1> HIDE DEF t
<1>2. \A r : r \in Tells(t) <=> r = m.request
  BY <1>1 DEF Tells, RequestsAt, Told
<1>3. \A r : r \in Replied(t) <=> (r = m.request /\ m.kind \in {"window", "failed", "ack"})
  BY <1>1 DEF Replied, RequestsAt, Answers
<1>4. OneEach(t, Told(t))
  BY <1>1 DEF OneEach, Told
<1> QED BY <1>2, <1>3, <1>4 DEF t

LEMMA QuietTold ==
  ASSUME NEW t, Quiet(t)
  PROVE  (\A r : r \notin Tells(t) /\ r \notin Replied(t)) /\ OneEach(t, Told(t))
BY DEF Quiet, Tells, Replied, RequestsAt, Told, Answers, OneEach

\* One step's moves are sound: no request is in two places, and none is made up.
Kept == Unique' /\ \A r \in Flight' : r \in Flight

LEMMA SaysTold ==
  ASSUME HostTypes, NEW t, Says(t)
  PROVE  /\ \A r : r \in Tells(fromHost') <=> (r \in Tells(fromHost) \/ r \in Tells(t))
         /\ \A r : r \in Replied(fromHost') <=> (r \in Replied(fromHost) \/ r \in Replied(t))
         /\ OneEach(fromHost, Told(fromHost)) /\ OneEach(t, Told(t))
              /\ (\A r \in Tells(fromHost) : r \notin Tells(t))
              => OneEach(fromHost', Told(fromHost'))
<1>1. fromHost \in Seq(FromHost) /\ t \in Seq(FromHost) /\ fromHost' = fromHost \o t
  BY DEF HostTypes, Says
<1> QED BY <1>1, ConcatTold

LEMMA SendsRowsKeeps ==
  ASSUME HostTypes, Unique, SendsRows
  PROVE  Kept /\ \A r : r \in InHand' <=> r \in InHand
<1>1. toHost' = toHost /\ Waiters' = Waiters
  BY DEF SendsRows
<1>2. PICK t : Says(t) /\ Quiet(t)
  BY DEF SendsRows
<1>3. (\A r : r \notin Tells(t) /\ r \notin Replied(t)) /\ OneEach(t, Told(t))
  BY <1>2, QuietTold
<1>4. /\ \A r : r \in Tells(fromHost') <=> r \in Tells(fromHost)
      /\ \A r : r \in Replied(fromHost') <=> r \in Replied(fromHost)
      /\ OneEach(fromHost, Told(fromHost)) => OneEach(fromHost', Told(fromHost'))
  BY <1>2, <1>3, SaysTold
<1>5. (\A r : r \in Asking' <=> r \in Asking) /\ (\A r : r \in Waiting' <=> r \in Waiting)
  BY <1>1 DEF Asking, Waiting
<1> QED BY <1>1, <1>4, <1>5 DEF Kept, Unique, Flight, InHand

LEMMA AnswersHeadKeeps ==
  ASSUME HostTypes, Unique, NEW m, AnswersHead(m)
  PROVE  /\ Kept /\ m.request \in Asking
         /\ \A r : r \in InHand' <=> (r \in InHand \/ (r = m.request /\ m.kind = "window"))
<1>1. /\ toHost # <<>> /\ toHost' = Tail(toHost) /\ Head(toHost).kind = "subscribe"
      /\ Waiters' = Waiters /\ Says(<<m>>) /\ m \in FromHost
      /\ m.request = Head(toHost).request /\ m.kind \in {"window", "refused"}
  BY DEF AnswersHead
<1>2. toHost \in Seq(ToHost)
  BY DEF HostTypes
<1>3. /\ \A r \in Asking' : r \in Asking
      /\ m.request \in Asking /\ m.request \notin Asking'
      /\ OneEach(toHost', Asks(toHost'))
  BY <1>1, <1>2, AsksTail DEF Asking, Unique
<1>4. /\ \A r : r \in Tells(<<m>>) <=> r = m.request
      /\ \A r : r \in Replied(<<m>>) <=> (r = m.request /\ m.kind = "window")
      /\ OneEach(<<m>>, Told(<<m>>))
  BY <1>1, OneTold
<1> DEFINE t == <<m>>
<1>5. /\ \A r : r \in Tells(t) <=> r = m.request
      /\ \A r : r \in Replied(t) <=> (r = m.request /\ m.kind = "window")
      /\ OneEach(t, Told(t)) /\ Says(t)
  BY <1>1, <1>4
<1> HIDE DEF t
<1>6. /\ \A r : r \in Tells(fromHost') <=> (r \in Tells(fromHost) \/ r = m.request)
      /\ \A r : r \in Replied(fromHost') <=>
           (r \in Replied(fromHost) \/ (r = m.request /\ m.kind = "window"))
  BY <1>5, SaysTold
<1>7. m.request \notin Tells(fromHost) /\ m.request \notin Waiting
  BY <1>3 DEF Unique
<1>8. OneEach(fromHost', Told(fromHost'))
  BY <1>5, <1>7, SaysTold DEF Unique
<1>9. \A r : r \in Waiting' <=> r \in Waiting
  BY <1>1 DEF Waiting
<1>10. Unique'
  <2>1. OneEach(Waiters', DOMAIN Waiters')
    BY <1>1 DEF Unique
  <2>2. /\ \A r \in Asking' : r \notin Waiting' /\ r \notin Tells(fromHost')
        /\ \A r \in Waiting' : r \notin Tells(fromHost')
    BY <1>3, <1>6, <1>7, <1>9 DEF Unique
  <2> QED BY <1>3, <1>8, <2>1, <2>2 DEF Unique
<1> QED BY <1>3, <1>6, <1>9, <1>10 DEF Kept, Flight, InHand

LEMMA HeadWaitsKeeps ==
  ASSUME HostTypes, Unique, NEW reply, HeadWaits(reply)
  PROVE  /\ Kept /\ reply.request \in Asking
         /\ \A r : r \in InHand' <=> (r \in InHand \/ r = reply.request)
<1>1. /\ toHost # <<>> /\ toHost' = Tail(toHost) /\ Head(toHost).kind = "subscribe"
      /\ reply \in Asked /\ reply.request = Head(toHost).request
      /\ Waiters' = Append(Waiters, reply) /\ Says(<<>>)
  BY DEF HeadWaits
<1>2. toHost \in Seq(ToHost) /\ Waiters \in Seq(Asked)
  BY SentFacts DEF HostTypes
<1>3. /\ \A r \in Asking' : r \in Asking
      /\ reply.request \in Asking /\ reply.request \notin Asking'
      /\ OneEach(toHost', Asks(toHost'))
  BY <1>1, <1>2, AsksTail DEF Asking, Unique
<1>4. reply.request \notin Tells(fromHost) /\ reply.request \notin Waiting
  BY <1>3 DEF Unique
<1>5. /\ \A r : r \in Waiting' <=> (r \in Waiting \/ r = reply.request)
      /\ OneEach(Waiters', DOMAIN Waiters')
  BY <1>1, <1>2, <1>4, WaitersAppend DEF Waiting, Unique
<1>6. fromHost' = fromHost
  BY <1>1, NoElements DEF Says, HostTypes
<1>7. Unique'
  <2>1. OneEach(fromHost', Told(fromHost'))
    BY <1>6 DEF Unique
  <2>2. /\ \A r \in Asking' : r \notin Waiting' /\ r \notin Tells(fromHost')
        /\ \A r \in Waiting' : r \notin Tells(fromHost')
    BY <1>3, <1>4, <1>5, <1>6 DEF Unique
  <2> QED BY <1>3, <1>5, <2>1, <2>2 DEF Unique
<1> QED BY <1>3, <1>5, <1>6, <1>7 DEF Kept, Flight, InHand

LEMMA TakesReleaseKeeps ==
  ASSUME HostTypes, Unique, TakesRelease
  PROVE  Kept /\ \A r : r \in InHand' <=> r \in InHand
<1>1. toHost # <<>> /\ toHost' = Tail(toHost) /\ Waiters' = Waiters /\ Says(<<>>)
  BY DEF TakesRelease
<1>2. toHost \in Seq(ToHost)
  BY DEF HostTypes
<1>3. (\A r \in Asking' : r \in Asking) /\ OneEach(toHost', Asks(toHost'))
  BY <1>1, <1>2, AsksTail DEF Asking, Unique
<1>4. fromHost' = fromHost
  BY <1>1, NoElements DEF Says, HostTypes
<1>5. \A r : r \in Waiting' <=> r \in Waiting
  BY <1>1 DEF Waiting
<1> QED BY <1>1, <1>3, <1>4, <1>5 DEF Kept, Unique, Flight, InHand

LEMMA AnswersOneKeeps ==
  ASSUME HostTypes, Unique, NEW i, NEW m, AnswersOne(i, m)
  PROVE  Kept /\ \A r : r \in InHand' <=> r \in InHand
<1>1. /\ toHost' = toHost /\ i \in DOMAIN Waiters /\ Waiters' = RemoveAt(Waiters, i)
      /\ Says(<<m>>) /\ m \in FromHost /\ m.request = Waiters[i].request
      /\ m.kind \in {"window", "failed", "ack"}
  BY DEF AnswersOne, IsAnswer
<1>2. Waiters \in Seq(Asked) /\ OneEach(Waiters, DOMAIN Waiters)
  BY SentFacts DEF Unique
<1>3. /\ \A r : r \in Waiting' <=> (r \in Waiting /\ r # m.request)
      /\ OneEach(Waiters', DOMAIN Waiters')
  BY <1>1, <1>2, WaitersRemove DEF Waiting
<1>4. m.request \in Waiting
  BY <1>1 DEF Waiting, RequestsAt
<1> DEFINE t == <<m>>
<1>5. /\ \A r : r \in Tells(t) <=> r = m.request
      /\ \A r : r \in Replied(t) <=> r = m.request
      /\ OneEach(t, Told(t)) /\ Says(t)
  BY <1>1, OneTold
<1> HIDE DEF t
<1>6. /\ \A r : r \in Tells(fromHost') <=> (r \in Tells(fromHost) \/ r = m.request)
      /\ \A r : r \in Replied(fromHost') <=> (r \in Replied(fromHost) \/ r = m.request)
  BY <1>5, SaysTold
<1>7. m.request \notin Tells(fromHost) /\ m.request \notin Asking
  BY <1>4 DEF Unique
<1>8. OneEach(fromHost', Told(fromHost'))
  BY <1>5, <1>7, SaysTold DEF Unique
<1>9. \A r : r \in Asking' <=> r \in Asking
  BY <1>1 DEF Asking
<1>10. Unique'
  <2>1. OneEach(toHost', Asks(toHost'))
    BY <1>1 DEF Unique
  <2>2. /\ \A r \in Asking' : r \notin Waiting' /\ r \notin Tells(fromHost')
        /\ \A r \in Waiting' : r \notin Tells(fromHost')
    BY <1>3, <1>6, <1>7, <1>9 DEF Unique
  <2> QED BY <1>3, <1>8, <2>1, <2>2 DEF Unique
<1> QED BY <1>3, <1>4, <1>6, <1>9, <1>10 DEF Kept, Flight, InHand

LEMMA AnswersAllKeeps ==
  ASSUME HostTypes, Unique, NEW t, AnswersAll(t)
  PROVE  Kept /\ \A r : r \in InHand' <=> r \in InHand
<1>1. /\ toHost' = toHost /\ Waiters' = <<>> /\ Says(t)
      /\ \A i \in DOMAIN t : t[i].kind # "event" =>
           \E j \in DOMAIN Waiters : IsAnswer(t[i], Waiters[j].request, log)
      /\ \A j \in DOMAIN Waiters : \E i \in DOMAIN t : IsAnswer(t[i], Waiters[j].request, log)
      /\ OneEach(t, Told(t))
  BY DEF AnswersAll, Unique
<1>2. \A r : r \in Tells(t) <=> r \in Waiting
  BY <1>1 DEF Tells, Waiting, RequestsAt, Told, IsAnswer
<1>3. \A r : r \in Replied(t) <=> r \in Waiting
  BY <1>1 DEF Replied, Waiting, RequestsAt, Answers, IsAnswer
<1>4. /\ \A r : r \in Tells(fromHost') <=> (r \in Tells(fromHost) \/ r \in Waiting)
      /\ \A r : r \in Replied(fromHost') <=> (r \in Replied(fromHost) \/ r \in Waiting)
  BY <1>1, <1>2, <1>3, SaysTold
<1>5. OneEach(fromHost', Told(fromHost'))
  BY <1>1, <1>2, SaysTold DEF Unique
<1>6. \A r : r \in Asking' <=> r \in Asking
  BY <1>1 DEF Asking
<1>7. (\A r : r \notin Waiting') /\ OneEach(Waiters', DOMAIN Waiters')
  <2>1. Waiters' = <<>> /\ DOMAIN <<>> = {}
    BY <1>1, EmptySeq
  <2> QED BY <2>1 DEF Waiting, RequestsAt, OneEach
<1>8. Unique'
  <2>1. OneEach(toHost', Asks(toHost'))
    BY <1>1 DEF Unique
  <2>2. /\ \A r \in Asking' : r \notin Waiting' /\ r \notin Tells(fromHost')
        /\ \A r \in Waiting' : r \notin Tells(fromHost')
    BY <1>4, <1>6, <1>7 DEF Unique
  <2> QED BY <1>5, <1>7, <2>1, <2>2 DEF Unique
<1> QED BY <1>4, <1>6, <1>7, <1>8 DEF Kept, Flight, InHand

-------------------------------------------------------------------------------
(* The mux and the host agree *)

LEMMA LinesTail ==
  ASSUME NEW S, NEW s \in Seq(S), s # <<>>
  PROVE  LET t == Tail(s) IN
         /\ \A i \in Asks(t) : i \in Nat /\ i + 1 \in Asks(s) /\ t[i] = s[i + 1]
         /\ \A i \in Releases(t) : i \in Nat /\ i + 1 \in Releases(s)
         /\ \A i \in Releases(s) : i \in Nat /\ (i # 1 => i > 1 /\ i - 1 \in Releases(t))
         /\ Head(s) = s[1] /\ (Head(s).kind = "subscribe" => 1 \in Asks(s) /\ 1 \notin Releases(s))
         /\ Head(s).kind = "unsubscribe" => 1 \in Releases(s)
<1> DEFINE t == Tail(s)
<1>1. /\ DOMAIN s = 1..Len(s) /\ Len(s) \in Nat \ {0} /\ DOMAIN t = 1..(Len(s) - 1)
      /\ Head(s) = s[1] /\ \A i \in 1..(Len(s) - 1) : t[i] = s[i + 1]
  BY TailElements
<1> HIDE DEF t
<1>2. \A i \in DOMAIN t : i \in Nat /\ i + 1 \in DOMAIN s /\ t[i] = s[i + 1]
  BY <1>1
<1>3. \A i \in DOMAIN s : i \in Nat /\ (i # 1 => i > 1 /\ i - 1 \in DOMAIN t /\ t[i - 1] = s[i])
  BY <1>1
<1>4. 1 \in DOMAIN s
  BY <1>1
<1>5. \A i \in Asks(t) : i \in Nat /\ i + 1 \in Asks(s) /\ t[i] = s[i + 1]
  BY <1>2 DEF Asks
<1>6. \A i \in Releases(t) : i \in Nat /\ i + 1 \in Releases(s)
  BY <1>2 DEF Releases
<1>7. \A i \in Releases(s) : i \in Nat /\ (i # 1 => i > 1 /\ i - 1 \in Releases(t))
  BY <1>3 DEF Releases
<1> QED BY <1>1, <1>4, <1>5, <1>6, <1>7 DEF t, Asks, Releases

LEMMA MuxStill ==
  ASSUME MuxFits, UNCHANGED <<mux, toHost>>, host'.subscribed = host.subscribed,
         \A r : r \in InHand' <=> r \in InHand
  PROVE  MuxFits'
<1>1. Serving' = Serving
  BY DEF Serving
<1> QED BY <1>1 DEF MuxFits, mux

LEMMA MuxHandsOver ==
  ASSUME HostTypes, MuxFits, UNCHANGED mux, toHost # <<>>, toHost' = Tail(toHost),
         NEW q, q = Head(toHost).request, Head(toHost).kind = "subscribe", host'.subscribed,
         \A r : r \in InHand' <=> (r \in InHand \/ r = q)
  PROVE  MuxFits'
<1>1. UNCHANGED <<topics, pending, deferred>>
  BY DEF mux
<1>2. toHost \in Seq(ToHost)
  BY DEF HostTypes
<1>3. /\ \A i \in Asks(toHost') : i \in Nat /\ i + 1 \in Asks(toHost)
            /\ toHost'[i] = toHost[i + 1]
      /\ \A i \in Releases(toHost') : i \in Nat /\ i + 1 \in Releases(toHost)
      /\ \A i \in Releases(toHost) : i \in Nat /\ i > 1 /\ i - 1 \in Releases(toHost')
      /\ toHost[1].request = q /\ 1 \in Asks(toHost)
  BY <1>2, LinesTail
<1>4. Serving => Serving'
  BY <1>3 DEF Serving
<1>5. q \in pending => Serving'
  <2> SUFFICES ASSUME q \in pending, NEW j \in Releases(toHost')
               PROVE  FALSE
    BY DEF Serving
  <2>1. j + 1 < 1 /\ j \in Nat
    BY <1>3 DEF MuxFits
  <2> QED BY <2>1
<1>6. \A r \in InHand' : r \in pending' => Serving'
  BY <1>1, <1>4, <1>5 DEF MuxFits
<1>7. \A i \in Asks(toHost') : toHost'[i].request \in pending' =>
        \A j \in Releases(toHost') : j < i
  <2> SUFFICES ASSUME NEW i \in Asks(toHost'), toHost'[i].request \in pending',
                      NEW j \in Releases(toHost')
               PROVE  j < i
    OBVIOUS
  <2>1. j + 1 < i + 1 /\ i \in Nat /\ j \in Nat
    BY <1>1, <1>3 DEF MuxFits
  <2> QED BY <2>1
<1>8. topics' = {} /\ ~deferred' /\ Serving' => \E r \in InHand' : r \in pending'
  <2> SUFFICES ASSUME topics = {}, ~deferred, Serving'
               PROVE  q \in pending
    BY <1>1
  <2>1. \A j : j \notin Releases(toHost)
    BY <1>3 DEF Serving
  <2> QED BY <1>3, <2>1 DEF MuxFits
<1>9. topics' = {} /\ ~deferred' => \A i \in Asks(toHost') :
        toHost'[i].request \notin pending' => \E j \in Releases(toHost') : i < j
  <2> SUFFICES ASSUME topics = {}, ~deferred, NEW i \in Asks(toHost'),
                      toHost'[i].request \notin pending
               PROVE  \E j \in Releases(toHost') : i < j
    BY <1>1
  <2>1. PICK j \in Releases(toHost) : i + 1 < j
    BY <1>3 DEF MuxFits
  <2>2. j - 1 \in Releases(toHost') /\ i < j - 1
    BY <1>3, <2>1
  <2> QED BY <2>2
<1> QED BY <1>1, <1>4, <1>6, <1>7, <1>8, <1>9 DEF MuxFits

LEMMA MuxHandsRefusal ==
  ASSUME HostTypes, MuxFits, UNCHANGED mux, toHost # <<>>, toHost' = Tail(toHost),
         Head(toHost).kind = "subscribe", host'.subscribed = host.subscribed,
         \A r : r \in InHand' <=> r \in InHand
  PROVE  MuxFits'
<1>1. UNCHANGED <<topics, pending, deferred>>
  BY DEF mux
<1>2. toHost \in Seq(ToHost)
  BY DEF HostTypes
<1>3. /\ \A i \in Asks(toHost') : i \in Nat /\ i + 1 \in Asks(toHost)
            /\ toHost'[i] = toHost[i + 1]
      /\ \A i \in Releases(toHost') : i \in Nat /\ i + 1 \in Releases(toHost)
      /\ \A i \in Releases(toHost) : i \in Nat /\ i > 1 /\ i - 1 \in Releases(toHost')
  BY <1>2, LinesTail
<1>4. Serving <=> Serving'
  BY <1>3 DEF Serving
<1>5. \A i \in Asks(toHost') : toHost'[i].request \in pending' =>
        \A j \in Releases(toHost') : j < i
  <2> SUFFICES ASSUME NEW i \in Asks(toHost'), toHost'[i].request \in pending',
                      NEW j \in Releases(toHost')
               PROVE  j < i
    OBVIOUS
  <2>1. j + 1 < i + 1 /\ i \in Nat /\ j \in Nat
    BY <1>1, <1>3 DEF MuxFits
  <2> QED BY <2>1
<1>6. topics' = {} /\ ~deferred' => \A i \in Asks(toHost') :
        toHost'[i].request \notin pending' => \E j \in Releases(toHost') : i < j
  <2> SUFFICES ASSUME topics = {}, ~deferred, NEW i \in Asks(toHost'),
                      toHost'[i].request \notin pending
               PROVE  \E j \in Releases(toHost') : i < j
    BY <1>1
  <2>1. PICK j \in Releases(toHost) : i + 1 < j
    BY <1>3 DEF MuxFits
  <2>2. j - 1 \in Releases(toHost') /\ i < j - 1
    BY <1>3, <2>1
  <2> QED BY <2>2
<1> QED BY <1>1, <1>4, <1>5, <1>6 DEF MuxFits

LEMMA MuxHandsRelease ==
  ASSUME HostTypes, MuxFits, UNCHANGED mux, toHost # <<>>, toHost' = Tail(toHost),
         Head(toHost).kind = "unsubscribe", ~host'.subscribed,
         \A r : r \in InHand' <=> r \in InHand
  PROVE  MuxFits'
<1>1. UNCHANGED <<topics, pending, deferred>>
  BY DEF mux
<1>2. toHost \in Seq(ToHost)
  BY DEF HostTypes
<1>3. /\ \A i \in Asks(toHost') : i \in Nat /\ i + 1 \in Asks(toHost)
            /\ toHost'[i] = toHost[i + 1]
      /\ \A i \in Releases(toHost') : i \in Nat /\ i + 1 \in Releases(toHost)
      /\ \A i \in Releases(toHost) : i \in Nat /\ (i # 1 => i > 1 /\ i - 1 \in Releases(toHost'))
      /\ 1 \in Releases(toHost)
  BY <1>2, LinesTail
<1>4. ~Serving /\ ~Serving'
  BY <1>3 DEF Serving
<1>5. \A i \in Asks(toHost') : toHost'[i].request \in pending' =>
        \A j \in Releases(toHost') : j < i
  <2> SUFFICES ASSUME NEW i \in Asks(toHost'), toHost'[i].request \in pending',
                      NEW j \in Releases(toHost')
               PROVE  j < i
    OBVIOUS
  <2>1. j + 1 < i + 1 /\ i \in Nat /\ j \in Nat
    BY <1>1, <1>3 DEF MuxFits
  <2> QED BY <2>1
<1>6. topics' = {} /\ ~deferred' => \A i \in Asks(toHost') :
        toHost'[i].request \notin pending' => \E j \in Releases(toHost') : i < j
  <2> SUFFICES ASSUME topics = {}, ~deferred, NEW i \in Asks(toHost'),
                      toHost'[i].request \notin pending
               PROVE  \E j \in Releases(toHost') : i < j
    BY <1>1
  <2>1. PICK j \in Releases(toHost) : i + 1 < j
    BY <1>3 DEF MuxFits
  <2>2. j # 1 /\ j \in Nat /\ i \in Nat
    BY <1>3, <2>1
  <2>3. j - 1 \in Releases(toHost') /\ i < j - 1
    BY <1>3, <2>1, <2>2
  <2> QED BY <2>3
<1> QED BY <1>1, <1>4, <1>5, <1>6 DEF MuxFits

LEMMA LinesAppend ==
  ASSUME NEW S, NEW s \in Seq(S), NEW e \in S
  PROVE  LET t == Append(s, e) IN
         /\ t[Len(s) + 1] = e /\ (e.kind # "subscribe" => Len(s) + 1 \notin Asks(t))
         /\ \A i \in Asks(t) : i # Len(s) + 1 => i \in Asks(s) /\ t[i] = s[i]
         /\ \A i \in Releases(s) : i \in Releases(t) /\ i < Len(s) + 1
         /\ \A i \in Asks(s) : i < Len(s) + 1
         /\ e.kind # "unsubscribe" => \A i \in Releases(t) : i \in Releases(s)
         /\ e.kind = "unsubscribe" => Len(s) + 1 \in Releases(t)
<1> DEFINE t == Append(s, e)
           n == Len(s) + 1
<1>1. /\ DOMAIN s = 1..Len(s) /\ Len(s) \in Nat /\ DOMAIN t = 1..(Len(s) + 1)
      /\ t[Len(s) + 1] = e /\ \A i \in DOMAIN s : t[i] = s[i]
  BY AppendElements, SequenceElements
<1> HIDE DEF t
<1>2. /\ \A i \in DOMAIN t : i = n \/ (i \in DOMAIN s /\ t[i] = s[i])
      /\ \A i \in DOMAIN s : i \in DOMAIN t /\ i < n /\ t[i] = s[i]
      /\ n \in DOMAIN t /\ t[n] = e
  BY <1>1
<1> HIDE DEF n
<1>3. /\ t[n] = e /\ (e.kind # "subscribe" => n \notin Asks(t))
      /\ \A i \in Asks(t) : i # n => i \in Asks(s) /\ t[i] = s[i]
  BY <1>2 DEF Asks
<1>4. \A i \in Releases(s) : i \in Releases(t) /\ i < n
  BY <1>2 DEF Releases
<1>5. \A i \in Asks(s) : i < n
  BY <1>2 DEF Asks
<1>6. e.kind # "unsubscribe" => \A i \in Releases(t) : i \in Releases(s)
  BY <1>2 DEF Releases
<1>7. e.kind = "unsubscribe" => n \in Releases(t)
  BY <1>2 DEF Releases
<1> QED BY <1>3, <1>4, <1>5, <1>6, <1>7 DEF t, n

LEMMA UnsubscribingFacts ==
  /\ Unsubscribing \in ToHost /\ Unsubscribing \in LinkLines
  /\ Unsubscribing.kind = "unsubscribe"
BY DEF Unsubscribing, ToHost, LinkLines, Line

LEMMA MuxReleases ==
  ASSUME HostTypes, MuxFits, host'.subscribed = host.subscribed,
         \A r : r \in InHand' <=> r \in InHand,
         \A r \in pending' : r \in pending, \A conn \in topics' : conn \in topics,
         Release(topics', pending')
  PROVE  MuxFits'
<1>1. toHost \in Seq(ToHost)
  BY DEF HostTypes
<1>2. CASE topics' # {}
  <2>1. deferred' = FALSE /\ toHost' = toHost
    BY <1>2 DEF Release
  <2>2. Serving' = Serving
    BY <2>1 DEF Serving
  <2> QED BY <1>2, <2>1, <2>2 DEF MuxFits
<1>3. CASE topics' = {} /\ pending' # {}
  <2>1. deferred' = TRUE /\ toHost' = toHost
    BY <1>3 DEF Release
  <2>2. Serving' = Serving
    BY <2>1 DEF Serving
  <2> QED BY <1>3, <2>1, <2>2 DEF MuxFits
<1>4. CASE topics' = {} /\ pending' = {}
  <2>1. deferred' = FALSE /\ toHost' = Append(toHost, Unsubscribing)
    BY <1>4 DEF Release
  <2> DEFINE e == Unsubscribing
             n == Len(toHost) + 1
  <2>2. e \in ToHost /\ e.kind = "unsubscribe" /\ toHost' = Append(toHost, e)
    BY <2>1, UnsubscribingFacts
  <2> HIDE DEF e
  <2>3. n \in Releases(toHost') /\ \A i \in Asks(toHost') : i \in Asks(toHost) /\ i < n
    BY <1>1, <2>2, LinesAppend
  <2>4. ~Serving'
    BY <2>3 DEF Serving
  <2> QED BY <1>4, <2>1, <2>3, <2>4 DEF MuxFits
<1> QED BY <1>2, <1>3, <1>4

LEMMA MuxAnswers ==
  ASSUME MuxFits, NEW q, q \in InHand, toHost' = toHost, host'.subscribed = host.subscribed,
         \A r : r \in InHand' <=> (r \in InHand /\ r # q),
         IF q \in pending THEN Subscribed(q) ELSE UNCHANGED mux
  PROVE  MuxFits'
<1>1. Serving' = Serving
  BY DEF Serving
<1>2. CASE q \in pending
  <2>1. /\ topics' = topics \union {q.conn} /\ pending' = pending \ {q} /\ deferred' = FALSE
    BY <1>2 DEF Subscribed
  <2>2. Serving
    BY <1>2 DEF MuxFits
  <2>3. topics' # {} /\ \A r \in pending' : r \in pending
    BY <2>1
  <2> QED BY <1>1, <2>1, <2>2, <2>3 DEF MuxFits
<1>3. CASE q \notin pending
  <2>1. UNCHANGED <<topics, pending, deferred>>
    BY <1>3 DEF mux
  <2> QED BY <1>1, <1>3, <2>1 DEF MuxFits
<1> QED BY <1>2, <1>3

LEMMA MuxRefuses ==
  ASSUME HostTypes, MuxFits, NEW q, q \notin InHand, q \notin Asking,
         host'.subscribed = host.subscribed, \A r : r \in InHand' <=> r \in InHand,
         topics' = topics, pending' = pending \ {q},
         IF q \in pending /\ deferred THEN Release(topics, pending')
                                      ELSE UNCHANGED <<toHost, deferred>>
  PROVE  MuxFits'
<1>1. CASE q \in pending /\ deferred
  <2>1. Release(topics', pending')
    BY <1>1
  <2> QED BY <2>1, MuxReleases
<1>2. CASE ~(q \in pending /\ deferred)
  <2>1. UNCHANGED <<toHost, deferred>>
    BY <1>2
  <2>2. Serving' = Serving
    BY <2>1 DEF Serving
  <2>3. \A i \in Asks(toHost) : toHost[i].request # q
    BY DEF Asking, RequestsAt
  <2>4. deferred => pending' = pending
    BY <1>2
  <2> QED BY <2>1, <2>2, <2>3, <2>4 DEF MuxFits
<1> QED BY <1>1, <1>2

LEMMA MuxForwards ==
  ASSUME HostTypes, MuxFits, NEW q, q \notin InHand, q \notin Asking,
         NEW e \in ToHost, e.kind = "subscribe", e.request = q,
         host'.subscribed = host.subscribed, \A r : r \in InHand' <=> r \in InHand,
         UNCHANGED <<topics, deferred>>, pending' = pending \union {q},
         toHost' = Append(toHost, e)
  PROVE  MuxFits'
<1>1. toHost \in Seq(ToHost)
  BY DEF HostTypes
<1> DEFINE n == Len(toHost) + 1
<1>2. /\ \A i \in Asks(toHost') : (i \in Asks(toHost) /\ toHost'[i] = toHost[i])
           \/ (i = n /\ toHost'[i] = e)
      /\ \A i \in Releases(toHost) : i \in Releases(toHost') /\ i < n
      /\ \A i \in Releases(toHost') : i \in Releases(toHost)
  <2> DEFINE s == toHost
             t == Append(s, e)
  <2>1. t[n] = e /\ \A i \in Asks(t) : i # n => i \in Asks(s) /\ t[i] = s[i]
    BY <1>1, LinesAppend
  <2>3. \A i \in Releases(s) : i \in Releases(t) /\ i < n
    BY <1>1, LinesAppend
  <2>4. e.kind # "unsubscribe" => \A i \in Releases(t) : i \in Releases(s)
    BY <1>1, LinesAppend
  <2>2. toHost' = t /\ e.kind # "unsubscribe"
    OBVIOUS
  <2> HIDE DEF n, t
  <2> QED BY <2>1, <2>2, <2>3, <2>4
<1> HIDE DEF n
<1>3. Serving' <=> Serving
  BY <1>2 DEF Serving
<1>4. \A i \in Asks(toHost) : toHost[i].request # q
  BY DEF Asking, RequestsAt
<1>5. \A i \in Asks(toHost') : toHost'[i].request \in pending' =>
        \A j \in Releases(toHost') : j < i
  BY <1>2, <1>4 DEF MuxFits
<1>6. topics' = {} /\ ~deferred' => \A i \in Asks(toHost') :
        toHost'[i].request \notin pending' => \E j \in Releases(toHost') : i < j
  BY <1>2, <1>4 DEF MuxFits
<1> QED BY <1>3, <1>5, <1>6 DEF MuxFits

-------------------------------------------------------------------------------
(* The links and what they asked for *)

LinksFit == \A c \in Clients : LinkFits(link[c], upsets)
AllLinesFit == \A conn \in Conns : LinesFit(conn)
FlightsFit == \A r \in Flight : FlightFits(r)

LEMMA FlightTypes ==
  ASSUME HostTypes
  PROVE  \A r \in Flight : r \in Requests /\ r.conn \in Conns /\ r.conn[1] \in Clients
                             /\ r.conn[2] \in Nat /\ r.id \in Nat
<1>1. toHost \in Seq(ToHost) /\ fromHost \in Seq(FromHost) /\ Waiters \in Seq(Asked)
  BY SentFacts DEF HostTypes
<1>2. \A r \in Asking : r \in Requests
  <2>1. \A i \in DOMAIN toHost : toHost[i] \in ToHost
    BY <1>1, SequenceElements
  <2>2. \A line \in ToHost : line.kind = "subscribe" => line.request \in Requests
    BY DEF ToHost, Subscribing, Unsubscribing, Line
  <2> QED BY <2>1, <2>2 DEF Asking, RequestsAt, Asks
<1>3. \A r \in Waiting : r \in Requests
  <2>1. \A i \in DOMAIN Waiters : Waiters[i] \in Asked
    BY <1>1, SequenceElements
  <2> QED BY <2>1 DEF Waiting, RequestsAt, Asked
<1>4. \A r \in Tells(fromHost) : r \in Requests
  <2>1. \A i \in DOMAIN fromHost : fromHost[i] \in FromHost
    BY <1>1, SequenceElements
  <2>2. \A m \in FromHost : m.kind # "event" => m.request \in Requests
    BY DEF FromHost
  <2> QED BY <2>1, <2>2 DEF Tells, RequestsAt, Told
<1>5. \A r \in Flight : r \in Requests
  BY <1>2, <1>3, <1>4 DEF Flight
<1>6. \A r \in Requests : r.conn \in Conns /\ r.id \in Nat
  BY DEF Requests
<1>7. \A conn \in Conns : conn[1] \in Clients /\ conn[2] \in Nat
  BY RowFacts DEF Conns
<1> QED BY <1>5, <1>6, <1>7

\* What a client's own steps may do to its link, while its connection stays.
LinkStep(l, n) ==
  /\ n \in Links /\ n.up = l.up /\ n.epoch = l.epoch /\ l.asked <= n.asked
  /\ \/ n.out = l.out
     \/ n.out = Unsubscribing /\ ~n.wants
     \/ n.out \in Subscribing(Nat) /\ l.asked < n.out.request /\ n.out.request <= n.asked
  /\ n.awaits # None => n.wants /\ n.awaits = n.asked
  /\ n.up /\ n.out = Unsubscribing => ~n.wants

LinkSteps(c) ==
  /\ link' \in [Clients -> Links] /\ LinkStep(link[c], link'[c])
  /\ \A d \in Clients : d # c => link'[d] = link[d]

LEMMA LineFacts ==
  /\ \A line \in Subscribing(Nat) :
       line # Unsubscribing /\ line # None /\ line.kind = "subscribe" /\ line.request \in Nat
  /\ Unsubscribing.kind = "unsubscribe" /\ Closing.kind = "closed"
  /\ Unsubscribing # None
  /\ \A line \in LinkLines : line.kind = "subscribe" => line \in Subscribing(Nat)
  /\ \A request \in Nat, after \in Cursors :
       LET line == Line("subscribe", request, after)
       IN line \in Subscribing(Nat) /\ line.request = request /\ line.after = after
<1>1. /\ \A line \in Subscribing(Nat) : line.kind = "subscribe" /\ line.request \in Nat
      /\ Unsubscribing.kind = "unsubscribe" /\ Closing.kind = "closed"
  BY DEF Subscribing, Unsubscribing, Closing, Line
<1>2. /\ \A line \in Subscribing(Nat) : line # None
      /\ Unsubscribing # None
  BY NoneAssumption
<1>3. \A line \in LinkLines : line.kind = "subscribe" => line \in Subscribing(Nat)
  BY <1>1 DEF LinkLines
<1>4. \A request \in Nat, after \in Cursors :
        LET line == Line("subscribe", request, after)
        IN line \in Subscribing(Nat) /\ line.request = request /\ line.after = after
  BY DEF Line, Subscribing
<1> QED BY <1>1, <1>2, <1>3, <1>4

LEMMA SendFacts ==
  ASSUME NEW l \in Links, l.wants, NEW after \in Cursors
  PROVE  LET n == SendSubscription(l, after) IN
         /\ n \in Links /\ n.up = l.up /\ n.epoch = l.epoch /\ n.wants /\ n.after = after
         /\ l.up => /\ n.asked = l.asked + 1 /\ n.awaits = l.asked + 1
                    /\ n.out \in Subscribing(Nat) /\ n.out.request = l.asked + 1
                    /\ n.out # Unsubscribing
         /\ ~l.up => n.asked = l.asked /\ n.awaits = None /\ n.out = l.out
         /\ LinkStep(l, n)
<1> DEFINE n == SendSubscription(l, after)
           line == Line("subscribe", l.asked + 1, after)
<1>1. /\ l.up \in BOOLEAN /\ l.epoch \in Nat /\ l.asked \in Nat /\ l.wants \in BOOLEAN
      /\ l.out \in LinkLines \union {None}
  BY DEF Links
<1>2. l.asked + 1 \in Nat
  BY <1>1
<1>3. /\ line \in Subscribing(Nat) /\ line.request = l.asked + 1 /\ line # Unsubscribing
      /\ line # None
  BY <1>2, LineFacts
<1> HIDE DEF line
<1>4. CASE l.up
  <2>1. n = [l EXCEPT !.after = after, !.asked = @ + 1, !.awaits = l.asked + 1, !.out = line]
    BY <1>4 DEF SendSubscription, line
  <2>2. line \in LinkLines
    BY <1>3 DEF LinkLines
  <2> HIDE DEF n
  <2>3. /\ n.up = l.up /\ n.epoch = l.epoch /\ n.wants = l.wants /\ n.after = after
        /\ n.asked = l.asked + 1 /\ n.awaits = l.asked + 1 /\ n.out = line
    BY <2>1 DEF Links
  <2>4. n \in Links
    BY <1>1, <1>2, <2>1, <2>2 DEF Links
  <2>5. LinkStep(l, n)
    BY <1>1, <1>2, <1>3, <2>3, <2>4, NoneFacts DEF LinkStep
  <2> QED BY <1>3, <1>4, <2>3, <2>4, <2>5 DEF n
<1>5. CASE ~l.up
  <2>1. n = [l EXCEPT !.after = after, !.awaits = None]
    BY <1>5 DEF SendSubscription
  <2> HIDE DEF n
  <2>2. /\ n.up = l.up /\ n.epoch = l.epoch /\ n.wants = l.wants /\ n.after = after
        /\ n.asked = l.asked /\ n.awaits = None /\ n.out = l.out
    BY <2>1 DEF Links
  <2>3. n \in Links
    BY <1>1, <2>1 DEF Links
  <2>4. LinkStep(l, n)
    BY <1>1, <1>5, <2>2, <2>3 DEF LinkStep
  <2> QED BY <1>5, <2>2, <2>3, <2>4 DEF n
<1> QED BY <1>4, <1>5

LEMMA LinkStepFits ==
  ASSUME NEW l \in Links, NEW n, NEW lost \in Nat, LinkFits(l, lost), LinkStep(l, n)
  PROVE  LinkFits(n, lost)
<1>1. /\ l.asked \in Nat /\ n.asked \in Nat
      /\ n.up = l.up /\ n.epoch = l.epoch /\ l.asked <= n.asked
      /\ l.out \in LinkLines \union {None}
  BY DEF Links, LinkStep
<1>2. n.out # None /\ n.out.kind = "subscribe" => n.out.request <= n.asked
  <2>1. CASE n.out = l.out /\ l.out # None /\ l.out.kind = "subscribe"
    <3>1. l.out.request <= l.asked /\ l.out.request \in Nat
      BY <1>1, <2>1, LineFacts DEF LinkFits
    <3> QED BY <1>1, <2>1, <3>1
  <2> QED BY <2>1, LineFacts DEF LinkStep
<1> QED BY <1>1, <1>2 DEF LinkFits, LinkStep

LEMMA LinkStepsFit ==
  ASSUME Types, LinksFit, AllLinesFit, FlightsFit, NEW c \in Clients, LinkSteps(c),
         UNCHANGED <<lines, upsets>>, \A r \in Flight' : r \in Flight
  PROVE  LinksFit' /\ AllLinesFit' /\ FlightsFit'
<1>1. /\ link \in [Clients -> Links] /\ upsets \in Nat
      /\ lines \in [Conns -> Seq(LinkLines \union {Closing})]
  BY RowFacts DEF Types, ClientTypes, CountTypes, MuxTypes
<1> DEFINE l == link[c]
           n == link'[c]
<1>2. l \in Links /\ LinkFits(l, upsets)
  BY <1>1 DEF LinksFit
<1>3. LinkStep(l, n)
  BY DEF LinkSteps
<1>4. /\ l.asked \in Nat /\ n.asked \in Nat /\ n.up = l.up /\ n.epoch = l.epoch
      /\ l.asked <= n.asked /\ l.out \in LinkLines \union {None} /\ l.epoch \in Nat
  BY <1>2, <1>3 DEF Links, LinkStep
<1> HIDE DEF l, n
<1>5. \A d \in Clients : link'[d] = IF d = c THEN n ELSE link[d]
  BY DEF LinkSteps, n
<1>6. LinkFits(n, upsets)
  BY <1>1, <1>2, <1>3, LinkStepFits
<1>7. LinksFit'
  <2>1. \A d \in Clients : LinkFits(link'[d], upsets')
    BY <1>5, <1>6 DEF LinksFit
  <2> QED BY <2>1 DEF LinksFit
<1>8. \A conn \in Conns : conn[1] \in Clients /\ (Over(conn)' <=> Over(conn))
  <2>1. \A conn \in Conns : conn[1] \in Clients
    BY DEF Conns
  <2> QED BY <1>4, <1>5, <2>1 DEF Over, l
<1>9. AllLinesFit'
  <2> SUFFICES ASSUME NEW conn \in Conns
               PROVE  LinesFit(conn)'
    BY DEF AllLinesFit
  <2>1. LinesFit(conn) /\ conn[1] \in Clients /\ lines'[conn] = lines[conn]
    BY <1>8 DEF AllLinesFit
  <2>2. \A i \in DOMAIN lines[conn] : lines[conn][i].kind = "subscribe" =>
          lines[conn][i].request <= link'[conn[1]].asked
    <3> SUFFICES ASSUME NEW i \in DOMAIN lines[conn], lines[conn][i].kind = "subscribe"
                 PROVE  lines[conn][i].request <= link'[conn[1]].asked
      OBVIOUS
    <3>1. lines[conn][i].request <= link[conn[1]].asked
      BY <2>1 DEF LinesFit
    <3>2. lines[conn][i] \in LinkLines \union {Closing}
      BY <1>1, SequenceElements
    <3>3. lines[conn][i].request \in Nat
      BY <3>2, LineFacts
    <3> QED BY <1>4, <1>5, <2>1, <3>1, <3>3 DEF l
  <2> QED BY <1>8, <2>1, <2>2 DEF LinesFit
<1>10. FlightsFit'
  <2> SUFFICES ASSUME NEW r \in Flight'
               PROVE  FlightFits(r)'
    BY DEF FlightsFit
  <2>1. /\ r \in Flight /\ r.conn \in Conns /\ r.conn[1] \in Clients /\ r.conn[2] \in Nat
        /\ r.id \in Nat /\ FlightFits(r)
    BY FlightTypes DEF Types, FlightsFit
  <2>2. CASE r.conn[1] # c
    BY <1>5, <2>1, <2>2 DEF FlightFits
  <2>3. CASE r.conn[1] = c
    <3>1. /\ r.conn[2] <= l.epoch /\ r.id <= l.asked
          /\ l.up /\ r.conn[2] = l.epoch /\ l.out # None => Older(r, l.out)
          /\ \A i \in DOMAIN lines[r.conn] : Older(r, lines[r.conn][i])
      BY <2>1, <2>3 DEF FlightFits, l
    <3>2. r.id <= n.asked
      BY <1>4, <2>1, <3>1
    <3>3. n.up /\ r.conn[2] = n.epoch /\ n.out # None => Older(r, n.out)
      <4>1. CASE n.out = l.out
        BY <1>4, <3>1, <4>1
      <4>2. CASE n.out = Unsubscribing
        BY <4>2, LineFacts DEF Older
      <4>3. CASE n.out \in Subscribing(Nat) /\ l.asked < n.out.request
        BY <1>4, <2>1, <3>1, <4>3, LineFacts DEF Older
      <4> QED BY <1>3, <4>1, <4>2, <4>3 DEF LinkStep
    <3> QED BY <1>4, <1>5, <2>3, <3>1, <3>2, <3>3 DEF FlightFits
  <2> QED BY <2>2, <2>3
<1> QED BY <1>7, <1>9, <1>10

LEMMA HostStill ==
  ASSUME HostTypes, UNCHANGED <<log, served, toHost, fromHost>>
  PROVE  /\ HostTypes' /\ Sent' = Sent /\ (Unique => Kept)
         /\ \A r : (r \in Flight' <=> r \in Flight) /\ (r \in InHand' <=> r \in InHand)
<1>1. UNCHANGED <<log, host, hydration, shown, gap, toHost, fromHost>>
  BY DEF served
<1>2. HostTypes'
  BY <1>1 DEF HostTypes
<1>3. Sent' = Sent /\ Waiters' = Waiters
  BY <1>1 DEF Sent, Waiters
<1>4. Asking' = Asking /\ Waiting' = Waiting /\ Flight' = Flight /\ InHand' = InHand
  BY <1>1, <1>3 DEF Asking, Waiting, Flight, InHand
<1>5. Unique => Unique'
  BY <1>1, <1>3, <1>4 DEF Unique
<1> QED BY <1>2, <1>3, <1>4, <1>5 DEF Kept

MuxState == topics \subseteq Conns /\ pending \subseteq Requests /\ deferred \in BOOLEAN

\* A step of the mux that gives up what a connection has, or tells the host of it.
GivesUp ==
  /\ \A r \in pending' : r \in pending
  /\ \A conn \in topics' : conn \in topics
  /\ \/ Release(topics', pending')
     \/ UNCHANGED <<toHost, deferred>> /\ (topics' = topics \/ topics' # {})
          /\ (pending' = pending \/ topics' # {})

LEMMA ReleaseTypes ==
  ASSUME toHost \in Seq(ToHost), NEW ts, NEW waiting, Release(ts, waiting)
  PROVE  /\ toHost' \in Seq(ToHost) /\ deferred' \in BOOLEAN
         /\ \A r : r \in Asking' <=> r \in Asking
         /\ OneEach(toHost, Asks(toHost)) => OneEach(toHost', Asks(toHost'))
<1>1. CASE toHost' = toHost
  BY <1>1 DEF Release, Asking
<1>2. CASE toHost' = Append(toHost, Unsubscribing)
  <2> DEFINE e == Unsubscribing
  <2>1. e \in ToHost /\ e.kind = "unsubscribe" /\ toHost' = Append(toHost, e)
    BY <1>2, UnsubscribingFacts
  <2> HIDE DEF e
  <2>2. toHost' \in Seq(ToHost)
    BY <2>1, AppendElements
  <2>3. /\ \A r : r \in RequestsAt(toHost', Asks(toHost'))
                   <=> r \in RequestsAt(toHost, Asks(toHost))
        /\ OneEach(toHost, Asks(toHost)) => OneEach(toHost', Asks(toHost'))
    BY <2>1, AsksAppend
  <2> QED BY <2>2, <2>3 DEF Release, Asking
<1> QED BY <1>1, <1>2 DEF Release

LEMMA GivesUpKeeps ==
  ASSUME HostTypes, MuxState, Unique, MuxFits, GivesUp, UNCHANGED <<log, served, fromHost>>
  PROVE  /\ HostTypes' /\ MuxState' /\ Kept /\ MuxFits' /\ Sent' = Sent
         /\ \A r : r \in InHand' <=> r \in InHand
<1>1. UNCHANGED <<log, host, hydration, shown, gap, fromHost>>
  BY DEF served
<1>2. Sent' = Sent /\ Waiters' = Waiters
  BY <1>1 DEF Sent, Waiters
<1>3. Waiting' = Waiting /\ InHand' = InHand
  BY <1>1, <1>2 DEF Waiting, InHand
<1>4. /\ toHost' \in Seq(ToHost) /\ deferred' \in BOOLEAN
      /\ \A r : r \in Asking' <=> r \in Asking
      /\ OneEach(toHost, Asks(toHost)) => OneEach(toHost', Asks(toHost'))
  <2>1. CASE Release(topics', pending')
    BY <2>1, ReleaseTypes DEF HostTypes
  <2>2. CASE UNCHANGED <<toHost, deferred>>
    BY <2>2 DEF HostTypes, MuxState, Asking
  <2> QED BY <2>1, <2>2 DEF GivesUp
<1>5. HostTypes'
  BY <1>1, <1>4 DEF HostTypes
<1>6. MuxState'
  BY <1>4 DEF MuxState, GivesUp
<1>7. Kept
  BY <1>1, <1>2, <1>3, <1>4 DEF Kept, Unique, Flight
<1>8. MuxFits'
  <2>1. CASE Release(topics', pending')
    BY <1>1, <1>3, <2>1, MuxReleases DEF GivesUp
  <2>2. CASE UNCHANGED <<toHost, deferred, topics, pending>>
    BY <1>1, <1>3, <2>2, MuxStill DEF mux
  <2>3. CASE UNCHANGED <<toHost, deferred>> /\ topics' # {}
    <3>1. Serving' = Serving
      BY <1>1, <2>3 DEF Serving
    <3>2. ~deferred /\ topics # {}
      BY <2>3 DEF MuxFits, GivesUp
    <3> QED BY <1>3, <2>3, <3>1, <3>2 DEF MuxFits, GivesUp
  <2> QED BY <2>1, <2>2, <2>3 DEF GivesUp
<1> QED BY <1>2, <1>3, <1>5, <1>6, <1>7, <1>8

LEMMA ForwardKeeps ==
  ASSUME HostTypes, MuxState, Unique, MuxFits, UNCHANGED <<log, served, fromHost>>,
         NEW conn \in Conns, NEW line \in Subscribing(Nat), Forward(conn, line),
         NEW q, q = [conn |-> conn, id |-> line.request], q \notin Flight
  PROVE  /\ HostTypes' /\ MuxState' /\ Unique' /\ MuxFits' /\ Sent' = Sent
         /\ \A r \in Flight' : r \in Flight \/ r = q
         /\ \A r : r \in InHand' <=> r \in InHand
<1>1. UNCHANGED <<log, host, hydration, shown, gap, fromHost>>
  BY DEF served
<1>2. Sent' = Sent /\ Waiters' = Waiters
  BY <1>1 DEF Sent, Waiters
<1>3. Waiting' = Waiting /\ InHand' = InHand
  BY <1>1, <1>2 DEF Waiting, InHand
<1> DEFINE e == Line("subscribe", q, line.after)
<1>4. /\ pending' = pending \union {q} /\ toHost' = Append(toHost, e)
      /\ UNCHANGED <<topics, deferred>>
  BY DEF Forward
<1>5. q \in Requests /\ line.after \in Cursors
  BY DEF Requests, Subscribing
<1>6. e \in ToHost /\ e.kind = "subscribe" /\ e.request = q
  BY <1>5 DEF ToHost, Subscribing, Line
<1> HIDE DEF e
<1>7. toHost \in Seq(ToHost)
  BY DEF HostTypes
<1>8. toHost' \in Seq(ToHost)
  BY <1>4, <1>6, <1>7, AppendElements
<1>9. q \notin Asking /\ q \notin Waiting /\ q \notin Tells(fromHost)
  BY DEF Flight
<1>10. /\ \A r : r \in Asking' <=> (r \in Asking \/ r = q)
       /\ OneEach(toHost', Asks(toHost'))
  BY <1>4, <1>6, <1>7, <1>9, AsksAppend DEF Asking, Unique
<1>11. HostTypes' /\ MuxState'
  BY <1>1, <1>4, <1>5, <1>8 DEF HostTypes, MuxState
<1>12. Unique'
  <2>1. OneEach(Waiters', DOMAIN Waiters') /\ OneEach(fromHost', Told(fromHost'))
    BY <1>1, <1>2 DEF Unique
  <2> QED BY <1>1, <1>3, <1>9, <1>10, <2>1 DEF Unique
<1>13. \A r \in Flight' : r \in Flight \/ r = q
  BY <1>1, <1>3, <1>10 DEF Flight
<1>14. q \notin InHand
  <2>1. \A r \in Replied(fromHost) : r \in Tells(fromHost)
    BY DEF Replied, Tells, RequestsAt, Answers, Told
  <2> QED BY <1>9, <2>1 DEF InHand
<1>15. MuxFits'
  BY <1>1, <1>3, <1>4, <1>6, <1>9, <1>14, MuxForwards
<1> QED BY <1>2, <1>3, <1>11, <1>12, <1>13, <1>15

LEMMA WithdrawGivesUp ==
  ASSUME NEW conn, Withdraw(conn) \/ Closed(conn)
  PROVE  GivesUp
<1>1. /\ \A r \in pending' : r \in pending
      /\ \A other \in topics' : other \in topics
  BY DEF Withdraw, Closed, Others
<1>2. CASE Withdraw(conn)
  <2>1. Release({}, pending') /\ topics' = {} => Release(topics', pending')
    OBVIOUS
  <2> QED BY <1>1, <1>2, <2>1 DEF Withdraw, GivesUp
<1>3. CASE Closed(conn)
  <2>1. conn \notin topics => topics' = topics
    BY <1>3 DEF Closed
  <2> QED BY <1>1, <1>3, <2>1 DEF Closed, GivesUp
<1> QED BY <1>2, <1>3

Routes == LinksFit /\ AllLinesFit /\ Unique /\ FlightsFit /\ MuxFits

LEMMA LineTypes ==
  ASSUME Types, NEW c \in Clients
  PROVE  /\ link[c] \in Links /\ link[c].epoch \in Nat /\ link[c].asked \in Nat
         /\ link[c].up \in BOOLEAN /\ link[c].out \in LinkLines \union {None}
         /\ link[c].wants \in BOOLEAN /\ link[c].after \in Cursors
         /\ link[c].awaits \in Nat \union {None}
BY DEF Types, ClientTypes, Links

\* An open connection's lines are all still with its link.
LEMMA OpenLines ==
  ASSUME Types, LinksFit, AllLinesFit, NEW c \in Clients, link[c].up
  PROVE  /\ Conn(c) \in Conns /\ Conn(c)[1] = c /\ Conn(c)[2] = link[c].epoch
         /\ lines[Conn(c)] = <<>>
<1>1. link[c].epoch \in Nat /\ link[c].epoch <= upsets /\ upsets \in 0..MaxUpsets
  BY LineTypes, RowFacts DEF LinksFit, LinkFits, Types, CountTypes
<1>2. Conn(c) \in Conns
  BY <1>1, RowFacts DEF Conns, Conn
<1>3. Conn(c)[1] = c /\ Conn(c)[2] = link[c].epoch
  BY DEF Conn
<1>4. ~Over(Conn(c))
  BY <1>1, <1>3 DEF Over
<1> QED BY <1>2, <1>3, <1>4 DEF AllLinesFit, LinesFit

\* A line that is read takes the topic and what waits for it from its connection, or
\* adds a request nobody has asked for yet.
Leaves(conn) ==
  /\ \A other \in topics : other # conn => other \in topics'
  /\ \A r \in pending : r.conn # conn => r \in pending'
  /\ \A r \in pending' : r \in pending
  /\ \A r \in Flight' : r \in Flight

Adds(q) ==
  /\ q \notin Flight /\ topics' = topics /\ q \in pending'
  /\ \A r \in pending : r \in pending'
  /\ \A r \in pending' : r \in pending \/ r = q
  /\ \A r \in Flight' : r \in Flight \/ r = q

LEMMA WithdrawLeaves ==
  ASSUME NEW conn, Withdraw(conn) \/ Closed(conn), \A r \in Flight' : r \in Flight
  PROVE  Leaves(conn)
<1>1. topics' = topics \ {conn} /\ pending' = Others(conn)
  BY DEF Withdraw, Closed
<1>2. \A r : r \in Others(conn) <=> (r \in pending /\ r.conn # conn)
  BY DEF Others
<1>3. \A other : other \in topics' <=> (other \in topics /\ other # conn)
  BY <1>1
<1> QED BY <1>1, <1>2, <1>3 DEF Leaves

LEMMA ForwardAdds ==
  ASSUME NEW conn, NEW line, Forward(conn, line),
         NEW q, q = [conn |-> conn, id |-> line.request], q \notin Flight,
         \A r \in Flight' : r \in Flight \/ r = q
  PROVE  Adds(q)
<1>1. topics' = topics /\ pending' = pending \union {q}
  BY DEF Forward
<1>2. \A r : r \in pending' <=> (r \in pending \/ r = q)
  BY <1>1
<1> QED BY <1>1, <1>2 DEF Adds

LEMMA MuxTakesLineRoutes ==
  ASSUME Types, Routes, NEW c \in Clients, MuxTakesLine(c)
  PROVE  /\ Types' /\ Routes' /\ Sent' = Sent
         /\ (\E q : Adds(q)) \/ (link[c].out.kind = "unsubscribe" /\ Leaves(Conn(c)))
<1> DEFINE line == link[c].out
           conn == Conn(c)
           q == [conn |-> conn, id |-> line.request]
<1>1. /\ link[c].up /\ line # None /\ Read(conn, line)
      /\ link' = [link EXCEPT ![c].out = None]
      /\ UNCHANGED <<log, served, fromHost, lines, inbox, store, asks, upsets>>
  BY DEF MuxTakesLine, counts
<1>2. /\ HostTypes /\ MuxState /\ link \in [Clients -> Links]
      /\ lines \in [Conns -> Seq(LinkLines \union {Closing})]
  BY DEF Types, MuxTypes, MuxState, ClientTypes
<1>3. /\ conn \in Conns /\ conn[1] = c /\ conn[2] = link[c].epoch /\ lines[conn] = <<>>
  BY <1>1, OpenLines DEF Routes
<1>4. line \in LinkLines /\ (line.kind = "subscribe" => line \in Subscribing(Nat))
  BY <1>1, LineTypes, LineFacts
<1>5. line.kind = "subscribe" => q \notin Flight
  <2> SUFFICES ASSUME line.kind = "subscribe", q \in Flight
               PROVE  FALSE
    OBVIOUS
  <2>1. q.conn = conn /\ q.id = line.request /\ FlightFits(q)
    BY DEF Routes, FlightsFit
  <2>2. line.request < line.request /\ line.request \in Nat
    BY <1>1, <1>3, <1>4, <2>1, LineFacts DEF FlightFits, Older
  <2> QED BY <2>2
<1>6. /\ HostTypes' /\ MuxState' /\ Unique' /\ MuxFits' /\ Sent' = Sent
      /\ \A r \in Flight' : r \in Flight \/ (line.kind = "subscribe" /\ r = q)
      /\ Adds(q) \/ (line.kind = "unsubscribe" /\ Leaves(conn))
  <2>1. CASE line.kind = "subscribe" /\ Forward(conn, line)
    <3> HIDE DEF line, conn
    <3>1. /\ HostTypes' /\ MuxState' /\ Unique' /\ MuxFits' /\ Sent' = Sent
          /\ \A r \in Flight' : r \in Flight \/ r = q
      BY <1>1, <1>2, <1>3, <1>4, <1>5, <2>1, ForwardKeeps DEF Routes
    <3>2. Adds(q)
      BY <1>5, <2>1, <3>1, ForwardAdds
    <3> QED BY <2>1, <3>1, <3>2
  <2>2. CASE line.kind = "unsubscribe" /\ Withdraw(conn)
    <3>1. /\ HostTypes' /\ MuxState' /\ Unique' /\ MuxFits' /\ Sent' = Sent
          /\ \A r \in Flight' : r \in Flight
      BY <1>1, <1>2, <2>2, WithdrawGivesUp, GivesUpKeeps DEF Routes, Kept
    <3>2. Leaves(conn)
      BY <2>2, <3>1, WithdrawLeaves
    <3> QED BY <2>2, <3>1, <3>2
  <2> QED BY <1>1, <2>1, <2>2 DEF Read
<1>0. (\E r : Adds(r)) \/ (link[c].out.kind = "unsubscribe" /\ Leaves(Conn(c)))
  BY <1>6
<1> HIDE DEF conn, line
<1> DEFINE n == link'[c]
<1>7. /\ n = [link[c] EXCEPT !.out = None] /\ n \in Links
      /\ \A d \in Clients : d # c => link'[d] = link[d]
      /\ link' \in [Clients -> Links]
  <2>1. /\ n = [link[c] EXCEPT !.out = None]
        /\ \A d \in Clients : d # c => link'[d] = link[d]
    BY <1>1, <1>2
  <2>2. n \in Links
    BY <2>1, LineTypes DEF Links
  <2> QED BY <1>1, <1>2, <2>1, <2>2
<1>8. /\ n.up = link[c].up /\ n.epoch = link[c].epoch /\ n.wants = link[c].wants
      /\ n.awaits = link[c].awaits /\ n.asked = link[c].asked /\ n.out = None
  BY <1>7, LineTypes DEF Links
<1> HIDE DEF n
<1>9. Types'
  BY <1>1, <1>2, <1>6, <1>7 DEF Types, MuxTypes, MuxState, ClientTypes, CountTypes
<1>10. LinksFit'
  <2>1. LinkFits(n, upsets)
    BY <1>8, NoneAssumption DEF Routes, LinksFit, LinkFits
  <2>2. \A d \in Clients : LinkFits(link'[d], upsets')
    BY <1>1, <1>7, <2>1 DEF Routes, LinksFit, n
  <2> QED BY <2>2 DEF LinksFit
<1>11. \A d \in Clients : /\ link'[d].up = link[d].up /\ link'[d].epoch = link[d].epoch
                          /\ link'[d].asked = link[d].asked
                          /\ link'[d].out = link[d].out \/ link'[d].out = None
  BY <1>7, <1>8 DEF n
<1>12. AllLinesFit'
  <2>1. \A other \in Conns : other[1] \in Clients
    BY DEF Conns
  <2>2. \A other \in Conns : LinesFit(other)'
    BY <1>1, <1>11, <2>1 DEF Routes, AllLinesFit, LinesFit, Over
  <2> QED BY <2>2 DEF AllLinesFit
<1>13. FlightsFit'
  <2> SUFFICES ASSUME NEW r \in Flight'
               PROVE  FlightFits(r)'
    BY DEF FlightsFit
  <2>1. CASE r \in Flight
    <3>1. FlightFits(r) /\ r.conn[1] \in Clients
      BY <1>2, <2>1, FlightTypes DEF Routes, FlightsFit
    <3> QED BY <1>1, <1>11, <3>1 DEF FlightFits
  <2>2. CASE line.kind = "subscribe" /\ r = q
    <3>1. r.conn = conn /\ r.id = line.request
      BY <2>2
    <3>2. line.request <= link[c].asked
      BY <1>1, <2>2 DEF Routes, LinksFit, LinkFits, line
    <3>3. link'[c] = n /\ \A i \in DOMAIN lines'[r.conn] : FALSE
      BY <1>1, <1>3, <3>1, EmptySeq DEF n
    <3>4. r.conn[2] <= n.epoch
      BY <1>3, <1>8, <3>1, LineTypes
    <3> QED BY <1>3, <1>8, <3>1, <3>2, <3>3, <3>4 DEF FlightFits
  <2> QED BY <1>6, <2>1, <2>2
<1> QED BY <1>0, <1>6, <1>9, <1>10, <1>12, <1>13 DEF Routes

LEMMA MuxTakesRestRoutes ==
  ASSUME Types, Routes, NEW conn \in Conns, MuxTakesRest(conn)
  PROVE  Types' /\ Routes' /\ Sent' = Sent /\ Over(conn) /\ ((\E q : Adds(q)) \/ Leaves(conn))
<1> DEFINE line == Head(lines[conn])
           q == [conn |-> conn, id |-> line.request]
           l == link[conn[1]]
<1>1. /\ lines[conn] # <<>>
      /\ IF line.kind = "closed" THEN Closed(conn) ELSE Read(conn, line)
      /\ lines' = [lines EXCEPT ![conn] = Tail(@)]
      /\ UNCHANGED <<log, served, fromHost, inbox, link, store, asks, upsets>>
  BY DEF MuxTakesRest, counts
<1>2. /\ HostTypes /\ MuxState /\ link \in [Clients -> Links]
      /\ lines \in [Conns -> Seq(LinkLines \union {Closing})]
      /\ lines[conn] \in Seq(LinkLines \union {Closing})
  BY DEF Types, MuxTypes, MuxState, ClientTypes
<1>3. /\ Tail(lines[conn]) \in Seq(LinkLines \union {Closing}) /\ 1 \in DOMAIN lines[conn]
      /\ \A i \in DOMAIN Tail(lines[conn]) : /\ i + 1 \in DOMAIN lines[conn] /\ i + 1 > 1
                                             /\ Tail(lines[conn])[i] = lines[conn][i + 1]
      /\ line = lines[conn][1] /\ line \in LinkLines \union {Closing}
  BY <1>1, <1>2, TailElements
<1>4. line.kind = "subscribe" => line \in Subscribing(Nat)
  BY <1>3, LineFacts
<1>5. conn[1] \in Clients /\ conn[2] \in Nat /\ l \in Links /\ l.epoch \in Nat
  BY RowFacts, LineTypes DEF Conns
<1>6. Over(conn) /\ (line.kind = "subscribe" => line.request <= l.asked)
        /\ \A i \in DOMAIN Tail(lines[conn]) : Tail(lines[conn])[i].kind = "closed"
  BY <1>1, <1>3 DEF Routes, AllLinesFit, LinesFit
<1>7. line.kind = "subscribe" => q \notin Flight
  <2> SUFFICES ASSUME line.kind = "subscribe", q \in Flight
               PROVE  FALSE
    OBVIOUS
  <2>1. q.conn = conn /\ q.id = line.request /\ FlightFits(q)
    BY DEF Routes, FlightsFit
  <2>2. line.request < line.request /\ line.request \in Nat
    BY <1>3, <1>4, <2>1, LineFacts DEF FlightFits, Older
  <2> QED BY <2>2
<1> HIDE DEF line
<1>8. /\ HostTypes' /\ MuxState' /\ Unique' /\ MuxFits' /\ Sent' = Sent
      /\ \A r \in Flight' : r \in Flight \/ (line.kind = "subscribe" /\ r = q)
      /\ Adds(q) \/ Leaves(conn)
  <2>1. CASE line.kind = "subscribe" /\ Forward(conn, line)
    <3>1. /\ HostTypes' /\ MuxState' /\ Unique' /\ MuxFits' /\ Sent' = Sent
          /\ \A r \in Flight' : r \in Flight \/ r = q
      BY <1>1, <1>2, <1>4, <1>7, <2>1, ForwardKeeps DEF Routes
    <3>2. Adds(q)
      BY <1>7, <2>1, <3>1, ForwardAdds
    <3> QED BY <2>1, <3>1, <3>2
  <2>2. CASE Withdraw(conn) \/ Closed(conn)
    <3>1. /\ HostTypes' /\ MuxState' /\ Unique' /\ MuxFits' /\ Sent' = Sent
          /\ \A r \in Flight' : r \in Flight
      BY <1>1, <1>2, <2>2, WithdrawGivesUp, GivesUpKeeps DEF Routes, Kept
    <3>2. Leaves(conn)
      BY <2>2, <3>1, WithdrawLeaves
    <3> QED BY <3>1, <3>2
  <2> QED BY <1>1, <2>1, <2>2 DEF Read
<1>9. /\ lines' \in [Conns -> Seq(LinkLines \union {Closing})]
      /\ lines'[conn] = Tail(lines[conn])
      /\ \A other \in Conns : other # conn => lines'[other] = lines[other]
  BY <1>1, <1>2, <1>3
<1>10. Types'
  BY <1>1, <1>2, <1>8, <1>9 DEF Types, MuxTypes, MuxState, ClientTypes, CountTypes
<1>11. LinksFit'
  BY <1>1 DEF Routes, LinksFit
<1>12. AllLinesFit'
  <2>1. LinesFit(conn)'
    BY <1>1, <1>6, <1>9 DEF LinesFit, Over
  <2>2. \A other \in Conns : other # conn => LinesFit(other)'
    BY <1>1, <1>9 DEF Routes, AllLinesFit, LinesFit, Over
  <2> QED BY <2>1, <2>2 DEF AllLinesFit
<1>13. FlightsFit'
  <2> SUFFICES ASSUME NEW r \in Flight'
               PROVE  FlightFits(r)'
    BY DEF FlightsFit
  <2>1. CASE r \in Flight
    <3>1. FlightFits(r) /\ r.conn \in Conns
      BY <1>2, <2>1, FlightTypes DEF Routes, FlightsFit
    <3>2. \A i \in DOMAIN lines'[r.conn] : Older(r, lines'[r.conn][i])
      <4>1. CASE r.conn = conn
        BY <1>6, <1>9, <4>1 DEF Older
      <4>2. CASE r.conn # conn
        BY <1>9, <3>1, <4>2 DEF FlightFits
      <4> QED BY <4>1, <4>2
    <3> QED BY <1>1, <3>1, <3>2 DEF FlightFits
  <2>2. CASE line.kind = "subscribe" /\ r = q
    <3>1. r.conn = conn /\ r.id = line.request /\ r.id <= l.asked
      BY <1>6, <2>2
    <3>2. \A i \in DOMAIN lines'[r.conn] : Older(r, lines'[r.conn][i])
      BY <1>6, <1>9, <3>1 DEF Older
    <3>3. conn[2] <= l.epoch /\ ~(l.up /\ conn[2] = l.epoch)
      BY <1>5, <1>6 DEF Over
    <3> QED BY <1>1, <3>1, <3>2, <3>3 DEF FlightFits
  <2> QED BY <1>8, <2>1, <2>2
<1> QED BY <1>6, <1>8, <1>10, <1>11, <1>12, <1>13 DEF Routes

\* What a client gets is what the host sent, but for the name of the request.
Same(e, m) == /\ e \in ToClient /\ e.kind = m.kind /\ e.from = m.from
              /\ e.end = m.end /\ e.total = m.total
Delivers(m) ==
  \A c \in Clients : inbox'[c] = inbox[c]
                       \/ \E e : Same(e, m) /\ inbox'[c] = Append(inbox[c], e)

LEMMA DeliverFacts ==
  ASSUME inbox \in [Clients -> Seq(ToClient)], NEW conns, NEW m, NEW e, Same(e, m),
         Deliver(conns, e)
  PROVE  inbox' \in [Clients -> Seq(ToClient)] /\ Delivers(m)
<1>1. \A c \in Clients : inbox[c] \in Seq(ToClient) /\ Append(inbox[c], e) \in Seq(ToClient)
  BY AppendElements DEF Same
<1>2. inbox' \in [Clients -> Seq(ToClient)]
  BY <1>1 DEF Deliver
<1>3. \A c \in Clients : inbox'[c] = inbox[c] \/ inbox'[c] = Append(inbox[c], e)
  BY DEF Deliver
<1> QED BY <1>2, <1>3 DEF Delivers

LEMMA RenamedFacts ==
  ASSUME NEW m \in FromHost, m.kind \in {"window", "failed", "refused"}
  PROVE  LET e == [m EXCEPT !.request = m.request.id]
         IN Same(e, m) /\ e.request = m.request.id
<1>1. m.request \in Requests /\ m.request.id \in Nat
  BY DEF FromHost, Requests
<1> QED BY <1>1 DEF FromHost, ToClient, Same

LEMMA MuxTakesMessageRoutes ==
  ASSUME Types, Routes, MuxTakesMessage
  PROVE  Types' /\ Routes' /\ Sent' = Sent /\ fromHost # <<>> /\ fromHost' = Tail(fromHost)
           /\ Delivers(Head(fromHost)) /\ UNCHANGED <<log, served, link, store>>
           /\ \A r \in Flight' : r \in Flight
                /\ (Head(fromHost).kind # "event" => r # Head(fromHost).request)
<1> DEFINE m == Head(fromHost)
           q == m.request
<1>1. /\ fromHost # <<>> /\ fromHost' = Tail(fromHost)
      /\ UNCHANGED <<log, host, hydration, shown, gap, lines, link, store, asks, upsets>>
  BY DEF MuxTakesMessage, served, counts
<1>2. /\ HostTypes /\ MuxState /\ fromHost \in Seq(FromHost) /\ toHost \in Seq(ToHost)
      /\ inbox \in [Clients -> Seq(ToClient)] /\ log \in Rows
  BY DEF Types, HostTypes, MuxTypes, MuxState, ClientTypes
<1>3. m \in FromHost /\ fromHost' \in Seq(FromHost)
  BY <1>1, <1>2, TailElements
<1>4. Waiters' = Waiters /\ Sent' = Sent /\ Waiting' = Waiting
  BY <1>1 DEF Waiters, Sent, Waiting
<1>5. /\ \A r \in Tells(fromHost') : r \in Tells(fromHost)
      /\ \A r \in Replied(fromHost') : r \in Replied(fromHost)
      /\ \A r \in Replied(fromHost) : r \in Replied(fromHost')
           \/ (r = q /\ m.kind \in {"window", "failed", "ack"})
      /\ m.kind # "event" => q \in Tells(fromHost)
      /\ m.kind \in {"window", "failed", "ack"} => q \in Replied(fromHost)
      /\ OneEach(fromHost', Told(fromHost'))
      /\ m.kind # "event" => q \notin Tells(fromHost')
  BY <1>1, <1>2, TailTold DEF Routes, Unique
<1> HIDE DEF m
<1>6. \A r \in Replied(fromHost') : r \in Tells(fromHost')
  BY DEF Replied, Tells, RequestsAt, Answers, Told
<1>7. m.kind # "event" => q \notin Waiting /\ q \notin Asking /\ q \notin Replied(fromHost')
  BY <1>5, <1>6 DEF Routes, Unique
\* What every case shares, given what it does to the lines to the host.
<1>8. ASSUME toHost' \in Seq(ToHost), OneEach(toHost', Asks(toHost')),
             \A r : r \in Asking' <=> r \in Asking, MuxState',
             inbox' \in [Clients -> Seq(ToClient)]
      PROVE  /\ Types' /\ LinksFit' /\ AllLinesFit' /\ Unique' /\ FlightsFit'
             /\ \A r \in Flight' : r \in Flight /\ (m.kind # "event" => r # q)
  <2>1. HostTypes'
    BY <1>1, <1>2, <1>3, <1>8 DEF HostTypes
  <2>2. Types'
    BY <1>1, <1>8, <2>1 DEF Types, MuxTypes, MuxState, ClientTypes, CountTypes
  <2>3. LinksFit' /\ AllLinesFit'
    BY <1>1 DEF Routes, LinksFit, AllLinesFit, LinesFit, Over
  <2>4. Unique'
    <3>1. OneEach(Waiters', DOMAIN Waiters')
      BY <1>4 DEF Routes, Unique
    <3> QED BY <1>4, <1>5, <1>8, <3>1 DEF Routes, Unique
  <2>5. \A r \in Flight' : r \in Flight
    BY <1>4, <1>5, <1>8 DEF Flight
  <2>6. FlightsFit'
    BY <1>1, <2>5 DEF Routes, FlightsFit, FlightFits
  <2>7. m.kind # "event" => \A r \in Flight' : r # q
    BY <1>4, <1>5, <1>7, <1>8 DEF Flight
  <2> QED BY <2>2, <2>3, <2>4, <2>5, <2>6, <2>7
<1>9. CASE m.kind = "event"
  <2>1. Deliver(topics, m) /\ UNCHANGED <<topics, pending, deferred, toHost>>
    BY <1>9 DEF MuxTakesMessage, mux, m
  <2>2. Same(m, m)
    BY <1>3, <1>9 DEF Same, FromHost, ToClient
  <2>3. inbox' \in [Clients -> Seq(ToClient)] /\ Delivers(m)
    BY <1>2, <2>1, <2>2, DeliverFacts
  <2>4. \A r : r \in InHand' <=> r \in InHand
    BY <1>4, <1>5, <1>9 DEF InHand
  <2>5. MuxFits'
    BY <1>1, <2>1, <2>4, MuxStill DEF Routes, mux
  <2>6. /\ Types' /\ LinksFit' /\ AllLinesFit' /\ Unique' /\ FlightsFit'
        /\ \A r \in Flight' : r \in Flight /\ (m.kind # "event" => r # q)
    <3>1. MuxState' /\ Asking' = Asking /\ OneEach(toHost', Asks(toHost'))
      BY <1>2, <2>1 DEF MuxState, Asking, Routes, Unique
    <3> QED BY <1>2, <1>8, <2>1, <2>3, <3>1
  <2> QED BY <1>1, <1>4, <2>3, <2>5, <2>6 DEF Routes, m, served
<1>10. CASE m.kind \in {"window", "failed", "ack"}
  <2>1. /\ IF q \in pending THEN Subscribed(q) ELSE UNCHANGED <<topics, pending, deferred>>
        /\ IF m.kind = "ack" THEN UNCHANGED inbox
           ELSE Deliver(topics' \intersect {q.conn}, [m EXCEPT !.request = q.id])
        /\ toHost' = toHost
    BY <1>10 DEF MuxTakesMessage, Answered, mux, m
  <2>2. inbox' \in [Clients -> Seq(ToClient)] /\ Delivers(m)
    <3>1. CASE m.kind = "ack"
      BY <1>2, <2>1, <3>1 DEF Delivers
    <3>2. CASE m.kind # "ack"
      <4>1. Same([m EXCEPT !.request = q.id], m)
        BY <1>3, <1>10, <3>2, RenamedFacts
      <4> QED BY <1>2, <2>1, <3>2, <4>1, DeliverFacts
    <3> QED BY <3>1, <3>2
  <2>3. q \in InHand /\ \A r : r \in InHand' <=> (r \in InHand /\ r # q)
    BY <1>4, <1>5, <1>7, <1>10 DEF InHand
  <2>4. MuxFits'
    BY <1>1, <2>1, <2>3, MuxAnswers DEF Routes, mux
  <2>5. q \in Requests /\ q.conn \in Conns
    BY <1>3, <1>10 DEF FromHost, Requests
  <2>6. MuxState'
    BY <1>2, <2>1, <2>5 DEF MuxState, Subscribed
  <2>7. /\ Types' /\ LinksFit' /\ AllLinesFit' /\ Unique' /\ FlightsFit'
        /\ \A r \in Flight' : r \in Flight /\ (m.kind # "event" => r # q)
    <3>1. Asking' = Asking /\ OneEach(toHost', Asks(toHost'))
      BY <2>1 DEF Asking, Routes, Unique
    <3> QED BY <1>2, <1>8, <2>1, <2>2, <2>6, <3>1
  <2> QED BY <1>1, <1>4, <2>2, <2>4, <2>7 DEF Routes, m, served
<1>11. CASE m.kind = "refused"
  <2>1. /\ pending' = pending \ {q} /\ topics' = topics
        /\ IF q \in pending /\ deferred THEN Release(topics, pending')
                                        ELSE UNCHANGED <<toHost, deferred>>
        /\ Deliver({q.conn}, [m EXCEPT !.request = q.id])
    BY <1>11 DEF MuxTakesMessage, Refused, m
  <2>2. Same([m EXCEPT !.request = q.id], m)
    BY <1>3, <1>11, RenamedFacts
  <2>3. inbox' \in [Clients -> Seq(ToClient)] /\ Delivers(m)
    BY <1>2, <2>1, <2>2, DeliverFacts
  <2>4. q \notin InHand /\ \A r : r \in InHand' <=> r \in InHand
    BY <1>4, <1>5, <1>7, <1>11 DEF InHand
  <2>5. MuxFits'
    BY <1>1, <1>2, <1>7, <1>11, <2>1, <2>4, MuxRefuses DEF Routes
  <2>6. /\ toHost' \in Seq(ToHost) /\ deferred' \in BOOLEAN
        /\ \A r : r \in Asking' <=> r \in Asking
        /\ OneEach(toHost', Asks(toHost'))
    <3>1. CASE Release(topics, pending')
      BY <1>2, <3>1, ReleaseTypes DEF Routes, Unique
    <3>2. CASE UNCHANGED <<toHost, deferred>>
      BY <1>2, <3>2 DEF MuxState, Asking, Routes, Unique
    <3> QED BY <2>1, <3>1, <3>2
  <2>7. MuxState'
    BY <1>2, <2>1, <2>6 DEF MuxState
  <2> QED BY <1>1, <1>4, <1>8, <2>3, <2>5, <2>6, <2>7 DEF Routes, m, served
<1> QED BY <1>9, <1>10, <1>11 DEF MuxTakesMessage, m

-------------------------------------------------------------------------------
(* Everything arrives in the order of the rows *)

LEMMA OrderedAppend ==
  ASSUME NEW S, NEW s \in Seq(S), NEW e \in S, NEW n, Ordered(s, n), e.total <= n,
         e.kind = "event" => e.end = e.total /\ \A i \in DOMAIN s : s[i].total < e.total,
         e.kind = "window" => e.from <= e.end /\ e.end <= e.total
  PROVE  /\ Ordered(Append(s, e), n)
         /\ \A p : Precedes(p, s) /\ (e.kind = "event" => p < e.total) => Precedes(p, Append(s, e))
         /\ \A u : AllPrecede(s, u) /\ Precedes(e.total, u) => AllPrecede(Append(s, e), u)
<1> DEFINE t == Append(s, e)
           k == Len(s) + 1
<1>1. /\ DOMAIN s = 1..Len(s) /\ Len(s) \in Nat /\ DOMAIN t = 1..(Len(s) + 1)
      /\ t[Len(s) + 1] = e /\ \A i \in DOMAIN s : t[i] = s[i]
  BY AppendElements, SequenceElements
<1> HIDE DEF t
<1>2. /\ \A i \in DOMAIN t : i # k => i \in DOMAIN s /\ t[i] = s[i]
      /\ t[k] = e /\ \A i \in DOMAIN t : ~(k < i) /\ ~(i < i)
  BY <1>1
<1> HIDE DEF k
<1>3. WellMade(t)
  BY <1>2 DEF Ordered, WellMade
<1>4. Within(t, n)
  BY <1>2 DEF Ordered, Within
<1>5. Rising(t)
  BY <1>2 DEF Ordered, Rising, Events
<1>6. \A p : Precedes(p, s) /\ (e.kind = "event" => p < e.total) => Precedes(p, t)
  BY <1>2 DEF Precedes, Events
<1>7. \A u : AllPrecede(s, u) /\ Precedes(e.total, u) => AllPrecede(t, u)
  BY <1>2 DEF AllPrecede
<1> QED BY <1>3, <1>4, <1>5, <1>6, <1>7 DEF t, Ordered

LEMMA TotalFacts ==
  /\ \A e \in FromHost : e.total \in Rows /\ e.total \in Nat /\ (e.kind = "event" => 0 < e.total)
  /\ \A e \in ToClient : /\ e.total \in Rows /\ e.total \in Nat /\ e.end \in Rows /\ e.end \in Nat
                         /\ e.from \in Rows /\ e.from \in Nat
<1>1. /\ \A e \in FromHost : e.total \in Rows /\ (e.kind = "event" => e.total # 0)
      /\ \A e \in ToClient : e.total \in Rows /\ e.end \in Rows /\ e.from \in Rows
  BY DEF FromHost, ToClient
<1>2. \A row \in Rows : row \in Nat /\ (row # 0 => 0 < row)
  BY RowFacts
<1> QED BY <1>1, <1>2

LEMMA HeldEndFacts ==
  ASSUME Types, NEW c \in Clients, store[c].held # None
  PROVE  /\ store[c].held \in Replicas /\ store[c].held.from \in Nat
         /\ store[c].held.rows \in Seq(Nat) /\ HeldEnd(store[c].held) \in Nat
<1>1. store[c].held \in Replicas
  BY DEF Types, ClientTypes, Stores
<1> QED BY <1>1, LenProperties DEF Replicas, HeldEnd

LEMMA HostOrder ==
  ASSUME Types, OrderFits, NEW t, Says(t), UNCHANGED <<inbox, link, store>>
  PROVE  OrderFits'
<1>1. /\ t \in Seq(FromHost) /\ fromHost' = fromHost \o t
      /\ Ordered(t, Sent') /\ Precedes(Sent, t) /\ fromHost \in Seq(FromHost)
      /\ Sent \in Nat /\ Sent' \in Nat /\ Sent <= Sent'
  BY RowFacts DEF Says, Types, HostTypes
<1> DEFINE n == Sent
           m == Sent'
<1>2. /\ Ordered(fromHost', m)
      /\ \A p \in Nat : p <= n /\ Precedes(p, fromHost) => Precedes(p, fromHost')
  <2> HIDE DEF n, m
  <2>1. \A e \in FromHost : e.total \in Nat
    BY TotalFacts
  <2>2. Ordered(fromHost, n)
    BY DEF OrderFits, n
  <2>3. n \in Nat /\ m \in Nat /\ n <= m /\ Ordered(t, m) /\ Precedes(n, t)
    BY <1>1 DEF n, m
  <2>4. /\ Ordered(fromHost \o t, m)
        /\ \A p \in Nat : p <= n /\ Precedes(p, fromHost) => Precedes(p, fromHost \o t)
    BY <1>1, <2>1, <2>2, <2>3, OrderedConcat
  <2> QED BY <1>1, <2>4
<1>3. ASSUME NEW c \in Clients
      PROVE  ClientOrdered(c)'
  <2>1. ClientOrdered(c) /\ inbox[c] \in Seq(ToClient)
    BY DEF OrderFits, Types, ClientTypes
  <2>2. Ordered(inbox[c], m)
    <3> HIDE DEF n, m
    <3>1. \A e \in ToClient : e.total \in Nat
      BY TotalFacts
    <3>2. Ordered(inbox[c], n) /\ n \in Nat /\ m \in Nat /\ n <= m
      BY <1>1, <2>1 DEF ClientOrdered, n, m
    <3> QED BY <2>1, <3>1, <3>2, OrderedWider
  <2>3. AllPrecede(inbox[c], fromHost')
    <3> SUFFICES ASSUME NEW i \in DOMAIN inbox[c]
                 PROVE  Precedes(inbox[c][i].total, fromHost')
      BY DEF AllPrecede
    <3>1. inbox[c][i] \in ToClient
      BY <2>1, SequenceElements
    <3>2. inbox[c][i].total \in Nat /\ inbox[c][i].total <= n
            /\ Precedes(inbox[c][i].total, fromHost)
      BY <2>1, <3>1, TotalFacts DEF ClientOrdered, Ordered, Within, AllPrecede
    <3> QED BY <1>2, <3>2
  <2>4. store[c].held # None =>
          HeldEnd(store[c].held) <= m /\ Precedes(HeldEnd(store[c].held), fromHost')
    <3> SUFFICES ASSUME store[c].held # None
                 PROVE  HeldEnd(store[c].held) <= m /\ Precedes(HeldEnd(store[c].held), fromHost')
      OBVIOUS
    <3> DEFINE p == HeldEnd(store[c].held)
    <3>1. p \in Nat /\ p <= n /\ Precedes(p, fromHost)
      BY <2>1, HeldEndFacts DEF ClientOrdered
    <3> HIDE DEF p
    <3>2. Precedes(p, fromHost') /\ p <= m
      BY <1>1, <1>2, <3>1
    <3> QED BY <3>2 DEF p
  <2> QED BY <2>1, <2>2, <2>3, <2>4 DEF ClientOrdered
<1> QED BY <1>2, <1>3 DEF OrderFits

LEMMA MessageOrder ==
  ASSUME Types, OrderFits, fromHost # <<>>, fromHost' = Tail(fromHost),
         Delivers(Head(fromHost)), Sent' = Sent, UNCHANGED <<link, store>>
  PROVE  OrderFits'
<1> DEFINE m == Head(fromHost)
           n == Sent
<1>1. fromHost \in Seq(FromHost) /\ n \in Nat
  BY SentFacts, RowFacts DEF Types, HostTypes
<1>2. Ordered(fromHost, n)
  BY DEF OrderFits
<1>3. m \in FromHost /\ m.total \in Nat /\ 1 \in DOMAIN fromHost /\ m = fromHost[1]
  BY <1>1, TailElements, TotalFacts
<1>4. /\ Ordered(fromHost', n) /\ Precedes(m.total, fromHost') /\ m.total <= n
      /\ \A p : Precedes(p, fromHost) => Precedes(p, fromHost')
      /\ \A p : Precedes(p, fromHost) /\ m.kind = "event" => p < m.total
      /\ m.kind = "event" => m.end = m.total
      /\ m.kind = "window" => m.from <= m.end /\ m.end <= m.total
  <2> HIDE DEF n
  <2>1. /\ Ordered(Tail(fromHost), n) /\ Precedes(m.total, Tail(fromHost)) /\ m.total <= n
        /\ \A p : Precedes(p, fromHost) => Precedes(p, Tail(fromHost))
    BY <1>1, <1>2, OrderedTail
  <2>2. /\ \A p : Precedes(p, fromHost) /\ m.kind = "event" => p < m.total
        /\ m.kind = "event" => m.end = m.total
        /\ m.kind = "window" => m.from <= m.end /\ m.end <= m.total
    BY <1>2, <1>3 DEF Precedes, Events, Ordered, WellMade
  <2> QED BY <2>1, <2>2
<1> HIDE DEF m
<1>5. ASSUME NEW c \in Clients
      PROVE  ClientOrdered(c)'
  <2>1. ClientOrdered(c) /\ inbox[c] \in Seq(ToClient)
    BY DEF OrderFits, Types, ClientTypes
  <2> DEFINE s == inbox[c]
             p == HeldEnd(store[c].held)
  <2>2. Ordered(s, n) /\ AllPrecede(s, fromHost)
    BY <2>1 DEF ClientOrdered
  <2>3. AllPrecede(s, fromHost')
    BY <1>4, <2>2 DEF AllPrecede
  <2>4. /\ Ordered(inbox'[c], n) /\ AllPrecede(inbox'[c], fromHost')
        /\ Precedes(p, s) /\ Precedes(p, fromHost) => Precedes(p, inbox'[c])
    <3>1. CASE inbox'[c] = s
      BY <2>2, <2>3, <3>1
    <3>2. CASE \E e : Same(e, m) /\ inbox'[c] = Append(s, e)
      <4>1. PICK e : Same(e, m) /\ inbox'[c] = Append(s, e)
        BY <3>2
      <4>2. /\ e \in ToClient /\ e.kind = m.kind /\ e.from = m.from /\ e.end = m.end
            /\ e.total = m.total
        BY <4>1 DEF Same
      <4> HIDE DEF s, p, n
      <4>3. e.kind = "event" => e.end = e.total /\ \A i \in DOMAIN s : s[i].total < e.total
        BY <1>4, <2>2, <4>2 DEF AllPrecede
      <4>4. e.kind = "window" => e.from <= e.end /\ e.end <= e.total
        BY <1>4, <4>2
      <4>5. s \in Seq(ToClient) /\ e.total <= n
        BY <1>4, <2>1, <4>2 DEF s
      <4>6. /\ Ordered(Append(s, e), n)
            /\ Precedes(p, s) /\ (e.kind = "event" => p < e.total) => Precedes(p, Append(s, e))
            /\ AllPrecede(s, fromHost') /\ Precedes(e.total, fromHost')
                 => AllPrecede(Append(s, e), fromHost')
        BY <2>2, <4>2, <4>3, <4>4, <4>5, OrderedAppend
      <4>7. Ordered(inbox'[c], n)
        BY <4>1, <4>6
      <4>8. AllPrecede(inbox'[c], fromHost')
        BY <1>4, <2>3, <4>1, <4>2, <4>6 DEF s
      <4>9. Precedes(p, s) /\ Precedes(p, fromHost) => Precedes(p, inbox'[c])
        BY <1>4, <4>1, <4>2, <4>6
      <4> QED BY <4>7, <4>8, <4>9 DEF s
    <3> QED BY <3>1, <3>2 DEF Delivers, m
  <2>5. store[c].held # None =>
          p <= n /\ Precedes(p, inbox'[c]) /\ Precedes(p, fromHost')
    BY <1>4, <2>1, <2>4 DEF ClientOrdered
  <2> QED BY <2>1, <2>4, <2>5 DEF ClientOrdered
<1> QED BY <1>4, <1>5 DEF OrderFits

-------------------------------------------------------------------------------
(* The steps of a client *)

Flow == Types /\ Routes /\ OrderFits

LEMMA StillFits ==
  ASSUME Types, LinksFit, AllLinesFit, FlightsFit, UNCHANGED <<link, lines>>,
         upsets' = upsets \/ upsets' = upsets + 1, \A r \in Flight' : r \in Flight
  PROVE  LinksFit' /\ AllLinesFit' /\ FlightsFit'
<1>1. upsets \in Nat
  BY RowFacts DEF Types, CountTypes
<1>2. LinksFit'
  <2> SUFFICES ASSUME NEW c \in Clients
               PROVE  LinkFits(link[c], upsets')
    BY DEF LinksFit
  <2>1. LinkFits(link[c], upsets) /\ link[c].epoch \in Nat
    BY LineTypes DEF LinksFit
  <2> QED BY <1>1, <2>1 DEF LinkFits
<1>3. AllLinesFit' /\ FlightsFit'
  BY DEF AllLinesFit, LinesFit, Over, FlightsFit, FlightFits
<1> QED BY <1>2, <1>3

\* What a step of a client leaves alone.
ClientOnly(c) ==
  /\ UNCHANGED <<log, served, toHost, fromHost, mux>>
  /\ \A d \in Clients : d # c => /\ inbox'[d] = inbox[d] /\ store'[d] = store[d]
                                 /\ link'[d] = link[d]
  /\ inbox' \in [Clients -> Seq(ToClient)] /\ store' \in [Clients -> Stores]
  /\ link' \in [Clients -> Links] /\ CountTypes'

LEMMA ClientOnlyFlow ==
  ASSUME Flow, NEW c \in Clients, ClientOnly(c),
         lines' \in [Conns -> Seq(LinkLines \union {Closing})],
         (\A r \in Flight' : r \in Flight) => LinksFit' /\ AllLinesFit' /\ FlightsFit',
         Sent' = Sent => ClientOrdered(c)'
  PROVE  Flow'
<1>1. UNCHANGED <<log, served, toHost, fromHost, mux>>
  BY DEF ClientOnly
<1>2. UNCHANGED <<host, topics, pending, deferred, fromHost, toHost>>
  BY <1>1 DEF served, mux
<1>3. /\ HostTypes' /\ Sent' = Sent /\ Unique'
      /\ \A r : (r \in Flight' <=> r \in Flight) /\ (r \in InHand' <=> r \in InHand)
  BY <1>1, HostStill DEF Flow, Types, Routes, Kept
<1>4. Types'
  BY <1>2, <1>3 DEF Flow, Types, MuxTypes, ClientTypes, ClientOnly
<1>5. MuxFits'
  BY <1>2, <1>3, MuxStill DEF Flow, Routes, mux
<1>6. \A d \in Clients : ClientOrdered(d)'
  <2>1. \A d \in Clients : d # c => ClientOrdered(d)'
    BY <1>2, <1>3 DEF Flow, OrderFits, ClientOrdered, ClientOnly
  <2> QED BY <1>3, <2>1
<1>7. OrderFits'
  BY <1>2, <1>3, <1>6 DEF Flow, OrderFits
<1> QED BY <1>3, <1>4, <1>5, <1>7 DEF Flow, Routes

LEMMA LoseFlow ==
  ASSUME Flow, NEW c \in Clients, Lose(c)
  PROVE  Flow'
<1> DEFINE l == link[c]
           closed == Line("closed", None, None)
<1>0. PICK conn : conn = Conn(c)
  OBVIOUS
<1>1. PICK out \in {l.out, None}, read \in {l.out, None} :
        /\ link' = [link EXCEPT ![c].up = FALSE, ![c].out = out]
        /\ lines' = [lines EXCEPT ![conn] = Append(IF read = None THEN <<>> ELSE <<read>>, closed)]
  BY <1>0 DEF Lose
<1>2. /\ l.up /\ upsets' = upsets + 1 /\ upsets < MaxUpsets
      /\ UNCHANGED <<log, served, toHost, fromHost, mux, store, asks>>
  BY DEF Lose, Upset
<1>3. PICK k \in 0..Len(inbox[c]) : inbox' = [inbox EXCEPT ![c] = SubSeq(@, 1, k)]
  BY DEF Lose
<1>4. /\ link \in [Clients -> Links] /\ inbox \in [Clients -> Seq(ToClient)]
      /\ lines \in [Conns -> Seq(LinkLines \union {Closing})]
      /\ store \in [Clients -> Stores] /\ upsets \in Nat /\ upsets' \in 0..MaxUpsets
      /\ asks \in 0..MaxAsks
  BY <1>2, RowFacts DEF Flow, Types, ClientTypes, MuxTypes, CountTypes
<1>5. /\ l \in Links /\ l.epoch \in Nat /\ l.asked \in Nat /\ l.out \in LinkLines \union {None}
  BY LineTypes DEF Flow
<1>6. conn \in Conns /\ conn[1] = c /\ conn[2] = l.epoch
  BY <1>0, <1>2, OpenLines DEF Flow, Routes
<1>7. LinkFits(l, upsets)
  BY DEF Flow, Routes, LinksFit
<1> HIDE DEF l
<1> DEFINE n == link'[c]
<1>8. /\ link' \in [Clients -> Links] /\ \A d \in Clients : d # c => link'[d] = link[d]
      /\ n = [l EXCEPT !.up = FALSE, !.out = out]
  <2>1. [l EXCEPT !.up = FALSE, !.out = out] \in Links
    BY <1>5 DEF Links
  <2> QED BY <1>1, <1>4, <2>1 DEF l
<1>9. /\ n.up = FALSE /\ n.out = out /\ n.epoch = l.epoch /\ n.wants = l.wants
      /\ n.asked = l.asked /\ n.awaits = l.awaits
  BY <1>5, <1>8 DEF Links
<1> HIDE DEF n
<1> DEFINE s == lines'[conn]
           before == IF read = None THEN <<>> ELSE <<read>>
<1>10. /\ s \in Seq(LinkLines \union {Closing})
       /\ \A i \in DOMAIN s : \/ s[i].kind = "closed"
                              \/ i = 1 /\ s[i] = l.out /\ l.out # None
  <2>1. closed \in LinkLines \union {Closing} /\ closed.kind = "closed"
    BY LineFacts DEF Closing
  <2>2. before \in Seq(LinkLines \union {Closing})
    <3>1. CASE read = None
      BY <3>1
    <3>2. CASE read # None
      <4>1. read \in LinkLines \union {Closing}
        BY <1>1, <1>5, <3>2
      <4> QED BY <3>2, <4>1
    <3> QED BY <3>1, <3>2
  <2>3. \A i \in DOMAIN before : i = 1 /\ before[i] = l.out /\ l.out # None
    BY <1>1
  <2>4. s = Append(before, closed)
    BY <1>1, <1>4, <1>6
  <2> HIDE DEF before, closed, s
  <2>5. /\ Append(before, closed) \in Seq(LinkLines \union {Closing})
        /\ DOMAIN Append(before, closed) = 1..(Len(before) + 1)
        /\ \A i \in DOMAIN before : Append(before, closed)[i] = before[i]
        /\ Append(before, closed)[Len(before) + 1] = closed
        /\ DOMAIN before = 1..Len(before) /\ Len(before) \in Nat
    BY <2>1, <2>2, AppendElements, SequenceElements
  <2>6. \A i \in DOMAIN s : i \in DOMAIN before \/ i = Len(before) + 1
    BY <2>4, <2>5
  <2> QED BY <2>1, <2>3, <2>4, <2>5, <2>6
<1>11. /\ lines' \in [Conns -> Seq(LinkLines \union {Closing})]
       /\ \A other \in Conns : other # conn => lines'[other] = lines[other]
  BY <1>1, <1>4, <1>10
<1> HIDE DEF s
<1>12. LinksFit'
  <2>1. LinkFits(n, upsets')
    <3>1. n.epoch + 1 <= upsets'
      BY <1>2, <1>4, <1>5, <1>7, <1>9 DEF LinkFits
    <3>2. n.out # None /\ n.out.kind = "subscribe" => n.out.request <= n.asked
      BY <1>7, <1>9 DEF LinkFits
    <3> QED BY <1>7, <1>9, <3>1, <3>2 DEF LinkFits
  <2>2. \A d \in Clients : d # c => LinkFits(link[d], upsets')
    <3> SUFFICES ASSUME NEW d \in Clients
                 PROVE  LinkFits(link[d], upsets')
      OBVIOUS
    <3>1. LinkFits(link[d], upsets) /\ link[d].epoch \in Nat
      BY LineTypes DEF Flow, Routes, LinksFit
    <3> QED BY <1>2, <1>4, <3>1 DEF LinkFits
  <2>3. \A d \in Clients : LinkFits(link'[d], upsets')
    BY <1>8, <2>1, <2>2 DEF n
  <2> QED BY <2>3 DEF LinksFit
<1>13. AllLinesFit'
  <2>1. LinesFit(conn)'
    <3>1. Over(conn)'
      BY <1>6, <1>9 DEF Over, n
    <3>2. \A i \in DOMAIN lines'[conn] : i > 1 => lines'[conn][i].kind = "closed"
      BY <1>10 DEF s
    <3>3. \A i \in DOMAIN lines'[conn] : lines'[conn][i].kind = "subscribe" =>
            lines'[conn][i].request <= link'[conn[1]].asked
      BY <1>6, <1>7, <1>9, <1>10 DEF LinkFits, s, n
    <3> QED BY <3>1, <3>2, <3>3 DEF LinesFit
  <2>2. ASSUME NEW other \in Conns, other # conn
        PROVE  LinesFit(other)'
    <3>1. LinesFit(other) /\ other[1] \in Clients /\ other[2] \in Nat
      BY RowFacts DEF Flow, Routes, AllLinesFit, Conns
    <3>2. link'[other[1]].asked = link[other[1]].asked
      BY <1>8, <1>9, <3>1 DEF n, l
    <3>3. Over(other) => Over(other)'
      BY <1>8, <1>9, <3>1 DEF Over, n, l
    <3>4. lines'[other] = lines[other]
      BY <1>11, <2>2
    <3> QED BY <3>1, <3>2, <3>3, <3>4 DEF LinesFit
  <2> QED BY <2>1, <2>2 DEF AllLinesFit
<1>14. ASSUME \A r \in Flight' : r \in Flight
       PROVE  FlightsFit'
  <2> SUFFICES ASSUME NEW r \in Flight'
               PROVE  FlightFits(r)'
    BY DEF FlightsFit
  <2>1. /\ r \in Flight /\ r.conn \in Conns /\ r.conn[1] \in Clients /\ FlightFits(r)
    BY <1>14, FlightTypes DEF Flow, Types, Routes, FlightsFit
  <2>2. \A i \in DOMAIN lines'[r.conn] : Older(r, lines'[r.conn][i])
    <3>1. CASE r.conn = conn
      <4>1. l.out # None => Older(r, l.out)
        BY <1>2, <1>6, <2>1, <3>1 DEF FlightFits, l
      <4> QED BY <1>10, <3>1, <4>1 DEF Older, s
    <3>2. CASE r.conn # conn
      BY <1>11, <2>1, <3>2 DEF FlightFits
    <3> QED BY <3>1, <3>2
  <2>3. CASE r.conn[1] = c
    BY <1>9, <2>1, <2>2, <2>3 DEF FlightFits, n, l
  <2>4. CASE r.conn[1] # c
    BY <1>8, <2>1, <2>2, <2>4 DEF FlightFits
  <2> QED BY <2>3, <2>4
<1>15. ASSUME Sent' = Sent
       PROVE  ClientOrdered(c)'
  <2>1. inbox[c] \in Seq(ToClient) /\ ClientOrdered(c) /\ inbox'[c] = SubSeq(inbox[c], 1, k)
    BY <1>3, <1>4 DEF Flow, OrderFits
  <2>2. /\ Ordered(inbox'[c], Sent) /\ AllPrecede(inbox'[c], fromHost)
        /\ \A p : Precedes(p, inbox[c]) => Precedes(p, inbox'[c])
    BY <2>1, OrderedPrefix DEF ClientOrdered
  <2>3. link'[c].wants = link[c].wants
    BY <1>9 DEF n, l
  <2> QED BY <1>2, <1>15, <2>1, <2>2, <2>3 DEF ClientOrdered
<1>16. ClientOnly(c)
  <2>1. SubSeq(inbox[c], 1, k) \in Seq(ToClient)
    BY <1>4, PrefixElements
  <2>2. inbox' \in [Clients -> Seq(ToClient)] /\ \A d \in Clients : d # c => inbox'[d] = inbox[d]
    BY <1>3, <1>4, <2>1
  <2> QED BY <1>2, <1>4, <1>8, <2>2 DEF ClientOnly, CountTypes
<1> QED BY <1>11, <1>12, <1>13, <1>14, <1>15, <1>16, ClientOnlyFlow

LEMMA RestoredFacts ==
  ASSUME NEW l \in Links, NEW lost \in Nat, ~l.up, LinkFits(l, lost)
  PROVE  LET n == Restored(l) IN
         /\ n \in Links /\ n.up /\ n.epoch = l.epoch + 1 /\ n.wants = l.wants
         /\ n.asked \in Nat /\ l.asked <= n.asked /\ LinkFits(n, lost)
         /\ l.wants => n.awaits = n.asked /\ n.awaits = l.asked + 1 /\ n.after = l.after
         /\ ~l.wants => n.awaits = None
<1> DEFINE up == [l EXCEPT !.up = TRUE, !.epoch = @ + 1]
           n == Restored(l)
<1>1. /\ l.up \in BOOLEAN /\ l.epoch \in Nat /\ l.asked \in Nat /\ l.wants \in BOOLEAN
      /\ l.after \in Cursors /\ l.out \in LinkLines \union {None}
      /\ l.awaits \in Nat \union {None}
  BY DEF Links
<1>2. /\ up \in Links /\ up.up = TRUE /\ up.epoch = l.epoch + 1 /\ up.wants = l.wants
      /\ up.asked = l.asked /\ up.awaits = l.awaits /\ up.out = l.out /\ up.after = l.after
  <2>1. l.epoch + 1 \in Nat
    BY <1>1
  <2>2. up = [l EXCEPT !.up = TRUE, !.epoch = l.epoch + 1]
    OBVIOUS
  <2> HIDE DEF up
  <2>3. up \in Links
    BY <2>1, <2>2 DEF Links
  <2> QED BY <2>1, <2>2, <2>3 DEF Links
<1>3. n = IF l.wants THEN SendSubscription(up, l.after) ELSE up
  BY DEF Restored
<1>4. l.epoch + 1 <= lost
  BY DEF LinkFits
<1> HIDE DEF up, n
<1>5. CASE l.wants
  <2>1. /\ n \in Links /\ n.up = up.up /\ n.epoch = up.epoch /\ n.wants /\ n.after = l.after
        /\ n.asked = l.asked + 1 /\ n.awaits = l.asked + 1
        /\ n.out \in Subscribing(Nat) /\ n.out.request = l.asked + 1
        /\ n.out # Unsubscribing
    <3>1. n = SendSubscription(up, l.after)
      BY <1>3, <1>5
    <3>2. up \in Links /\ up.wants /\ up.up /\ l.after \in Cursors
      BY <1>1, <1>2, <1>5
    <3>3. LET s == SendSubscription(up, l.after) IN
          /\ s \in Links /\ s.up = up.up /\ s.epoch = up.epoch /\ s.wants /\ s.after = l.after
          /\ s.asked = up.asked + 1 /\ s.awaits = up.asked + 1
          /\ s.out \in Subscribing(Nat) /\ s.out.request = up.asked + 1
          /\ s.out # Unsubscribing
      BY ZenonT(60), <3>2, SendFacts
    <3> QED BY <1>2, <3>1, <3>3
  <2>2. LinkFits(n, lost)
    BY <1>1, <1>2, <1>4, <2>1 DEF LinkFits
  <2> QED BY <1>1, <1>2, <1>5, <2>1, <2>2 DEF n
<1>6. CASE ~l.wants
  <2>1. n = up
    BY <1>3, <1>6
  <2>2. l.awaits = None
    BY <1>6 DEF LinkFits
  <2>3. LinkFits(n, lost)
    BY <1>1, <1>2, <1>4, <1>6, <2>1, <2>2 DEF LinkFits
  <2> QED BY <1>1, <1>2, <1>6, <2>1, <2>2, <2>3 DEF n
<1> QED BY <1>5, <1>6

LEMMA RestoreFlow ==
  ASSUME Flow, NEW c \in Clients, Restore(c)
  PROVE  Flow'
<1> DEFINE l == link[c]
           n == link'[c]
           e == Message("scope", l.epoch + 1, 0, 0, 0)
<1>1. /\ ~l.up /\ link' = [link EXCEPT ![c] = Restored(l)]
      /\ inbox' = [inbox EXCEPT ![c] = Append(@, e)]
      /\ UNCHANGED <<log, served, toHost, fromHost, mux, lines, store, asks, upsets>>
  BY DEF Restore, counts
<1>2. /\ link \in [Clients -> Links] /\ inbox \in [Clients -> Seq(ToClient)]
      /\ lines \in [Conns -> Seq(LinkLines \union {Closing})]
      /\ store \in [Clients -> Stores] /\ upsets \in Nat /\ CountTypes
  BY RowFacts DEF Flow, Types, ClientTypes, MuxTypes, CountTypes
<1>3. /\ l \in Links /\ l.epoch \in Nat /\ l.asked \in Nat /\ LinkFits(l, upsets)
  BY LineTypes DEF Flow, Routes, LinksFit
<1>4. /\ e \in ToClient /\ e.kind = "scope" /\ e.total = 0
  <2>1. l.epoch + 1 \in Nat
    BY <1>3
  <2> QED BY <2>1, RowFacts DEF Message, ToClient
<1> HIDE DEF l, e
<1>5. /\ Restored(l) \in Links /\ Restored(l).up /\ Restored(l).epoch = l.epoch + 1
      /\ Restored(l).wants = l.wants /\ Restored(l).asked \in Nat
      /\ l.asked <= Restored(l).asked /\ LinkFits(Restored(l), upsets)
  BY <1>1, <1>2, <1>3, RestoredFacts
<1>6. /\ link' \in [Clients -> Links] /\ n = Restored(l)
      /\ \A d \in Clients : d # c => link'[d] = link[d]
  BY <1>1, <1>2, <1>5
<1> HIDE DEF n
<1>7. /\ n.up /\ n.epoch = l.epoch + 1 /\ n.wants = l.wants /\ n.asked \in Nat
      /\ l.asked <= n.asked /\ LinkFits(n, upsets)
  BY <1>5, <1>6
<1>8. LinksFit'
  <2>1. \A d \in Clients : LinkFits(link'[d], upsets')
    BY <1>1, <1>6, <1>7 DEF Flow, Routes, LinksFit, n
  <2> QED BY <2>1 DEF LinksFit
<1>9. AllLinesFit'
  <2> SUFFICES ASSUME NEW conn \in Conns
               PROVE  LinesFit(conn)'
    BY DEF AllLinesFit
  <2>1. /\ LinesFit(conn) /\ conn[1] \in Clients /\ conn[2] \in Nat
        /\ lines'[conn] = lines[conn] /\ lines[conn] \in Seq(LinkLines \union {Closing})
    BY <1>1, <1>2, RowFacts DEF Flow, Routes, AllLinesFit, Conns
  <2>2. Over(conn) => Over(conn)'
    BY SMTT(60), <1>3, <1>6, <1>7, <2>1 DEF Over, n, l
  <2>3. \A i \in DOMAIN lines[conn] : lines[conn][i].kind = "subscribe" =>
          lines[conn][i].request <= link'[conn[1]].asked
    <3> SUFFICES ASSUME NEW i \in DOMAIN lines[conn], lines[conn][i].kind = "subscribe"
                 PROVE  lines[conn][i].request <= link'[conn[1]].asked
      OBVIOUS
    <3>1. lines[conn][i].request <= link[conn[1]].asked
      BY <2>1 DEF LinesFit
    <3>2. lines[conn][i] \in LinkLines \union {Closing}
      BY <2>1, SequenceElements
    <3>3. lines[conn][i].request \in Nat
      BY <3>2, LineFacts
    <3> QED BY SMTT(60), <1>3, <1>6, <1>7, <2>1, <3>1, <3>3 DEF l, n
  <2> QED BY <2>1, <2>2, <2>3 DEF LinesFit
<1>10. ASSUME \A r \in Flight' : r \in Flight
       PROVE  FlightsFit'
  <2> SUFFICES ASSUME NEW r \in Flight'
               PROVE  FlightFits(r)'
    BY DEF FlightsFit
  <2>1. /\ r \in Flight /\ r.conn[1] \in Clients /\ r.conn[2] \in Nat /\ r.id \in Nat
        /\ FlightFits(r)
    BY <1>10, FlightTypes DEF Flow, Types, Routes, FlightsFit
  <2>2. CASE r.conn[1] = c
    <3>1. r.conn[2] <= l.epoch /\ r.id <= l.asked
            /\ \A i \in DOMAIN lines[r.conn] : Older(r, lines[r.conn][i])
      BY <2>1, <2>2 DEF FlightFits, l
    <3>2. r.conn[2] <= n.epoch /\ r.id <= n.asked /\ r.conn[2] # n.epoch
      BY <1>3, <1>7, <2>1, <3>1
    <3> QED BY <1>1, <2>2, <3>1, <3>2 DEF FlightFits, n
  <2>3. CASE r.conn[1] # c
    BY <1>1, <1>6, <2>1, <2>3 DEF FlightFits
  <2> QED BY <2>2, <2>3
<1>11. ASSUME Sent' = Sent
       PROVE  ClientOrdered(c)'
  <2> DEFINE s == inbox[c]
             p == HeldEnd(store[c].held)
  <2>1. s \in Seq(ToClient) /\ ClientOrdered(c) /\ inbox'[c] = Append(s, e)
    BY <1>1, <1>2 DEF Flow, OrderFits
  <2>2. Sent \in Nat /\ fromHost \in Seq(FromHost)
    BY SentFacts, RowFacts DEF Flow, Types, HostTypes
  <2>3. Precedes(0, fromHost)
    <3>1. \A i \in DOMAIN fromHost : fromHost[i] \in FromHost
      BY <2>2, SequenceElements
    <3> QED BY <3>1, TotalFacts DEF Precedes, Events
  <2>4. /\ Ordered(s, Sent) /\ AllPrecede(s, fromHost)
    BY <2>1 DEF ClientOrdered
  <2> HIDE DEF s, p
  <2>5. /\ Ordered(Append(s, e), Sent) /\ (Precedes(p, s) => Precedes(p, Append(s, e)))
        /\ AllPrecede(Append(s, e), fromHost)
    BY <1>4, <2>1, <2>2, <2>3, <2>4, OrderedAppend
  <2>6. link'[c].wants = link[c].wants
    BY <1>7 DEF n, l
  <2> QED BY <1>1, <1>11, <2>1, <2>5, <2>6 DEF ClientOrdered, s, p
<1>12. ClientOnly(c)
  <2>1. Append(inbox[c], e) \in Seq(ToClient)
    BY <1>2, <1>4, AppendElements
  <2>2. inbox' \in [Clients -> Seq(ToClient)] /\ \A d \in Clients : d # c => inbox'[d] = inbox[d]
    BY <1>1, <1>2, <2>1
  <2> QED BY <1>1, <1>2, <1>6, <2>2 DEF ClientOnly, CountTypes
<1> QED BY <1>1, <1>2, <1>8, <1>9, <1>10, <1>11, <1>12, ClientOnlyFlow

LEMMA SelectFlow ==
  ASSUME Flow, NEW c \in Clients, Select(c)
  PROVE  Flow' /\ LinkSteps(c)
<1> DEFINE held == store[c].held
           after == IF held = None THEN None ELSE HeldEnd(held)
           l == [link[c] EXCEPT !.wants = TRUE]
           n == link'[c]
<1>1. /\ link' = [link EXCEPT ![c] = SendSubscription([@ EXCEPT !.wants = TRUE], after)]
      /\ asks < MaxAsks /\ asks' = asks + 1
      /\ UNCHANGED <<log, served, toHost, fromHost, mux, lines, inbox, store, upsets>>
  BY DEF Select, Ask
<1>2. /\ link \in [Clients -> Links] /\ inbox \in [Clients -> Seq(ToClient)]
      /\ lines \in [Conns -> Seq(LinkLines \union {Closing})]
      /\ store \in [Clients -> Stores] /\ upsets \in Nat /\ CountTypes
  BY RowFacts DEF Flow, Types, ClientTypes, MuxTypes, CountTypes
<1>3. link' = [link EXCEPT ![c] = SendSubscription(l, after)]
  BY <1>1, <1>2
<1>4. after \in Cursors
  <2>1. CASE held = None
    BY <2>1 DEF Cursors
  <2>2. CASE held # None
    <3>1. HeldEnd(held) \in Nat /\ HeldEnd(held) <= Sent
      BY <2>2, HeldEndFacts DEF Flow, OrderFits, ClientOrdered
    <3>2. Sent \in Rows /\ Sent \in Nat
      BY SentFacts, RowFacts DEF Flow, Types
    <3>3. HeldEnd(held) \in Rows
      BY <3>1, <3>2, RowFacts DEF Rows
    <3> QED BY <2>2, <3>3 DEF Cursors
  <2> QED BY <2>1, <2>2
<1>5. /\ l \in Links /\ l.wants /\ l.up = link[c].up /\ l.epoch = link[c].epoch
      /\ l.asked = link[c].asked /\ l.out = link[c].out
  BY LineTypes DEF Flow, Links
<1> HIDE DEF l, after
<1>6. SendSubscription(l, after) \in Links /\ LinkStep(l, SendSubscription(l, after))
        /\ SendSubscription(l, after).wants
  BY <1>4, <1>5, SendFacts
<1>7. /\ link' \in [Clients -> Links] /\ \A d \in Clients : d # c => link'[d] = link[d]
      /\ LinkStep(l, n) /\ n.wants
  BY <1>2, <1>3, <1>6
<1>8. LinkSteps(c)
  BY <1>5, <1>7 DEF LinkSteps, LinkStep
<1>9. (\A r \in Flight' : r \in Flight) => LinksFit' /\ AllLinesFit' /\ FlightsFit'
  BY <1>1, <1>8, LinkStepsFit DEF Flow, Routes
<1>10. ClientOrdered(c) /\ (Sent' = Sent => ClientOrdered(c)')
  BY <1>1, <1>7 DEF Flow, OrderFits, ClientOrdered
<1>11. ClientOnly(c)
  BY <1>1, <1>2, <1>7, RowFacts DEF ClientOnly, CountTypes
<1> QED BY <1>1, <1>2, <1>8, <1>9, <1>10, <1>11, ClientOnlyFlow

LEMMA LeaveFlow ==
  ASSUME Flow, NEW c \in Clients, Leave(c)
  PROVE  Flow' /\ LinkSteps(c)
<1> DEFINE l == link[c]
           n == link'[c]
           e == [l EXCEPT !.wants = FALSE, !.awaits = None,
                          !.out = IF l.up THEN Unsubscribing ELSE @]
<1>1. /\ link' = [link EXCEPT ![c] = e] /\ asks < MaxAsks /\ asks' = asks + 1
      /\ store' = [store EXCEPT ![c].baseline = FALSE, ![c].catching = FALSE,
                                ![c].failed = FALSE]
      /\ UNCHANGED <<log, served, toHost, fromHost, mux, lines, inbox, upsets>>
  BY DEF Leave, Ask
<1>2. /\ link \in [Clients -> Links] /\ inbox \in [Clients -> Seq(ToClient)]
      /\ lines \in [Conns -> Seq(LinkLines \union {Closing})]
      /\ store \in [Clients -> Stores] /\ upsets \in Nat /\ CountTypes
  BY RowFacts DEF Flow, Types, ClientTypes, MuxTypes, CountTypes
<1>3. /\ l \in Links /\ l.asked \in Nat
  BY LineTypes DEF Flow
<1>4. /\ e \in Links /\ e.wants = FALSE /\ e.awaits = None /\ e.up = l.up /\ e.epoch = l.epoch
      /\ e.asked = l.asked /\ (e.out = l.out \/ e.out = Unsubscribing)
  BY <1>3, UnsubscribingFacts DEF Links
<1> HIDE DEF e
<1>5. LinkStep(l, e)
  BY <1>3, <1>4 DEF LinkStep
<1>6. LinkSteps(c)
  BY <1>1, <1>2, <1>4, <1>5 DEF LinkSteps
<1>7. (\A r \in Flight' : r \in Flight) => LinksFit' /\ AllLinesFit' /\ FlightsFit'
  BY <1>1, <1>6, LinkStepsFit DEF Flow, Routes
<1>8. /\ store' \in [Clients -> Stores] /\ \A d \in Clients : d # c => store'[d] = store[d]
      /\ store'[c].held = store[c].held /\ store'[c].baseline = FALSE
  <2>1. store[c] \in Stores
    BY <1>2
  <2>2. [store[c] EXCEPT !.baseline = FALSE, !.catching = FALSE, !.failed = FALSE] \in Stores
    BY <2>1 DEF Stores
  <2> QED BY <1>1, <1>2, <2>1, <2>2 DEF Stores
<1>9. ClientOrdered(c) /\ (Sent' = Sent => ClientOrdered(c)')
  BY <1>1, <1>8 DEF Flow, OrderFits, ClientOrdered
<1>10. ClientOnly(c)
  BY <1>1, <1>2, <1>6, <1>8, RowFacts DEF ClientOnly, CountTypes, LinkSteps
<1> QED BY <1>1, <1>2, <1>6, <1>7, <1>9, <1>10, ClientOnlyFlow

LEMMA ForgetFlow ==
  ASSUME Flow, NEW c \in Clients, Forget(c)
  PROVE  Flow'
<1>1. /\ ~link[c].wants /\ store' = [store EXCEPT ![c].held = None]
      /\ upsets < MaxUpsets /\ upsets' = upsets + 1
      /\ UNCHANGED <<log, served, toHost, fromHost, mux, lines, inbox, link, asks>>
  BY DEF Forget, Upset
<1>2. /\ link \in [Clients -> Links] /\ inbox \in [Clients -> Seq(ToClient)]
      /\ lines \in [Conns -> Seq(LinkLines \union {Closing})]
      /\ store \in [Clients -> Stores] /\ upsets \in 0..MaxUpsets /\ CountTypes
  BY DEF Flow, Types, ClientTypes, MuxTypes, CountTypes
<1>3. /\ store' \in [Clients -> Stores] /\ \A d \in Clients : d # c => store'[d] = store[d]
      /\ store'[c].held = None /\ store'[c].baseline = store[c].baseline
  <2>1. store[c] \in Stores
    BY <1>2
  <2>2. [store[c] EXCEPT !.held = None] \in Stores
    BY <2>1 DEF Stores
  <2> QED BY <1>1, <1>2, <2>1, <2>2 DEF Stores
<1>4. (\A r \in Flight' : r \in Flight) => LinksFit' /\ AllLinesFit' /\ FlightsFit'
  BY <1>1, StillFits DEF Flow, Routes
<1>5. ClientOrdered(c) /\ (Sent' = Sent => ClientOrdered(c)')
  BY <1>1, <1>3 DEF Flow, OrderFits, ClientOrdered
<1>6. ClientOnly(c)
  BY <1>1, <1>2, <1>3, RowFacts DEF ClientOnly, CountTypes
<1> QED BY <1>1, <1>2, <1>4, <1>5, <1>6, ClientOnlyFlow

LEMMA HearsOfLossFlow ==
  ASSUME Flow, NEW c \in Clients, HearsOfLoss(c)
  PROVE  Flow'
<1>1. /\ store' = [store EXCEPT ![c].scoped = FALSE, ![c].baseline = FALSE]
      /\ UNCHANGED <<log, served, toHost, fromHost, mux, lines, inbox, link, asks, upsets>>
  BY DEF HearsOfLoss, counts
<1>2. /\ link \in [Clients -> Links] /\ inbox \in [Clients -> Seq(ToClient)]
      /\ lines \in [Conns -> Seq(LinkLines \union {Closing})]
      /\ store \in [Clients -> Stores] /\ CountTypes
  BY DEF Flow, Types, ClientTypes, MuxTypes
<1>3. /\ store' \in [Clients -> Stores] /\ \A d \in Clients : d # c => store'[d] = store[d]
      /\ store'[c].held = store[c].held /\ store'[c].baseline = FALSE
  <2>1. store[c] \in Stores
    BY <1>2
  <2>2. [store[c] EXCEPT !.scoped = FALSE, !.baseline = FALSE] \in Stores
    BY <2>1 DEF Stores
  <2> QED BY <1>1, <1>2, <2>1, <2>2 DEF Stores
<1>4. (\A r \in Flight' : r \in Flight) => LinksFit' /\ AllLinesFit' /\ FlightsFit'
  BY <1>1, StillFits DEF Flow, Routes
<1>5. ClientOrdered(c) /\ (Sent' = Sent => ClientOrdered(c)')
  BY <1>1, <1>3 DEF Flow, OrderFits, ClientOrdered
<1>6. ClientOnly(c)
  BY <1>1, <1>2, <1>3 DEF ClientOnly, CountTypes
<1> QED BY <1>1, <1>2, <1>4, <1>5, <1>6, ClientOnlyFlow

\* What a step that takes the head of a client's inbox leaves of its order.
Takes(c) ==
  /\ inbox[c] # <<>> /\ inbox' = [inbox EXCEPT ![c] = Tail(inbox[c])]
  /\ UNCHANGED <<log, served, toHost, fromHost, mux, lines, asks, upsets>>

LEMMA TakesFlow ==
  ASSUME Flow, NEW c \in Clients, Takes(c), LinkSteps(c),
         store' \in [Clients -> Stores], \A d \in Clients : d # c => store'[d] = store[d],
         Head(inbox[c]) \in ToClient /\ Ordered(inbox[c], Sent) =>
           /\ store'[c].held # None =>
                \/ store[c].held # None /\ HeldEnd(store'[c].held) = HeldEnd(store[c].held)
                \/ /\ HeldEnd(store'[c].held) <= Head(inbox[c]).total
                   /\ HeldEnd(store'[c].held) \in Nat
           /\ store'[c].baseline => store'[c].held # None /\ link'[c].wants
  PROVE  Flow'
<1> DEFINE s == inbox[c]
           p == HeldEnd(store'[c].held)
           old == HeldEnd(store[c].held)
<1>1. /\ inbox \in [Clients -> Seq(ToClient)] /\ CountTypes
      /\ lines \in [Conns -> Seq(LinkLines \union {Closing})]
  BY DEF Flow, Types, ClientTypes, MuxTypes
<1>2. (\A r \in Flight' : r \in Flight) => LinksFit' /\ AllLinesFit' /\ FlightsFit'
  BY LinkStepsFit DEF Flow, Routes, Takes
<1>3. s \in Seq(ToClient) /\ s # <<>> /\ inbox'[c] = Tail(s) /\ ClientOrdered(c)
  BY <1>1 DEF Flow, OrderFits, Takes
<1>4. Ordered(s, Sent) /\ AllPrecede(s, fromHost)
  BY <1>3 DEF ClientOrdered
<1>5. Sent \in Nat /\ fromHost \in Seq(FromHost)
  BY SentFacts, RowFacts DEF Flow, Types, HostTypes
<1> DEFINE q == Head(s).total
<1>6. /\ Head(s) \in ToClient /\ q \in Nat /\ q <= Sent
      /\ Ordered(Tail(s), Sent) /\ AllPrecede(Tail(s), fromHost) /\ Tail(s) \in Seq(ToClient)
      /\ Precedes(q, Tail(s)) /\ Precedes(q, fromHost)
      /\ \A r : Precedes(r, s) => Precedes(r, Tail(s))
  <2>1. Head(s) \in ToClient /\ Tail(s) \in Seq(ToClient)
    BY <1>3, TailElements
  <2>2. q \in Nat
    BY <2>1, TotalFacts
  <2>3. /\ Ordered(Tail(s), Sent) /\ q <= Sent /\ Precedes(q, Tail(s))
        /\ \A r : Precedes(r, s) => Precedes(r, Tail(s))
        /\ \A u : AllPrecede(s, u) => AllPrecede(Tail(s), u) /\ Precedes(q, u)
    BY <1>3, <1>4, OrderedTail
  <2> QED BY <1>4, <2>1, <2>2, <2>3
<1>7. ASSUME store'[c].held # None
      PROVE  p <= Sent /\ Precedes(p, Tail(s)) /\ Precedes(p, fromHost)
  <2>1. CASE store[c].held # None /\ p = old
    BY <1>3, <1>6, <2>1 DEF ClientOrdered
  <2>2. CASE p <= q /\ p \in Nat
    <3>1. \A i \in DOMAIN Tail(s) : Tail(s)[i].total \in Nat
      BY <1>6, TotalFacts, SequenceElements
    <3>2. \A i \in DOMAIN fromHost : fromHost[i].total \in Nat
      BY <1>5, TotalFacts, SequenceElements
    <3> HIDE DEF p, q, s
    <3>3. Precedes(p, Tail(s))
      BY <1>6, <2>2, <3>1 DEF Precedes, Events
    <3>4. Precedes(p, fromHost)
      BY <1>6, <2>2, <3>2 DEF Precedes, Events
    <3> QED BY <1>5, <1>6, <2>2, <3>3, <3>4
  <2> QED BY <1>4, <1>6, <1>7, <2>1, <2>2
<1>8. store'[c].baseline => store'[c].held # None /\ link'[c].wants
  BY <1>4, <1>6
<1>9. Sent' = Sent => ClientOrdered(c)'
  <2> SUFFICES ASSUME Sent' = Sent PROVE ClientOrdered(c)'
    OBVIOUS
  <2>1. fromHost' = fromHost
    BY DEF Takes
  <2> QED BY <1>3, <1>6, <1>7, <1>8, <2>1 DEF ClientOrdered
<1>10. ClientOnly(c)
  <2>1. inbox' \in [Clients -> Seq(ToClient)] /\ \A d \in Clients : d # c => inbox'[d] = inbox[d]
    BY <1>1, <1>3, <1>6 DEF Takes
  <2> QED BY <1>1, <2>1 DEF ClientOnly, CountTypes, LinkSteps, Takes
<1>11. lines' = lines
  BY DEF Takes
<1> QED BY <1>1, <1>2, <1>9, <1>10, <1>11, ClientOnlyFlow

LEMMA LinkStays ==
  ASSUME Flow, NEW c \in Clients, link' = link
  PROVE  LinkSteps(c)
<1>1. /\ link \in [Clients -> Links] /\ LinkFits(link[c], upsets) /\ link[c] \in Links
      /\ link[c].asked \in Nat
  BY LineTypes DEF Flow, Types, ClientTypes, Routes, LinksFit
<1> QED BY <1>1 DEF LinkSteps, LinkStep, LinkFits

LEMMA SpanFacts ==
  ASSUME NEW from \in Nat, NEW end \in Nat, from <= end
  PROVE  /\ Span(from, end) \in Seq(Nat) /\ Len(Span(from, end)) = end - from
         /\ DOMAIN Span(from, end) = 1..(end - from)
         /\ \A i \in 1..(end - from) : Span(from, end)[i] = from + i
<1> DEFINE n == end - from
           s == Span(from, end)
<1>1. n \in Nat
  OBVIOUS
<1>2. s = [i \in 1..n |-> s[i]] /\ \A i \in 1..n : s[i] = from + i
  BY DEF Span
<1>3. \A i \in 1..n : s[i] \in Nat
  BY <1>2
<1> HIDE DEF s, n
<1>4. s \in Seq(Nat) /\ Len(s) = n /\ DOMAIN s = 1..n
  BY <1>1, <1>2, <1>3, MadeElements
<1> QED BY <1>2, <1>4 DEF s, n

LEMMA ApplyEventDoes ==
  ASSUME Flow, NEW c \in Clients, inbox[c] # <<>>, NEW m, m = Head(inbox[c]),
         m.kind = "event", ApplyEvent(c, m), store[c].baseline, ~store[c].catching
  PROVE  LET n == store'[c]
             old == store[c].held
         IN /\ store' \in [Clients -> Stores] /\ \A d \in Clients : d # c => store'[d] = store[d]
            /\ old # None /\ n.held # None /\ n.held.from = old.from
            /\ n.held.rows = Append(old.rows, m.end)
            /\ HeldEnd(n.held) = HeldEnd(old) + 1 /\ HeldEnd(n.held) <= m.total
            /\ HeldEnd(old) < m.end
            /\ n.scoped = store[c].scoped /\ n.baseline = store[c].baseline
            /\ n.catching = store[c].catching /\ n.failed = store[c].failed
            /\ LinkSteps(c) /\ link'[c].wants
            /\ link'[c].after = HeldEnd(n.held)
<1> DEFINE l == link[c]
           old == store[c].held
           new == [old EXCEPT !.rows = Append(@, m.end)]
           k == RememberAfter(l, HeldEnd(old) + 1)
<1>1. /\ store' = [store EXCEPT ![c].held.rows = Append(@, m.end)]
      /\ link' = [link EXCEPT ![c] = RememberAfter(@, HeldEnd(old) + 1)]
  BY DEF ApplyEvent
<1>2. /\ inbox \in [Clients -> Seq(ToClient)] /\ store \in [Clients -> Stores]
      /\ link \in [Clients -> Links] /\ ClientOrdered(c) /\ LinkFits(l, upsets)
  BY DEF Flow, Types, ClientTypes, OrderFits, Routes, LinksFit
<1>3. /\ old # None /\ old \in Replicas /\ old.from \in Nat /\ old.rows \in Seq(Nat)
      /\ HeldEnd(old) \in Nat /\ l.wants /\ Precedes(HeldEnd(old), inbox[c])
      /\ WellMade(inbox[c])
  BY <1>2, HeldEndFacts DEF Flow, ClientOrdered, Ordered
<1>4. m \in ToClient /\ m.end \in Nat /\ m.total \in Rows /\ m.total \in Nat
  BY <1>2, TailElements, TotalFacts
<1>5. 1 \in DOMAIN inbox[c] /\ m = inbox[c][1]
  BY <1>2, TailElements
<1>6. HeldEnd(old) < m.total /\ m.end = m.total
  BY <1>3, <1>5 DEF Precedes, Events, WellMade
<1>7. /\ new \in Replicas /\ new.from = old.from /\ new.rows = Append(old.rows, m.end)
      /\ HeldEnd(new) = HeldEnd(old) + 1
  <2>1. Append(old.rows, m.end) \in Seq(Nat) /\ Len(Append(old.rows, m.end)) = Len(old.rows) + 1
    BY <1>3, <1>4, AppendProperties
  <2>2. /\ new = [old EXCEPT !.rows = Append(old.rows, m.end)] /\ Len(old.rows) \in Nat
    BY <1>3, LenProperties
  <2> HIDE DEF new, old
  <2>3. new \in Replicas /\ new.from = old.from /\ new.rows = Append(old.rows, m.end)
    BY <1>3, <2>1, <2>2 DEF Replicas
  <2> QED BY <1>3, <2>1, <2>2, <2>3 DEF HeldEnd
<1>8. /\ store' \in [Clients -> Stores] /\ \A d \in Clients : d # c => store'[d] = store[d]
      /\ store'[c].held = new /\ store'[c].scoped = store[c].scoped
      /\ store'[c].baseline = store[c].baseline
      /\ store'[c].catching = store[c].catching /\ store'[c].failed = store[c].failed
  <2>1. store[c] \in Stores
    BY <1>2
  <2>2. store' = [store EXCEPT ![c] = [store[c] EXCEPT !.held = new]]
    BY <1>1, <1>2
  <2> HIDE DEF new
  <2>3. [store[c] EXCEPT !.held = new] \in Stores
    BY <1>7, <2>1 DEF Stores
  <2> QED BY <1>2, <2>1, <2>2, <2>3 DEF Stores
<1>9. new # None
  BY <1>7, NoneFacts
<1>10. HeldEnd(old) + 1 \in Rows
  BY <1>3, <1>4, <1>6, RowFacts DEF Rows
<1>11. k \in Links /\ LinkStep(l, k) /\ k.wants /\ k.after = HeldEnd(old) + 1
  <2>1. /\ l \in Links /\ l.asked \in Nat
    BY LineTypes DEF Flow
  <2>2. HeldEnd(old) + 1 \in Cursors
    BY <1>10 DEF Cursors
  <2>3. k = l \/ k = [l EXCEPT !.after = HeldEnd(old) + 1, !.awaits = None]
    BY DEF RememberAfter
  <2>4. k = l => k.after = HeldEnd(old) + 1
    BY <2>1, <2>2 DEF RememberAfter, Links
  <2> DEFINE after == HeldEnd(old) + 1
  <2>5. k = l => LinkStep(l, k)
    BY <1>2, <2>1 DEF LinkStep, LinkFits
  <2> HIDE DEF k, l, after
  <2>6. CASE k = l
    BY <1>3, <2>1, <2>4, <2>5, <2>6
  <2>7. CASE k = [l EXCEPT !.after = after, !.awaits = None]
    <3>1. /\ k \in Links /\ k.up = l.up /\ k.epoch = l.epoch /\ k.wants = l.wants
          /\ k.asked = l.asked /\ k.awaits = None /\ k.out = l.out /\ k.after = after
      BY <2>1, <2>2, <2>7 DEF Links, after
    <3> QED BY <1>2, <1>3, <2>1, <3>1 DEF LinkStep, after, LinkFits
  <2> QED BY <2>3, <2>6, <2>7 DEF after
<1>12. LinkSteps(c) /\ link'[c] = k
  BY <1>1, <1>2, <1>11 DEF LinkSteps
<1>13. HeldEnd(old) + 1 <= m.total
  BY SMTT(60), <1>3, <1>4, <1>6
<1> HIDE DEF new, k
<1> QED BY <1>3, <1>6, <1>7, <1>8, <1>9, <1>11, <1>12, <1>13

LEMMA ApplyWindowDoes ==
  ASSUME Flow, NEW c \in Clients, inbox[c] # <<>>, NEW m, m = Head(inbox[c]),
         m.kind = "window", IsCurrent(link[c], m), ApplyWindow(c, m)
  PROVE  LET n == store'[c]
             old == store[c].held
             l == link'[c]
         IN /\ store' \in [Clients -> Stores] /\ \A d \in Clients : d # c => store'[d] = store[d]
            /\ m.from <= m.end /\ m.end <= m.total /\ m.from \in Nat /\ m.end \in Nat
            /\ n.held # None /\ HeldEnd(n.held) = m.end
            /\ \/ n.held.from = m.from /\ n.held.rows = Span(m.from, m.end)
               \/ /\ old # None /\ HeldEnd(old) = m.from /\ n.held.from = old.from
                  /\ n.held.rows = old.rows \o Span(m.from, m.end)
            /\ n.scoped = store[c].scoped /\ n.failed = store[c].failed
            /\ n.baseline = (store[c].baseline \/ ~(m.end < m.total))
            /\ n.catching = (m.end < m.total)
            /\ LinkSteps(c) /\ l.wants /\ l.after = m.end
            /\ l.awaits # None => m.end < m.total /\ link[c].asked < l.awaits
<1> DEFINE l == link[c]
           old == store[c].held
           rows == Span(m.from, m.end)
           continues == old # None /\ l.after = m.from /\ HeldEnd(old) = m.from
           next == IF continues THEN [old EXCEPT !.rows = @ \o rows]
                                ELSE [from |-> m.from, rows |-> rows]
           consumed == [l EXCEPT !.awaits = None]
           catching == m.end < m.total
           k == IF catching THEN UpdateAfter(consumed, m.end) ELSE RememberAfter(consumed, m.end)
<1>1. /\ store' = [store EXCEPT ![c].held = next, ![c].catching = catching,
                                ![c].baseline = @ \/ ~catching]
      /\ link' = [link EXCEPT ![c] = k]
  BY ZenonT(60) DEF ApplyWindow
<1>2. /\ inbox \in [Clients -> Seq(ToClient)] /\ store \in [Clients -> Stores]
      /\ link \in [Clients -> Links] /\ ClientOrdered(c) /\ LinkFits(l, upsets)
      /\ l \in Links /\ l.asked \in Nat /\ l.awaits \in Nat \union {None}
  BY LineTypes DEF Flow, Types, ClientTypes, OrderFits, Routes, LinksFit
<1>3. m \in ToClient /\ m.end \in Nat /\ m.end \in Rows /\ m.from \in Nat /\ m.total \in Nat
  BY <1>2, TailElements, TotalFacts
<1>4. m.from <= m.end /\ m.end <= m.total
  <2>1. 1 \in DOMAIN inbox[c] /\ m = inbox[c][1]
    BY <1>2, TailElements
  <2> QED BY <1>2, <2>1 DEF ClientOrdered, Ordered, WellMade
<1>5. l.wants
  BY <1>2 DEF LinkFits, IsCurrent
<1>6. rows \in Seq(Nat) /\ Len(rows) = m.end - m.from
  BY <1>3, <1>4, SpanFacts
<1> HIDE DEF rows
<1>7. /\ next \in Replicas /\ HeldEnd(next) = m.end
      /\ \/ next.from = m.from /\ next.rows = rows
         \/ /\ old # None /\ HeldEnd(old) = m.from /\ next.from = old.from
            /\ next.rows = old.rows \o rows
  <2>0. next = IF continues THEN [old EXCEPT !.rows = old.rows \o rows]
                            ELSE [from |-> m.from, rows |-> rows]
    OBVIOUS
  <2>3. continues => old # None /\ HeldEnd(old) = m.from
    OBVIOUS
  <2> HIDE DEF continues, next
  <2>1. CASE continues
    <3>1. /\ old \in Replicas /\ old.from \in Nat /\ old.rows \in Seq(Nat)
          /\ HeldEnd(old) = m.from /\ Len(old.rows) \in Nat
      BY <2>1, <2>3, HeldEndFacts, LenProperties DEF Flow
    <3>0. \A a, b \in Seq(Nat) : a \o b \in Seq(Nat) /\ Len(a \o b) = Len(a) + Len(b)
      BY ConcatProperties
    <3> DEFINE all == old.rows \o rows
    <3>2. all \in Seq(Nat) /\ Len(all) = Len(old.rows) + (m.end - m.from)
      BY <3>0, <1>6, <3>1
    <3>3. next = [old EXCEPT !.rows = old.rows \o rows]
      BY <2>0, <2>1, Zenon
    <3> HIDE DEF old
    <3> HIDE DEF all
    <3>4. next \in Replicas /\ next.from = old.from /\ next.rows = all
      BY <3>1, <3>2, <3>3 DEF Replicas, all
    <3>5. old.from + Len(old.rows) = m.from
      BY <3>1 DEF HeldEnd
    <3>6. HeldEnd(next) = old.from + Len(all)
      BY <3>4 DEF HeldEnd
    <3>7. HeldEnd(next) = m.end
      <4>1. old.from \in Nat /\ Len(old.rows) \in Nat /\ m.from \in Nat /\ m.end \in Nat
        BY <1>3, <3>1
      <4>2. Len(all) = Len(old.rows) + (m.end - m.from)
        BY <3>2
      <4> QED BY SMTT(60), <3>5, <3>6, <4>1, <4>2
    <3> QED BY <2>3, <2>1, <3>1, <3>4, <3>7 DEF all
  <2>2. CASE ~continues
    <3>1. next = [from |-> m.from, rows |-> rows]
      BY <2>0, <2>2, Zenon
    <3> QED BY <1>3, <1>4, <1>6, <3>1 DEF Replicas, HeldEnd
  <2> QED BY <2>1, <2>2
<1>8. next # None
  BY ZenonT(60), <1>7, NoneFacts
<1>9. catching \in BOOLEAN
  OBVIOUS
<1>10. /\ store' \in [Clients -> Stores] /\ \A d \in Clients : d # c => store'[d] = store[d]
       /\ store'[c].held = next /\ store'[c].scoped = store[c].scoped
       /\ store'[c].baseline = (store[c].baseline \/ ~catching)
       /\ store'[c].catching = catching /\ store'[c].failed = store[c].failed
  <2>1. store[c] \in Stores
    BY <1>2
  <2> DEFINE e == [store[c] EXCEPT !.held = next, !.catching = catching,
                                   !.baseline = store[c].baseline \/ ~catching]
  <2>2. store' = [store EXCEPT ![c] = e]
    BY ZenonT(60), <1>1, <1>2
  <2> HIDE DEF next, catching
  <2>3. /\ e \in Stores /\ e.held = next /\ e.scoped = store[c].scoped
        /\ e.baseline = (store[c].baseline \/ ~catching)
        /\ e.catching = catching /\ e.failed = store[c].failed
    BY <1>7, <1>9, <2>1 DEF Stores
  <2> HIDE DEF e
  <2> QED BY <1>2, <2>2, <2>3
<1>11. /\ k \in Links /\ LinkStep(l, k) /\ k.wants /\ k.after = m.end
       /\ k.awaits # None => catching /\ l.asked < k.awaits
  <2>1. /\ consumed \in Links /\ consumed.up = l.up /\ consumed.epoch = l.epoch
        /\ consumed.wants = l.wants /\ consumed.asked = l.asked /\ consumed.out = l.out
        /\ consumed.awaits = None /\ consumed.after = l.after
    BY <1>2 DEF Links
  <2>2. m.end \in Cursors
    BY <1>3 DEF Cursors
  <2>3. LinkStep(l, consumed)
    BY <1>2, <2>1 DEF LinkStep, LinkFits
  <2> HIDE DEF consumed, l
  <2>4. CASE consumed.after = m.end
    <3>1. k = consumed
      BY <2>4, Zenon DEF UpdateAfter, RememberAfter
    <3> QED BY <1>5, <2>1, <2>3, <2>4, <3>1
  <2>5. CASE consumed.after # m.end /\ catching
    <3>1. k = SendSubscription(consumed, m.end)
      <4>1. k = UpdateAfter(consumed, m.end)
        BY <2>5 DEF catching
      <4> QED BY <2>5, <4>1 DEF UpdateAfter
    <3> HIDE DEF k
    <3>2. /\ k \in Links /\ LinkStep(consumed, k) /\ k.wants /\ k.after = m.end
          /\ k.awaits = None \/ k.awaits = consumed.asked + 1
      <4>1. consumed \in Links /\ consumed.wants
        BY <1>5, <2>1
      <4>2. LET s == SendSubscription(consumed, m.end) IN
            /\ s \in Links /\ LinkStep(consumed, s) /\ s.wants /\ s.after = m.end
            /\ s.awaits = None \/ s.awaits = consumed.asked + 1
        <5>1. consumed.up \in BOOLEAN
          BY <4>1 DEF Links
        <5> QED BY <2>2, <4>1, <5>1, SendFacts
      <4> QED BY <3>1, <4>2
    <3>3. LinkStep(l, k)
      BY <2>1, <3>2 DEF LinkStep
    <3>4. k.awaits # None => l.asked < k.awaits
      BY <1>2, <2>1, <3>2 DEF l
    <3> QED BY <2>5, <3>2, <3>3, <3>4
  <2>6. CASE consumed.after # m.end /\ ~catching
    <3>1. k = [consumed EXCEPT !.after = m.end, !.awaits = None]
      BY <2>6 DEF RememberAfter
    <3> HIDE DEF k
    <3>2. /\ k \in Links /\ k.up = l.up /\ k.epoch = l.epoch /\ k.wants = l.wants
          /\ k.asked = l.asked /\ k.awaits = None /\ k.out = l.out /\ k.after = m.end
      BY <2>1, <2>2, <3>1 DEF Links
    <3>3. LinkStep(l, k)
      BY <2>1, <2>3, <3>2 DEF LinkStep
    <3> QED BY <1>5, <3>2, <3>3
  <2> QED BY <2>4, <2>5, <2>6
<1>12. LinkSteps(c) /\ link'[c] = k
  BY <1>1, <1>2, <1>11 DEF LinkSteps
<1> HIDE DEF next, k
<1>13. /\ \/ store'[c].held.from = m.from /\ store'[c].held.rows = Span(m.from, m.end)
          \/ /\ old # None /\ HeldEnd(old) = m.from /\ store'[c].held.from = old.from
             /\ store'[c].held.rows = old.rows \o Span(m.from, m.end)
       /\ store'[c].held # None /\ HeldEnd(store'[c].held) = m.end
  BY ZenonT(60), <1>7, <1>8, <1>10 DEF rows
<1>14. /\ link'[c].wants /\ link'[c].after = m.end
       /\ link'[c].awaits # None => catching /\ link[c].asked < link'[c].awaits
  BY <1>11, <1>12
<1> QED BY ZenonT(60), <1>3, <1>4, <1>10, <1>12, <1>13, <1>14

LEMMA ApplyFlow ==
  ASSUME Flow, NEW c \in Clients, Apply(c)
  PROVE  Flow' /\ LinkSteps(c)
<1> DEFINE s == inbox[c]
           m == Head(s)
<1>1. /\ s # <<>> /\ inbox' = [inbox EXCEPT ![c] = Tail(@)]
      /\ UNCHANGED <<log, served, toHost, fromHost, mux, lines, counts>>
      /\ \/ m.kind = "scope" /\ ApplyScope(c, m)
         \/ m.kind = "event" /\ ApplyEvent(c, m)
         \/ m.kind = "window" /\ IsCurrent(link[c], m) /\ ApplyWindow(c, m)
         \/ /\ m.kind \in {"failed", "refused"} /\ IsCurrent(link[c], m)
            /\ store' = [store EXCEPT ![c].failed = TRUE]
            /\ UNCHANGED link
         \/ m.kind \in {"window", "failed", "refused"} /\ UNCHANGED <<store, link>>
  BY DEF Apply
<1>2. /\ inbox \in [Clients -> Seq(ToClient)] /\ store \in [Clients -> Stores]
      /\ link \in [Clients -> Links] /\ ClientOrdered(c) /\ store[c] \in Stores
  BY DEF Flow, Types, ClientTypes, OrderFits
<1>3. Takes(c)
  BY <1>1, <1>2 DEF Takes, counts
<1>4. /\ store[c].baseline => store[c].held # None /\ link[c].wants
  BY <1>2 DEF ClientOrdered
<1>5. ASSUME link' = link, store' \in [Clients -> Stores],
             \A d \in Clients : d # c => store'[d] = store[d],
             store'[c].held = store[c].held, store'[c].baseline => store[c].baseline
      PROVE  Flow' /\ LinkSteps(c)
  <2>1. LinkSteps(c)
    BY <1>5, LinkStays
  <2> QED BY <1>3, <1>4, <1>5, <2>1, TakesFlow
<1>6. ASSUME link' = link, store' = store
      PROVE  Flow' /\ LinkSteps(c)
  BY <1>2, <1>5, <1>6
<1>7. CASE m.kind = "scope" /\ ApplyScope(c, m)
  <2>1. link' = link
    BY <1>7 DEF ApplyScope
  <2>2. CASE store' = store
    BY <1>6, <2>1, <2>2
  <2>3. CASE store' = [store EXCEPT ![c].scoped = TRUE, ![c].baseline = FALSE]
    <3>1. [store[c] EXCEPT !.scoped = TRUE, !.baseline = FALSE] \in Stores
      BY <1>2 DEF Stores
    <3>2. /\ store' \in [Clients -> Stores] /\ \A d \in Clients : d # c => store'[d] = store[d]
          /\ store'[c].held = store[c].held /\ ~store'[c].baseline
      BY <1>2, <2>3, <3>1 DEF Stores
    <3> QED BY <1>5, <2>1, <3>2
  <2> QED BY <1>7, <2>2, <2>3 DEF ApplyScope
<1>8. CASE m.kind = "event" /\ ApplyEvent(c, m)
  <2>1. CASE store[c].baseline /\ ~store[c].catching
    <3>1. /\ store' \in [Clients -> Stores] /\ \A d \in Clients : d # c => store'[d] = store[d]
          /\ store[c].held # None /\ store'[c].held # None
          /\ HeldEnd(store'[c].held) = HeldEnd(store[c].held) + 1
          /\ HeldEnd(store'[c].held) <= m.total
          /\ LinkSteps(c) /\ link'[c].wants
      BY <1>1, <1>8, <2>1, ApplyEventDoes
    <3>2. HeldEnd(store'[c].held) \in Nat
      BY <3>1, HeldEndFacts DEF Flow
    <3> QED BY <1>3, <3>1, <3>2, TakesFlow
  <2>2. CASE ~(store[c].baseline /\ ~store[c].catching)
    BY <1>6, <1>8, <2>2 DEF ApplyEvent
  <2> QED BY <2>1, <2>2
<1>9. CASE m.kind = "window" /\ IsCurrent(link[c], m) /\ ApplyWindow(c, m)
  <2>1. /\ store' \in [Clients -> Stores] /\ \A d \in Clients : d # c => store'[d] = store[d]
        /\ m.end <= m.total /\ m.end \in Nat
        /\ store'[c].held # None /\ HeldEnd(store'[c].held) = m.end
        /\ LinkSteps(c) /\ link'[c].wants
    BY ZenonT(60), <1>1, <1>9, ApplyWindowDoes
  <2> QED BY <1>3, <2>1, TakesFlow
<1>10. CASE link' = link /\ store' = [store EXCEPT ![c].failed = TRUE]
  <2>1. [store[c] EXCEPT !.failed = TRUE] \in Stores
    BY <1>2 DEF Stores
  <2>2. /\ store' \in [Clients -> Stores] /\ \A d \in Clients : d # c => store'[d] = store[d]
        /\ store'[c].held = store[c].held /\ store'[c].baseline = store[c].baseline
    BY <1>2, <1>10, <2>1 DEF Stores
  <2> QED BY <1>5, <1>10, <2>2
<1> QED BY <1>1, <1>6, <1>7, <1>8, <1>9, <1>10

\* Every action of a client keeps the invariant.
LEMMA ClientFlow ==
  ASSUME Flow, NEW c \in Clients, Client(c)
  PROVE  Flow'
BY LoseFlow, RestoreFlow, SelectFlow, LeaveFlow, ForgetFlow, HearsOfLossFlow, ApplyFlow
   DEF Client

-------------------------------------------------------------------------------
(* The host and the mux keep the invariant *)

LEMMA HostKeeps ==
  ASSUME Flow, HostTypes', Kept, MuxFits', NEW t, Says(t),
         UNCHANGED <<mux, lines, inbox, link, store, asks>>,
         upsets' = upsets \/ (upsets < MaxUpsets /\ upsets' = upsets + 1)
  PROVE  Flow'
<1>1. OrderFits'
  BY HostOrder DEF Flow
<1>2. LinksFit' /\ AllLinesFit' /\ FlightsFit'
  BY StillFits DEF Flow, Routes, Kept
<1>3. MuxTypes' /\ ClientTypes'
  BY DEF Flow, Types, MuxTypes, ClientTypes, mux
<1>4. CountTypes'
  BY RowFacts DEF Flow, Types, CountTypes
<1> QED BY <1>1, <1>2, <1>3, <1>4 DEF Flow, Types, Routes, Kept

LEMMA SendsRowsFlow ==
  ASSUME Flow, HostTypes', SendsRows, host'.subscribed = host.subscribed,
         UNCHANGED <<mux, lines, inbox, link, store, asks>>,
         upsets' = upsets \/ (upsets < MaxUpsets /\ upsets' = upsets + 1)
  PROVE  Flow'
<1>1. HostTypes /\ Unique /\ MuxFits /\ toHost' = toHost
  BY DEF Flow, Types, Routes, SendsRows
<1>2. Kept /\ \A r : r \in InHand' <=> r \in InHand
  BY <1>1, SendsRowsKeeps
<1>3. MuxFits'
  BY <1>1, <1>2, MuxStill
<1>4. PICK t : Says(t)
  BY DEF SendsRows
<1> QED BY <1>2, <1>3, <1>4, HostKeeps

LEMMA AnswersFlow ==
  ASSUME Flow, HostTypes', (\E i, m : AnswersOne(i, m)) \/ (\E t : AnswersAll(t)),
         host'.subscribed = host.subscribed,
         UNCHANGED <<mux, lines, inbox, link, store, asks>>,
         upsets' = upsets \/ (upsets < MaxUpsets /\ upsets' = upsets + 1)
  PROVE  Flow'
<1>1. HostTypes /\ Unique /\ MuxFits
  BY DEF Flow, Types, Routes
<1>2. /\ Kept /\ \A r : r \in InHand' <=> r \in InHand
      /\ toHost' = toHost /\ \E t : Says(t)
  <2>1. ASSUME NEW i, NEW m, AnswersOne(i, m)
        PROVE  /\ Kept /\ \A r : r \in InHand' <=> r \in InHand
               /\ toHost' = toHost /\ \E t : Says(t)
    BY <1>1, <2>1, AnswersOneKeeps DEF AnswersOne
  <2>2. ASSUME NEW t, AnswersAll(t)
        PROVE  /\ Kept /\ \A r : r \in InHand' <=> r \in InHand
               /\ toHost' = toHost /\ \E u : Says(u)
    BY <1>1, <2>2, AnswersAllKeeps DEF AnswersAll
  <2> QED BY <2>1, <2>2
<1>3. MuxFits'
  BY <1>1, <1>2, MuxStill
<1>4. PICK t : Says(t)
  BY <1>2
<1> QED BY <1>2, <1>3, <1>4, HostKeeps

LEMMA HostTakesFlow ==
  ASSUME Flow, HostTakes
  PROVE  Flow'
<1>1. HostTypes /\ Unique /\ MuxFits
  BY DEF Flow, Types, Routes
<1>2. /\ UNCHANGED <<mux, lines, inbox, link, store, asks>>
      /\ upsets' = upsets \/ (upsets < MaxUpsets /\ upsets' = upsets + 1)
  BY DEF HostTakes, Refuse, Upset
<1>3. HostTypes'
  BY <1>1, HostTakesSays
<1>4. ASSUME host'.subscribed, NEW m, AnswersHead(m), m.kind = "window"
      PROVE  Flow'
  <2>1. /\ Kept /\ m.request = Head(toHost).request
        /\ \A r : r \in InHand' <=> (r \in InHand \/ r = m.request)
    BY <1>1, <1>4, AnswersHeadKeeps DEF AnswersHead
  <2>2. MuxFits'
    BY <1>1, <1>2, <1>4, <2>1, MuxHandsOver DEF AnswersHead
  <2> QED BY <1>2, <1>3, <1>4, <2>1, <2>2, HostKeeps DEF AnswersHead
<1>5. ASSUME UNCHANGED host, NEW m, AnswersHead(m), m.kind = "refused"
      PROVE  Flow'
  <2>1. Kept /\ \A r : r \in InHand' <=> r \in InHand
    BY <1>1, <1>5, AnswersHeadKeeps
  <2>2. MuxFits'
    BY <1>1, <1>2, <1>5, <2>1, MuxHandsRefusal DEF AnswersHead
  <2> QED BY <1>2, <1>3, <1>5, <2>1, <2>2, HostKeeps DEF AnswersHead
<1>6. ASSUME host'.subscribed, NEW reply, HeadWaits(reply)
      PROVE  Flow'
  <2>1. /\ Kept /\ reply.request = Head(toHost).request
        /\ \A r : r \in InHand' <=> (r \in InHand \/ r = reply.request)
    BY <1>1, <1>6, HeadWaitsKeeps DEF HeadWaits
  <2>2. MuxFits'
    BY <1>1, <1>2, <1>6, <2>1, MuxHandsOver DEF HeadWaits
  <2> QED BY <1>2, <1>3, <1>6, <2>1, <2>2, HostKeeps DEF HeadWaits
<1>7. ASSUME ~host'.subscribed, TakesRelease
      PROVE  Flow'
  <2>1. Kept /\ \A r : r \in InHand' <=> r \in InHand
    BY <1>1, <1>7, TakesReleaseKeeps
  <2>2. MuxFits'
    BY <1>1, <1>2, <1>7, <2>1, MuxHandsRelease DEF TakesRelease
  <2> QED BY <1>2, <1>3, <1>7, <2>1, <2>2, HostKeeps DEF TakesRelease
<1> QED BY <1>1, <1>4, <1>5, <1>6, <1>7, HostTakesSays

\* Every action of the host keeps the invariant.
LEMMA HostFlow ==
  ASSUME Flow, Host
  PROVE  Flow'
<1>1. HostTypes
  BY DEF Flow, Types
<1>2. CASE RecordEvent
  <2>1. /\ UNCHANGED <<mux, lines, inbox, link, store, asks, upsets>>
        /\ UNCHANGED <<host, toHost>>
    BY <1>2 DEF RecordEvent, counts
  <2>2. HostTypes' /\ SendsRows
    BY <1>1, <1>2, <2>1, RecordEventSays DEF SendsRows
  <2> QED BY <2>1, <2>2, SendsRowsFlow
<1>3. CASE HostTakes
  BY <1>3, HostTakesFlow
<1>4. CASE TailRead
  <2>1. UNCHANGED <<mux, lines, inbox, link, store, asks, upsets>>
    BY <1>4 DEF TailRead, counts
  <2>2. HostTypes' /\ UNCHANGED host /\ (SendsRows \/ \E i, m : AnswersOne(i, m))
    BY <1>1, <1>4, TailReadSays
  <2> QED BY <2>1, <2>2, SendsRowsFlow, AnswersFlow
<1>5. CASE FinishHydration
  <2>1. UNCHANGED <<mux, lines, inbox, link, store, asks, upsets>>
    BY <1>5 DEF FinishHydration, counts
  <2>2. HostTypes' /\ host'.subscribed = host.subscribed /\ \E t : AnswersAll(t)
    BY <1>1, <1>5, FinishHydrationSays
  <2> QED BY <2>1, <2>2, AnswersFlow
<1>6. CASE FailHydration
  <2>1. /\ UNCHANGED <<mux, lines, inbox, link, store, asks>>
        /\ upsets < MaxUpsets /\ upsets' = upsets + 1
    BY <1>6 DEF FailHydration, Upset
  <2>2. HostTypes' /\ UNCHANGED host /\ \E t : AnswersAll(t)
    BY <1>1, <1>6, FailHydrationSays
  <2> QED BY <2>1, <2>2, AnswersFlow
<1>7. CASE LoadBackground \/ Evict \/ Archive \/ ReleaseLog
  <2>1. /\ UNCHANGED <<mux, lines, inbox, link, store, asks>>
        /\ upsets' = upsets \/ (upsets < MaxUpsets /\ upsets' = upsets + 1)
    BY <1>7 DEF LoadBackground, Evict, Archive, ReleaseLog, Upset, counts
  <2>2. HostTypes' /\ host'.subscribed = host.subscribed /\ SendsRows
    BY <1>1, <1>7, ResidencySays
  <2> QED BY <2>1, <2>2, SendsRowsFlow
<1> QED BY <1>2, <1>3, <1>4, <1>5, <1>6, <1>7 DEF Host

\* Every action of the mux keeps the invariant.
LEMMA MuxFlow ==
  ASSUME Flow, Mux
  PROVE  Flow'
<1>1. Types /\ Routes /\ OrderFits
  BY DEF Flow
<1>2. CASE MuxTakesMessage
  <2>1. /\ Types' /\ Routes' /\ Sent' = Sent /\ fromHost # <<>> /\ fromHost' = Tail(fromHost)
        /\ Delivers(Head(fromHost)) /\ UNCHANGED <<log, served, link, store>>
    BY <1>1, <1>2, MuxTakesMessageRoutes
  <2>2. OrderFits'
    BY <1>1, <2>1, MessageOrder
  <2> QED BY <2>1, <2>2 DEF Flow
<1>3. ASSUME NEW c \in Clients, MuxTakesLine(c)
      PROVE  Flow'
  <2>1. Types' /\ Routes' /\ Sent' = Sent
    BY <1>1, <1>3, MuxTakesLineRoutes
  <2>2. /\ link' = [link EXCEPT ![c].out = None] /\ UNCHANGED <<fromHost, inbox, store>>
    BY <1>3 DEF MuxTakesLine
  <2>3. \A d \in Clients : link'[d].wants = link[d].wants
    <3>1. link \in [Clients -> Links]
      BY <1>1 DEF Types, ClientTypes
    <3> QED BY <2>2, <3>1 DEF Links
  <2>4. OrderFits'
    BY <1>1, <2>1, <2>2, <2>3 DEF OrderFits, ClientOrdered
  <2> QED BY <2>1, <2>4 DEF Flow
<1>4. ASSUME NEW conn \in Conns, MuxTakesRest(conn)
      PROVE  Flow'
  <2>1. Types' /\ Routes' /\ Sent' = Sent
    BY <1>1, <1>4, MuxTakesRestRoutes
  <2>2. UNCHANGED <<fromHost, inbox, link, store>>
    BY <1>4 DEF MuxTakesRest
  <2>3. OrderFits'
    BY <1>1, <2>1, <2>2 DEF OrderFits, ClientOrdered
  <2> QED BY <2>1, <2>3 DEF Flow
<1> QED BY <1>2, <1>3, <1>4 DEF Mux

LEMMA InitFlow ==
  ASSUME Init
  PROVE  Flow
<1>1. /\ toHost = <<>> /\ fromHost = <<>> /\ topics = {} /\ pending = {} /\ deferred = FALSE
      /\ hydration = None /\ log = 0 /\ shown = FALSE /\ gap = FALSE /\ asks = 0 /\ upsets = 0
      /\ host = [place |-> "none", cached |-> FALSE, subscribed |-> FALSE]
      /\ lines = [conn \in Conns |-> <<>>] /\ inbox = [c \in Clients |-> <<>>]
      /\ link = [c \in Clients |-> [up |-> TRUE, epoch |-> 0, wants |-> FALSE, after |-> None,
                                   awaits |-> None, asked |-> 0, out |-> None]]
      /\ store = [c \in Clients |-> [scoped |-> TRUE, held |-> None, baseline |-> FALSE,
                                    catching |-> FALSE, failed |-> FALSE]]
  BY DEF Init
<1>2. DOMAIN <<>> = {}
  OBVIOUS
<1>3. HostTypes /\ MuxTypes /\ CountTypes
  <2>1. \A S : <<>> \in Seq(S)
    OBVIOUS
  <2>2. lines \in [Conns -> Seq(LinkLines \union {Closing})]
    BY <1>1, <2>1
  <2>3. toHost \in Seq(ToHost) /\ fromHost \in Seq(FromHost) /\ ~host.subscribed
    BY <1>1, <2>1
  <2>4. /\ host \in [place : {"none", "viewed", "parked"}, cached : BOOLEAN, subscribed : BOOLEAN]
        /\ ~host.cached
    BY <1>1
  <2>5. HostTypes
    BY <1>1, <2>3, <2>4, RowFacts, Zenon DEF HostTypes
  <2>6. MuxTypes
    BY <1>1, <2>2 DEF MuxTypes
  <2>7. CountTypes
    BY <1>1, RowFacts DEF CountTypes
  <2> QED BY <2>5, <2>6, <2>7
<1>4. ClientTypes
  <2>1. \A S : <<>> \in Seq(S)
    OBVIOUS
  <2>2. inbox \in [Clients -> Seq(ToClient)]
    BY <1>1, <2>1
  <2>3. [up |-> TRUE, epoch |-> 0, wants |-> FALSE, after |-> None, awaits |-> None,
         asked |-> 0, out |-> None] \in Links
    BY DEF Links, Cursors
  <2>4. [scoped |-> TRUE, held |-> None, baseline |-> FALSE, catching |-> FALSE,
         failed |-> FALSE] \in Stores
    BY DEF Stores
  <2> QED BY <1>1, <2>2, <2>3, <2>4 DEF ClientTypes
<1>5. Asking = {} /\ Waiting = {} /\ InHand = {} /\ Flight = {} /\ Unique /\ Waiters = <<>>
  BY <1>1, <1>2 DEF Asking, Waiting, InHand, Flight, Unique, Waiters, RequestsAt, Replied,
    Tells, Asks, Told, Answers, OneEach
<1>6. LinksFit /\ AllLinesFit /\ FlightsFit
  BY <1>1, <1>2, <1>5 DEF LinksFit, AllLinesFit, FlightsFit, LinkFits, LinesFit
<1>7. MuxFits
  BY <1>1, <1>2, <1>5 DEF MuxFits, Serving, Asks
<1>8. OrderFits
  BY <1>1, <1>2 DEF OrderFits, ClientOrdered, Ordered, WellMade, Rising, Within,
    AllPrecede, Precedes, Events
<1> QED BY <1>3, <1>4, <1>5, <1>6, <1>7, <1>8 DEF Flow, Types, Routes

LEMMA NextFlow ==
  ASSUME Flow, [Next]_vars
  PROVE  Flow'
<1>1. CASE Next
  BY <1>1, HostFlow, MuxFlow, ClientFlow DEF Next
<1>2. CASE UNCHANGED vars
  <2>1. UNCHANGED <<log, host, hydration, shown, gap, toHost, fromHost, topics, pending, deferred,
                    lines, inbox, link, store, asks, upsets>>
    BY <1>2 DEF vars, served, mux, counts
  <2>2. HostTypes /\ Unique /\ UNCHANGED <<log, served, toHost, fromHost>>
    BY <2>1 DEF Flow, Types, Routes, served
  <2>3. HostTypes' /\ Sent' = Sent /\ Kept /\ \A r : r \in InHand' <=> r \in InHand
    BY <2>2, HostStill
  <2>4. MuxFits'
    BY <2>1, <2>3, MuxStill DEF Flow, Routes, mux
  <2>5. LinksFit' /\ AllLinesFit' /\ FlightsFit'
    BY <2>1, <2>3, StillFits DEF Flow, Routes, Kept
  <2>6. MuxTypes' /\ ClientTypes' /\ CountTypes'
    BY <2>1 DEF Flow, Types, MuxTypes, ClientTypes, CountTypes
  <2>7. OrderFits'
    BY <2>1, <2>3 DEF Flow, OrderFits, ClientOrdered
  <2> QED BY <2>3, <2>4, <2>5, <2>6, <2>7 DEF Flow, Types, Routes, Kept
<1> QED BY <1>1, <1>2

\* Every request is in one place, the host serves the topic while a connection has it
\* or is about to, and rows travel in order: the inductive invariant of the topic.
THEOREM FlowHolds == Spec => []Flow
<1>1. Init => Flow
  BY InitFlow
<1>2. Flow /\ [Next]_vars => Flow'
  BY NextFlow
<1> QED BY <1>1, <1>2, PTL DEF Spec

-------------------------------------------------------------------------------
(* What the runs check *)

\* Every variable keeps its type, the log is never both in memory and being read,
\* and only the newest answer asked for is current, for any number of clients.
THEOREM TypesHold == Spec => []TypeOK
<1>1. Flow => TypeOK
  <2> SUFFICES ASSUME Flow PROVE TypeOK
    OBVIOUS
  <2>1. /\ HostTypes /\ MuxTypes /\ ClientTypes /\ CountTypes /\ LinksFit /\ OrderFits
    BY DEF Flow, Types, Routes
  <2>2. hydration = None \/ hydration \in [cut : 0..log, live : BOOLEAN, replies : Seq(Asked)]
    <3> SUFFICES ASSUME hydration # None
                 PROVE  hydration \in [cut : 0..log, live : BOOLEAN, replies : Seq(Asked)]
      OBVIOUS
    <3>1. hydration \in Hydrations /\ hydration.cut <= log /\ log \in Nat
      BY <2>1, RowFacts DEF HostTypes
    <3>2. hydration.cut \in 0..log
      BY <3>1 DEF Hydrations
    <3> QED BY <3>1, <3>2 DEF Hydrations
  <2>3. ToSet(toHost) \subseteq Subscribing(Requests) \union {Unsubscribing}
    BY <2>1, SequenceElements DEF HostTypes, ToHost, ToSet
  <2>4. \A i \in DOMAIN fromHost :
          /\ fromHost[i].kind \in {"event", "window", "ack", "refused", "failed"}
          /\ (fromHost[i].kind = "event") = (fromHost[i].request = None)
    <3> SUFFICES ASSUME NEW i \in DOMAIN fromHost
                 PROVE  /\ fromHost[i].kind \in {"event", "window", "ack", "refused", "failed"}
                        /\ (fromHost[i].kind = "event") = (fromHost[i].request = None)
      OBVIOUS
    <3>1. fromHost[i] \in FromHost
      BY <2>1, SequenceElements DEF HostTypes
    <3> QED BY <3>1, NoneFacts DEF FromHost
  <2>5. ASSUME NEW c \in Clients
        PROVE  /\ link[c].up \in BOOLEAN /\ Conn(c) \in Conns /\ link[c].wants \in BOOLEAN
               /\ link[c].after \in Cursors
               /\ link[c].awaits # None => link[c].wants /\ link[c].awaits = link[c].asked
               /\ store[c].baseline => store[c].held # None /\ link[c].wants
    <3>1. /\ link[c].up \in BOOLEAN /\ link[c].wants \in BOOLEAN /\ link[c].after \in Cursors
          /\ link[c].epoch \in Nat /\ upsets \in Nat /\ upsets <= MaxUpsets
      BY LineTypes, RowFacts DEF Flow, Types, CountTypes
    <3>2. LinkFits(link[c], upsets) /\ ClientOrdered(c)
      BY <2>1 DEF LinksFit, OrderFits
    <3>3. link[c].epoch \in 0..MaxUpsets
      BY <3>1, <3>2, RowFacts DEF LinkFits
    <3> QED BY <3>1, <3>2, <3>3 DEF LinkFits, ClientOrdered, Conn, Conns
  <2> QED BY <2>1, <2>2, <2>3, <2>4, <2>5 DEF TypeOK, HostTypes, MuxTypes, CountTypes
<1> QED BY <1>1, FlowHolds, PTL

\* The mux never sends the topic to a connection while the host does not send it
\* or is about to be told to stop, whatever the other connections ask for, however
\* their lines and answers cross, and whichever of them end meanwhile.
THEOREM SubscribersAreServed == Spec => []SubscriberIsServed
<1>1. Flow => SubscriberIsServed
  <2> SUFFICES ASSUME Flow, topics # {}
               PROVE  host.subscribed /\ \A i \in DOMAIN toHost : toHost[i].kind = "subscribe"
    BY DEF SubscriberIsServed
  <2>1. host.subscribed /\ Releases(toHost) = {} /\ toHost \in Seq(ToHost)
    BY DEF Flow, Routes, MuxFits, Serving, Types, HostTypes
  <2>2. ASSUME NEW i \in DOMAIN toHost
        PROVE  toHost[i].kind = "subscribe"
    <3>1. toHost[i] \in ToHost /\ i \notin Releases(toHost)
      BY <2>1, SequenceElements
    <3> QED BY <3>1 DEF ToHost, Subscribing, Unsubscribing, Line, Releases
  <2> QED BY <2>1, <2>2
<1> QED BY <1>1, FlowHolds, PTL

\* Once every line has arrived and every request is answered, the host sends the
\* topic only if some connection has it: a release that was put off is made up for.
THEOREM NothingStaysOn == Spec => []NothingIsLeftOn
<1>1. Flow => NothingIsLeftOn
  <2> SUFFICES ASSUME Flow, toHost = <<>>, pending = {}, host.subscribed, topics = {}
               PROVE  FALSE
    BY DEF NothingIsLeftOn
  <2>1. Serving
    BY DEF Serving, Releases
  <2> QED BY <2>1 DEF Flow, Routes, MuxFits
<1> QED BY <1>1, FlowHolds, PTL

===============================================================================
