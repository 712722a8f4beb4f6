------------------------------ MODULE ReplicaProofs ------------------------------
(***************************************************************************)
(* A replica is the log's rows, proved for every value of the constants    *)
(* but "lag": the store applies what it was sent before the connection     *)
(* is made anew, and a connection's scope before that one ends.            *)
(*                                                                         *)
(* A live event does not say which row it is; the client counts.  That it  *)
(* counts right is a fact about everything that will reach it: from each   *)
(* Source, the replica with its baseline or the window it waits for, the   *)
(* events behind that go on row by row up to what the host has sent        *)
(* (CoverFits).  StepFits says what makes the sources right: the scope of  *)
(* a connection comes first, a store with its baseline waits for nothing,  *)
(* and a source's connection is among the subscribers, so that no event    *)
(* passes it by.                                                           *)
(***************************************************************************)
EXTENDS SubscriptionsProofs

-------------------------------------------------------------------------------
(* The invariant *)

InStep == "lag" \notin Upsets

\* The event of a row is in s after place i.
Has(s, i, row) == \E k \in Events(s) : i < k /\ s[k].end = row

HasScope(c) == inbox[c] # <<>> /\ Head(inbox[c]).kind = "scope"
Awaited(l, m) == m.kind = "window" /\ l.awaits # None /\ m.request = l.awaits
AwaitedOn(c, m) ==
  /\ link[c].up /\ link[c].awaits # None
  /\ m.kind = "window" /\ m.request = [conn |-> Conn(c), id |-> link[c].awaits]

\* What the events after place i of c's inbox follow: the replica with its
\* baseline, whose end is row p, or the window there that is awaited.
Source(c, i, p) ==
  \/ i = 0 /\ store[c].baseline /\ ~HasScope(c) /\ p = HeldEnd(store[c].held)
  \/ i \in DOMAIN inbox[c] /\ Awaited(link[c], inbox[c][i]) /\ p = inbox[c][i].total

\* The scope is the first that a connection sends, a store with its baseline waits for
\* no answer but behind the scope, and answers are to what was asked.
Marked(c) ==
  /\ \A i \in DOMAIN inbox[c] : inbox[c][i].kind = "scope" =>
       i = 1 /\ link[c].up /\ inbox[c][i].request = link[c].epoch
  /\ store[c].baseline => ~store[c].catching /\ (link[c].awaits # None => HasScope(c))
  /\ \A i \in DOMAIN inbox[c] : inbox[c][i].kind \in {"window", "failed", "refused"} =>
       inbox[c][i].request <= link[c].asked

StepFits(c) ==
  /\ Marked(c)
  /\ \A r \in Flight : link[c].up /\ r.conn = Conn(c) /\ r.id = link[c].awaits => r \in pending
  /\ \A i, p \in Nat : link[c].up /\ Source(c, i, p) => Conn(c) \in topics /\ shown

ShownFits == \A i \in DOMAIN fromHost :
  fromHost[i].kind = "window" /\ fromHost[i].request \in pending => shown

\* The rows after p are all there, up to the last event and up to what was sent.
Continues(c, i, p) == \A j \in Events(inbox[c]), row \in Nat :
  i < j /\ p < row /\ row <= inbox[c][j].end => Has(inbox[c], i, row)
Reaches(c, i, p) == \A row \in Nat :
  p < row /\ row <= Sent => Has(inbox[c], i, row) \/ Has(fromHost, 0, row)
Follows(c, i) == \A row \in Nat :
  fromHost[i].total < row /\ row <= Sent => Has(fromHost, i, row)
Exact(held) == held # None => held.rows = Span(held.from, HeldEnd(held))

CoverFits(c) ==
  /\ \A i, p \in Nat : Source(c, i, p) => Continues(c, i, p) /\ (link[c].up => Reaches(c, i, p))
  /\ \A i \in DOMAIN fromHost : AwaitedOn(c, fromHost[i]) => Follows(c, i)
  /\ Exact(store[c].held)

ReplicaFits == ShownFits /\ \A c \in Clients : StepFits(c) /\ (gap \/ CoverFits(c))

-------------------------------------------------------------------------------
(* Events in sequences *)

LEMMA HasTail ==
  ASSUME NEW S, NEW s \in Seq(S), s # <<>>, NEW row
  PROVE  /\ \A i \in Nat : Has(s, i + 1, row) => Has(Tail(s), i, row)
         /\ Has(s, 0, row) /\ (Head(s).kind = "event" => Head(s).end # row)
              => Has(Tail(s), 0, row)
<1> DEFINE t == Tail(s)
<1>1. /\ DOMAIN s = 1..Len(s) /\ Len(s) \in Nat \ {0} /\ DOMAIN t = 1..(Len(s) - 1)
      /\ Head(s) = s[1] /\ \A i \in 1..(Len(s) - 1) : t[i] = s[i + 1]
  BY TailElements
<1> HIDE DEF t
<1>2. \A k \in DOMAIN s : k # 1 => k - 1 \in DOMAIN t /\ t[k - 1] = s[k] /\ 0 < k - 1
  BY <1>1
<1>3. ASSUME NEW i \in Nat, Has(s, i + 1, row)
      PROVE  Has(t, i, row)
  <2>1. PICK k \in Events(s) : i + 1 < k /\ s[k].end = row
    BY <1>3 DEF Has
  <2>2. k \in DOMAIN s /\ k # 1 /\ i < k - 1
    BY <1>1, <2>1 DEF Events
  <2>3. k - 1 \in Events(t) /\ t[k - 1].end = row
    BY <1>2, <2>1, <2>2 DEF Events
  <2> QED BY <2>2, <2>3 DEF Has
<1>4. ASSUME Has(s, 0, row), s[1].kind = "event" => s[1].end # row
      PROVE  Has(t, 0, row)
  <2>1. PICK k \in Events(s) : s[k].end = row
    BY <1>4 DEF Has
  <2>2. k \in DOMAIN s /\ k # 1
    BY <1>4, <2>1 DEF Events
  <2>3. k - 1 \in Events(t) /\ t[k - 1].end = row /\ 0 < k - 1
    BY <1>2, <2>1, <2>2 DEF Events
  <2> QED BY <2>3 DEF Has
<1> QED BY <1>1, <1>3, <1>4 DEF t

LEMMA HasAppend ==
  ASSUME NEW S, NEW s \in Seq(S), NEW e \in S
  PROVE  /\ \A i, row : Has(s, i, row) => Has(Append(s, e), i, row)
         /\ \A j \in Events(Append(s, e)) :
              \/ j \in Events(s) /\ Append(s, e)[j] = s[j]
              \/ j = Len(s) + 1 /\ Append(s, e)[j] = e /\ e.kind = "event"
         /\ e.kind = "event" => \A i \in Nat : i <= Len(s) => Has(Append(s, e), i, e.end)
<1> DEFINE t == Append(s, e)
<1>1. /\ DOMAIN t = 1..(Len(s) + 1) /\ DOMAIN s = 1..Len(s) /\ Len(s) \in Nat
      /\ \A i \in DOMAIN s : t[i] = s[i]
      /\ t[Len(s) + 1] = e
  BY AppendElements, SequenceElements
<1> HIDE DEF t
<1>2. \A k \in Events(s) : k \in Events(t) /\ t[k].end = s[k].end
  BY <1>1 DEF Events
<1>3. \A j \in Events(t) : \/ j \in Events(s) /\ t[j] = s[j]
                           \/ j = Len(s) + 1 /\ t[j] = e /\ e.kind = "event"
  BY <1>1 DEF Events
<1>4. ASSUME e.kind = "event", NEW i \in Nat, i <= Len(s)
      PROVE  Has(t, i, e.end)
  <2>1. Len(s) + 1 \in Events(t) /\ i < Len(s) + 1
    BY <1>1, <1>4 DEF Events
  <2> QED BY <1>1, <2>1 DEF Has
<1>5. \A i, row : Has(s, i, row) => Has(t, i, row)
  BY <1>2 DEF Has
<1> QED BY <1>3, <1>4, <1>5 DEF t

LEMMA HasConcat ==
  ASSUME NEW S, NEW s \in Seq(S), NEW t \in Seq(S)
  PROVE  /\ \A i, row : Has(s, i, row) => Has(s \o t, i, row)
         /\ \A i \in Nat, j \in Nat : \A row :
              Has(t, i, row) /\ j <= Len(s) + i => Has(s \o t, j, row)
<1> DEFINE u == s \o t
<1>1. /\ \A i \in DOMAIN s : i \in DOMAIN u /\ u[i] = s[i]
      /\ \A i \in DOMAIN t : Len(s) + i \in DOMAIN u /\ u[Len(s) + i] = t[i]
      /\ Len(s) \in Nat /\ Len(t) \in Nat /\ DOMAIN t = 1..Len(t)
  BY ConcatElements, SequenceElements
<1> HIDE DEF u
<1>2. \A i, row : Has(s, i, row) => Has(u, i, row)
  BY <1>1 DEF Has, Events
<1>3. ASSUME NEW i \in Nat, NEW j \in Nat, NEW row, Has(t, i, row), j <= Len(s) + i
      PROVE  Has(u, j, row)
  <2>1. PICK k \in Events(t) : i < k /\ t[k].end = row
    BY <1>3 DEF Has
  <2>2. k \in DOMAIN t /\ k \in Nat /\ t[k].kind = "event"
    BY <1>1, <2>1 DEF Events
  <2>3. Len(s) + k \in Events(u) /\ u[Len(s) + k].end = row
    BY <1>1, <2>1, <2>2 DEF Events
  <2>4. j < Len(s) + k
    BY <1>1, <1>3, <2>1, <2>2
  <2> QED BY <2>3, <2>4 DEF Has
<1> QED BY <1>2, <1>3 DEF u

\* The first event after a place where all rows after p are there is row p + 1.
LEMMA HasFirst ==
  ASSUME NEW s, NEW n, NEW p \in Nat, DOMAIN s \subseteq Nat \ {0}, Ordered(s, n), 1 \in Events(s),
         \A i \in DOMAIN s : s[i].total \in Nat, p < s[1].total, Has(s, 0, p + 1)
  PROVE  s[1].end = p + 1 /\ s[1].total = p + 1
<1>1. PICK k \in Events(s) : s[k].end = p + 1
  BY DEF Has
<1>2. k \in DOMAIN s /\ k \in Nat \ {0} /\ 1 \in DOMAIN s
  BY <1>1 DEF Events
<1>3. s[k].total = p + 1 /\ s[1].end = s[1].total
  BY <1>1, <1>2 DEF Ordered, WellMade, Events
<1>4. 1 < k => s[1].total < s[k].total
  BY <1>1, <1>2 DEF Ordered, Rising
<1>5. s[1].total \in Nat
  BY <1>2
<1>6. k = 1
  BY <1>2, <1>3, <1>4, <1>5
<1> QED BY <1>3, <1>6

LEMMA FilledHas ==
  ASSUME NEW t, NEW i, NEW p \in Nat, NEW n \in Nat, Filled(t, i, Len(t), p, n),
         NEW row \in Nat, p < row, row <= n
  PROVE  Has(t, i, row)
<1>1. row \in (p + 1)..n
  OBVIOUS
<1> QED BY <1>1 DEF Filled, Has

LEMMA AwaitedFlight ==
  ASSUME Flow, ReplicaFits, NEW c \in Clients, NEW i \in DOMAIN fromHost,
         AwaitedOn(c, fromHost[i])
  PROVE  /\ fromHost[i].request \in Flight /\ fromHost[i].request \in pending /\ shown
         /\ fromHost[i].request \in InHand
<1>1. fromHost[i].kind = "window"
  BY DEF AwaitedOn
<1>2. i \in Told(fromHost) /\ i \in Answers(fromHost)
  BY <1>1 DEF Told, Answers
<1>3. fromHost[i].request \in Flight /\ fromHost[i].request \in InHand
  BY <1>2 DEF Flight, Tells, InHand, Replied, RequestsAt
<1>4. fromHost[i].request \in pending
  BY <1>3 DEF AwaitedOn, ReplicaFits, StepFits, Marked
<1> QED BY <1>1, <1>3, <1>4 DEF ReplicaFits, ShownFits

\* What the host says keeps every client covered.
LEMMA HostFits ==
  ASSUME Flow, ReplicaFits, NEW t, Says(t), UNCHANGED <<topics, pending, inbox, link, store>>,
         \A r \in Flight' : r \in Flight, gap => gap',
         shown => shown' \/ (topics = {} /\ \A r \in InHand : r \notin pending)
  PROVE  ReplicaFits'
<1>1. /\ t \in Seq(FromHost) /\ fromHost' = fromHost \o t /\ fromHost \in Seq(FromHost)
      /\ Sent \in Nat /\ Sent' \in Nat /\ Sent <= Sent' /\ Carries(t)
  BY RowFacts DEF Says, Flow, Types, HostTypes
<1>2. /\ \A i \in DOMAIN fromHost : /\ fromHost'[i] = fromHost[i] /\ i \in DOMAIN fromHost'
                                    /\ i \in Nat /\ i <= Len(fromHost)
      /\ \A i \in DOMAIN fromHost' :
           \/ i \in DOMAIN fromHost
           \/ /\ i - Len(fromHost) \in DOMAIN t /\ fromHost'[i] = t[i - Len(fromHost)]
              /\ i = Len(fromHost) + (i - Len(fromHost)) /\ i - Len(fromHost) \in Nat
              /\ i \in Nat
      /\ Len(fromHost) \in Nat
  <2>1. /\ DOMAIN fromHost = 1..Len(fromHost) /\ DOMAIN t = 1..Len(t)
        /\ Len(fromHost) \in Nat /\ Len(t) \in Nat
        /\ DOMAIN fromHost' = 1..(Len(fromHost) + Len(t))
        /\ \A i \in DOMAIN fromHost : fromHost'[i] = fromHost[i]
        /\ \A i \in DOMAIN fromHost' :
             \/ i \in DOMAIN fromHost /\ fromHost'[i] = fromHost[i]
             \/ i - Len(fromHost) \in DOMAIN t /\ fromHost'[i] = t[i - Len(fromHost)]
    BY <1>1, ConcatElements, SequenceElements
  <2> QED BY <2>1
<1>3. /\ \A i, row : Has(fromHost, i, row) => Has(fromHost', i, row)
      /\ \A i \in Nat, j \in Nat : \A row :
           Has(t, i, row) /\ j <= Len(fromHost) + i => Has(fromHost', j, row)
  BY <1>1, HasConcat
<1>4. \A i \in DOMAIN t : t[i].kind = "window" => shown' /\ Filled(t, i, Len(t), t[i].total, Sent')
  BY <1>1 DEF Carries
<1>5. ShownFits'
  <2> SUFFICES ASSUME NEW i \in DOMAIN fromHost', fromHost'[i].kind = "window",
                      fromHost'[i].request \in pending'
               PROVE  shown'
    BY DEF ShownFits
  <2>1. CASE i \in DOMAIN fromHost
    <3>1. /\ fromHost[i].kind = "window" /\ fromHost[i].request \in pending
          /\ fromHost[i].request \in InHand
      BY <1>2, <2>1 DEF InHand, Replied, RequestsAt, Answers
    <3>2. shown
      BY <2>1, <3>1 DEF ReplicaFits, ShownFits
    <3> QED BY <3>1, <3>2
  <2>2. CASE i \notin DOMAIN fromHost
    BY <1>2, <1>4, <2>2
  <2> QED BY <2>1, <2>2
<1> SUFFICES ASSUME NEW c \in Clients
             PROVE  (StepFits(c) /\ (gap \/ CoverFits(c)))'
  BY <1>5 DEF ReplicaFits
<1>6. StepFits(c) /\ (gap \/ CoverFits(c))
  BY DEF ReplicaFits
<1>7. \A i, p : Source(c, i, p)' <=> Source(c, i, p)
  BY DEF Source, HasScope, Awaited
<1>8. Conn(c)' = Conn(c) /\ \A m : AwaitedOn(c, m)' <=> AwaitedOn(c, m)
  BY DEF AwaitedOn, Conn
<1>9. StepFits(c)'
  <2>1. \A i, p \in Nat : link[c].up /\ Source(c, i, p) => Conn(c) \in topics /\ shown'
    BY <1>6 DEF StepFits, Marked
  <2>2. (store[c].baseline => ~store[c].catching /\ (link[c].awaits # None => HasScope(c)))'
    BY <1>6 DEF StepFits, Marked, HasScope
  <2> QED BY <1>6, <1>7, <1>8, <2>1, <2>2 DEF StepFits, Marked
<1> SUFFICES ASSUME ~gap'
             PROVE  CoverFits(c)'
  BY <1>9
<1>10. CoverFits(c)
  BY <1>6
<1>11. ASSUME shown, NEW row \in Nat, Sent < row, row <= Sent'
       PROVE  Has(t, 0, row)
  <2>1. Filled(t, 0, Len(t), Sent, Sent')
    BY <1>1, <1>11 DEF Carries
  <2> QED BY <1>1, <1>11, <2>1, FilledHas
<1>12. ASSUME NEW i \in Nat, NEW p \in Nat, Source(c, i, p)'
       PROVE  Continues(c, i, p)' /\ (link[c].up => Reaches(c, i, p))'
  <2>1. Source(c, i, p) /\ Continues(c, i, p) /\ (link[c].up => Reaches(c, i, p))
    BY <1>7, <1>10, <1>12 DEF CoverFits
  <2>2. Continues(c, i, p)'
    BY <2>1 DEF Continues
  <2>3. ASSUME link[c].up, NEW row \in Nat, p < row, row <= Sent'
        PROVE  Has(inbox[c], i, row) \/ Has(fromHost', 0, row)
    <3>1. CASE row <= Sent
      BY <1>3, <2>1, <2>3, <3>1 DEF Reaches
    <3>2. CASE Sent < row
      <4>1. Has(t, 0, row)
        BY <1>6, <1>11, <2>1, <2>3, <3>2 DEF StepFits, Marked
      <4> QED BY <1>2, <1>3, <4>1
    <3> QED BY <1>1, <2>3, <3>1, <3>2
  <2> QED BY <2>2, <2>3 DEF Reaches
<1>13. ASSUME NEW i \in DOMAIN fromHost', AwaitedOn(c, fromHost[i])'
       PROVE  Follows(c, i)'
  <2> SUFFICES ASSUME NEW row \in Nat, fromHost'[i].total < row, row <= Sent'
               PROVE  Has(fromHost', i, row)
    BY DEF Follows
  <2>1. CASE i \in DOMAIN fromHost
    <3>1. AwaitedOn(c, fromHost[i]) /\ fromHost[i].total < row
      BY <1>2, <1>13, <2>1 DEF AwaitedOn, Conn
    <3>2. CASE row <= Sent
      BY <1>3, <1>10, <2>1, <3>1, <3>2 DEF CoverFits, Follows
    <3>3. CASE Sent < row
      <4>1. Has(t, 0, row)
        BY <1>11, <2>1, <3>1, <3>3, AwaitedFlight
      <4> QED BY <1>2, <1>3, <2>1, <4>1
    <3> QED BY <1>1, <3>2, <3>3
  <2>2. CASE i \notin DOMAIN fromHost
    <3> DEFINE k == i - Len(fromHost)
    <3>1. /\ k \in DOMAIN t /\ k \in Nat /\ i = Len(fromHost) + k /\ i \in Nat
          /\ fromHost'[i] = t[k]
      BY <1>2, <2>2
    <3>2. fromHost'[i].kind = "window"
      BY <1>13 DEF AwaitedOn
    <3>3. t[k].total \in Nat
      BY <1>1, <3>1, SequenceElements, TotalFacts
    <3> HIDE DEF k
    <3>4. Filled(t, k, Len(t), t[k].total, Sent')
      BY <1>4, <3>1, <3>2
    <3>5. Has(t, k, row)
      BY <1>1, <3>1, <3>3, <3>4, FilledHas
    <3> QED BY <1>2, <1>3, <3>1, <3>5
  <2> QED BY <2>1, <2>2
<1>14. Exact(store[c].held)'
  BY <1>10 DEF CoverFits, Exact, HeldEnd, Span
<1> QED BY <1>12, <1>13, <1>14 DEF CoverFits

LEMMA HostReplica ==
  ASSUME Flow, ReplicaFits, Host
  PROVE  ReplicaFits'
<1>1. HostTypes /\ Unique /\ MuxFits
  BY DEF Flow, Types, Routes
<1>2. UNCHANGED <<topics, pending, inbox, link, store>> /\ (gap => gap')
  <2>1. CASE RecordEvent
    BY <2>1 DEF RecordEvent, mux
  <2>5. CASE HostTakes
    BY <2>5 DEF HostTakes, mux
  <2>6. CASE LoadBackground \/ Evict \/ Archive \/ ReleaseLog
    BY <2>6 DEF LoadBackground, Evict, Archive, ReleaseLog, mux
  <2>2. CASE TailRead
    BY <2>2 DEF TailRead, mux
  <2>3. CASE FinishHydration
    <3>1. PICK live \in BOOLEAN : gap' = (gap \/ (live /\ HeldBack))
      BY <2>3 DEF FinishHydration
    <3> QED BY <2>3, <3>1 DEF FinishHydration, mux
  <2>4. CASE FailHydration
    BY <2>4 DEF FailHydration, mux
  <2> QED BY <2>1, <2>2, <2>3, <2>4, <2>5, <2>6 DEF Host
<1>3. ASSUME SendsRows, shown => shown'
      PROVE  ReplicaFits'
  <2>1. Kept
    BY <1>1, <1>3, SendsRowsKeeps
  <2>2. PICK t : Says(t)
    BY <1>3 DEF SendsRows
  <2> QED BY <1>2, <1>3, <2>1, <2>2, HostFits DEF Kept
<1>4. ASSUME NEW i, NEW m, AnswersOne(i, m), shown => shown'
      PROVE  ReplicaFits'
  <2>1. Kept /\ Says(<<m>>)
    BY <1>1, <1>4, AnswersOneKeeps DEF AnswersOne
  <2> QED BY <1>2, <1>4, <2>1, HostFits DEF Kept
<1>5. ASSUME NEW t, AnswersAll(t), shown => shown'
      PROVE  ReplicaFits'
  <2>1. Kept /\ Says(t)
    BY <1>1, <1>5, AnswersAllKeeps DEF AnswersAll
  <2> QED BY <1>2, <1>5, <2>1, HostFits DEF Kept
<1>6. CASE RecordEvent
  <2>1. toHost' = toHost /\ shown' = shown
    BY <1>6 DEF RecordEvent
  <2>2. SendsRows
    BY <1>1, <1>6, <2>1, RecordEventSays DEF SendsRows
  <2> QED BY <1>3, <2>1, <2>2
<1>7. CASE HostTakes
  <2>1. ASSUME NEW m, AnswersHead(m), shown => shown'
        PROVE  ReplicaFits'
    <3>1. Kept /\ Says(<<m>>)
      BY <1>1, <2>1, AnswersHeadKeeps DEF AnswersHead
    <3> QED BY <1>2, <2>1, <3>1, HostFits DEF Kept
  <2>2. ASSUME NEW reply, HeadWaits(reply), shown => shown'
        PROVE  ReplicaFits'
    <3>1. Kept /\ Says(<<>>)
      BY <1>1, <2>2, HeadWaitsKeeps DEF HeadWaits
    <3> QED BY <1>2, <2>2, <3>1, HostFits DEF Kept
  <2>3. CASE TakesRelease
    <3>1. Kept /\ Says(<<>>)
      BY <1>1, <2>3, TakesReleaseKeeps DEF TakesRelease
    <3>2. 1 \in Releases(toHost)
      BY <1>1, <2>3, LinesTail DEF TakesRelease, HostTypes
    <3>3. ~Serving
      BY <3>2 DEF Serving
    <3>4. topics = {} /\ \A r \in InHand : r \notin pending
      BY <1>1, <3>3 DEF MuxFits
    <3> QED BY <1>2, <3>1, <3>4, HostFits DEF Kept
  <2> QED BY <1>1, <1>7, <2>1, <2>2, <2>3, HostTakesSays
<1>8. CASE TailRead
  BY <1>1, <1>3, <1>4, <1>8, TailReadSays
<1>9. CASE FinishHydration
  BY <1>1, <1>5, <1>9, FinishHydrationSays
<1>10. CASE FailHydration
  BY <1>1, <1>5, <1>10, FailHydrationSays
<1>11. CASE LoadBackground \/ Evict \/ Archive \/ ReleaseLog
  BY <1>1, <1>3, <1>11, ResidencySays
<1> QED BY <1>6, <1>7, <1>8, <1>9, <1>10, <1>11 DEF Host

-------------------------------------------------------------------------------
(* The mux keeps the invariant *)

\* The mux reads a line: no client that is up and wants the topic loses anything.
LEMMA LineFits ==
  ASSUME Flow, ReplicaFits,
         UNCHANGED <<hydration, log, fromHost, inbox, store, shown, gap>>,
         \A c \in Clients : /\ link'[c].up = link[c].up /\ link'[c].epoch = link[c].epoch
                            /\ link'[c].awaits = link[c].awaits /\ link'[c].asked = link[c].asked,
         \/ \E q : Adds(q)
         \/ \E conn : Leaves(conn) /\ \A c \in Clients :
              link[c].up /\ link[c].wants => Conn(c) # conn
  PROVE  ReplicaFits'
<1>1. Sent' = Sent
  BY DEF Sent
<1>2. \A i \in DOMAIN fromHost : fromHost[i].kind = "window" => fromHost[i].request \in Flight
  BY DEF Flight, Tells, RequestsAt, Told
<1>3. \A r \in pending' : r \in pending \/ r \notin Flight
  BY DEF Adds, Leaves
<1>4. ShownFits'
  BY <1>2, <1>3 DEF ReplicaFits, ShownFits
<1> SUFFICES ASSUME NEW c \in Clients
             PROVE  (StepFits(c) /\ (gap \/ CoverFits(c)))'
  BY <1>4 DEF ReplicaFits
<1>5. /\ StepFits(c) /\ (gap \/ CoverFits(c))
      /\ link'[c].up = link[c].up /\ link'[c].awaits = link[c].awaits
      /\ link'[c].asked = link[c].asked /\ link'[c].epoch = link[c].epoch /\ Conn(c)' = Conn(c)
  BY DEF ReplicaFits, Conn
<1>6. \A i, p : Source(c, i, p)' <=> Source(c, i, p)
  BY <1>5 DEF Source, HasScope, Awaited
<1>7. \A i, p : Source(c, i, p) => link[c].wants
  <2>1. LinkFits(link[c], upsets) /\ ClientOrdered(c)
    BY DEF Flow, Routes, LinksFit, OrderFits
  <2> QED BY <2>1 DEF Source, Awaited, LinkFits, ClientOrdered
<1>8. link[c].awaits # None => link[c].wants
  BY DEF Flow, Routes, LinksFit, LinkFits
<1>9. \A i, p \in Nat : link[c].up /\ Source(c, i, p) => Conn(c) \in topics'
  BY <1>5, <1>7 DEF StepFits, Marked, Adds, Leaves
<1>10. \A r \in Flight' : link[c].up /\ r.conn = Conn(c) /\ r.id = link[c].awaits => r \in pending'
  <2> SUFFICES ASSUME NEW r \in Flight', link[c].up, r.conn = Conn(c), r.id = link[c].awaits
               PROVE  r \in pending'
    OBVIOUS
  <2>1. CASE r \in Flight
    <3>1. r \in pending
      BY <1>5, <2>1 DEF StepFits, Marked
    <3>2. r \in Requests /\ r.id \in Nat
      BY <2>1, FlightTypes DEF Flow, Types
    <3>3. link[c].wants
      BY <1>8, <3>2, NoneFacts
    <3> QED BY <3>1, <3>3 DEF Adds, Leaves
  <2>2. CASE r \notin Flight
    BY <2>2 DEF Adds, Leaves
  <2> QED BY <2>1, <2>2
<1>11. StepFits(c)'
  <2>1. (store[c].baseline => ~store[c].catching /\ (link[c].awaits # None => HasScope(c)))'
    BY <1>5 DEF StepFits, Marked, HasScope
  <2>2. \A i, p \in Nat : (link[c].up /\ Source(c, i, p) => Conn(c) \in topics /\ shown)'
    BY <1>5, <1>6, <1>9 DEF StepFits, Marked
  <2>3. \A r \in Flight' : (link[c].up /\ r.conn = Conn(c) /\ r.id = link[c].awaits
                              => r \in pending)'
    BY <1>5, <1>10
  <2> QED BY <1>5, <2>1, <2>2, <2>3 DEF StepFits, Marked
<1>12. CoverFits(c) => CoverFits(c)'
  <2>1. \A i, p : /\ Continues(c, i, p) => Continues(c, i, p)'
                  /\ Reaches(c, i, p) => Reaches(c, i, p)'
    BY <1>1 DEF Continues, Reaches
  <2>2. \A i \in DOMAIN fromHost : /\ AwaitedOn(c, fromHost[i])' => AwaitedOn(c, fromHost[i])
                                   /\ Follows(c, i) => Follows(c, i)'
    BY <1>1, <1>5 DEF AwaitedOn, Follows
  <2>3. Exact(store[c].held) => Exact(store[c].held)'
    BY DEF Exact, HeldEnd, Span
  <2>4. fromHost' = fromHost
    OBVIOUS
  <2> QED BY <1>5, <1>6, <2>1, <2>2, <2>3, <2>4 DEF CoverFits
<1> QED BY <1>5, <1>11, <1>12

LEMMA MuxLineReplica ==
  ASSUME Flow, ReplicaFits,
         (\E c \in Clients : MuxTakesLine(c)) \/ (\E conn \in Conns : MuxTakesRest(conn))
  PROVE  ReplicaFits'
<1>1. ASSUME NEW c \in Clients, MuxTakesLine(c)
      PROVE  ReplicaFits'
  <2>1. /\ link[c].out # None /\ link[c].up /\ link' = [link EXCEPT ![c].out = None]
        /\ UNCHANGED <<hydration, log, fromHost, inbox, store, shown, gap>>
    BY <1>1 DEF MuxTakesLine, served
  <2>2. link \in [Clients -> Links] /\ link[c].out \in LinkLines \union {None}
    BY LineTypes DEF Flow, Types, ClientTypes
  <2>3. \A d \in Clients :
          /\ link'[d].up = link[d].up /\ link'[d].epoch = link[d].epoch
          /\ link'[d].awaits = link[d].awaits /\ link'[d].asked = link[d].asked
    BY <2>1, <2>2 DEF Links
  <2>4. (\E q : Adds(q)) \/ (link[c].out.kind = "unsubscribe" /\ Leaves(Conn(c)))
    BY <1>1, MuxTakesLineRoutes DEF Flow
  <2>5. ASSUME link[c].out.kind = "unsubscribe", NEW d \in Clients, link[d].wants
        PROVE  Conn(d) # Conn(c)
    <3>1. link[c].out = Unsubscribing
      BY <2>1, <2>2, <2>5, LineFacts DEF LinkLines, Subscribing
    <3>2. ~link[c].wants
      BY <2>1, <3>1 DEF Flow, Routes, LinksFit, LinkFits
    <3> QED BY <2>5, <3>2 DEF Conn
  <2> QED BY <2>1, <2>3, <2>4, <2>5, LineFits
<1>2. ASSUME NEW conn \in Conns, MuxTakesRest(conn)
      PROVE  ReplicaFits'
  <2>1. UNCHANGED <<hydration, log, fromHost, inbox, link, store, shown, gap>>
    BY <1>2 DEF MuxTakesRest, served
  <2>2. Over(conn) /\ ((\E q : Adds(q)) \/ Leaves(conn))
    BY <1>2, MuxTakesRestRoutes DEF Flow
  <2>3. ASSUME NEW d \in Clients, link[d].up
        PROVE  Conn(d) # conn
    <3>1. link[d].epoch \in Nat
      BY LineTypes DEF Flow
    <3> QED BY <2>2, <2>3, <3>1 DEF Conn, Over
  <2> QED BY <2>1, <2>2, <2>3, LineFits
<1> QED BY <1>1, <1>2

\* What a message does to the mux and to a client.
Spends(m) ==
  /\ fromHost # <<>> /\ m = Head(fromHost) /\ fromHost' = Tail(fromHost)
  /\ UNCHANGED <<link, store, shown, gap>> /\ Sent' = Sent
  /\ \A r \in Flight' : r \in Flight /\ (m.kind # "event" => r # m.request)
  /\ \A other \in topics : other \in topics'
  /\ \A r \in pending' : r \in pending
  /\ \A r \in pending : r \in pending' \/ (m.kind # "event" /\ r = m.request)

Keeps(c, m) ==
  inbox'[c] = inbox[c] /\ (m.kind = "event" /\ link[c].up => Conn(c) \notin topics)

Gets(c, m, e) ==
  /\ link[c].up /\ Same(e, m) /\ inbox'[c] = Append(inbox[c], e)
  /\ m.kind # "event" => /\ m.request \in Requests
                         /\ Conn(c) = m.request.conn /\ e.request = m.request.id
  /\ m.kind = "window" => Conn(c) \in topics'

LEMMA SpendsFacts ==
  ASSUME Flow, NEW m, Spends(m)
  PROVE  /\ m \in FromHost /\ 1 \in DOMAIN fromHost /\ fromHost[1] = m
         /\ fromHost \in Seq(FromHost)
         /\ \A i \in DOMAIN fromHost' : /\ i \in Nat /\ i + 1 \in DOMAIN fromHost
                                        /\ fromHost'[i] = fromHost[i + 1]
         /\ \A i \in Nat : \A row : Has(fromHost, i + 1, row) => Has(fromHost', i, row)
         /\ \A row : Has(fromHost, 0, row) /\ (m.kind = "event" => m.end # row)
                       => Has(fromHost', 0, row)
         /\ m.kind # "event" => m.request \in Flight
<1>1. /\ fromHost \in Seq(FromHost) /\ fromHost # <<>>
      /\ m = Head(fromHost) /\ fromHost' = Tail(fromHost)
  BY DEF Flow, Types, HostTypes, Spends
<1>2. /\ m \in FromHost /\ 1 \in DOMAIN fromHost /\ fromHost[1] = m
      /\ \A i \in DOMAIN fromHost' : /\ i \in Nat /\ i + 1 \in DOMAIN fromHost
                                     /\ fromHost'[i] = fromHost[i + 1]
  BY <1>1, TailElements
<1>3. /\ \A i \in Nat : \A row : Has(fromHost, i + 1, row) => Has(fromHost', i, row)
      /\ \A row : Has(fromHost, 0, row) /\ (m.kind = "event" => m.end # row)
                    => Has(fromHost', 0, row)
  BY <1>1, HasTail
<1>4. m.kind # "event" => m.request \in Flight
  BY <1>2 DEF Flight, Tells, RequestsAt, Told
<1> QED BY <1>1, <1>2, <1>3, <1>4

LEMMA SpendsFollows ==
  ASSUME Flow, ReplicaFits, NEW m, Spends(m), NEW c \in Clients, CoverFits(c),
         NEW i \in DOMAIN fromHost', AwaitedOn(c, fromHost[i])'
  PROVE  Follows(c, i)'
<1>1. /\ i \in Nat /\ i + 1 \in DOMAIN fromHost /\ fromHost'[i] = fromHost[i + 1]
      /\ \A row : Has(fromHost, i + 1, row) => Has(fromHost', i, row)
  BY SpendsFacts
<1>2. AwaitedOn(c, fromHost[i + 1])
  BY <1>1 DEF AwaitedOn, Conn, Spends
<1>3. Follows(c, i + 1) /\ Sent' = Sent
  BY <1>1, <1>2 DEF CoverFits, Spends
<1> QED BY <1>1, <1>3 DEF Follows

LEMMA KeepsFits ==
  ASSUME Flow, ReplicaFits, NEW m, Spends(m), NEW c \in Clients, Keeps(c, m)
  PROVE  (StepFits(c) /\ (gap \/ CoverFits(c)))'
<1>1. StepFits(c) /\ (gap \/ CoverFits(c)) /\ inbox'[c] = inbox[c]
  BY DEF ReplicaFits, Keeps
<1>2. UNCHANGED <<link, store, shown, gap>> /\ Conn(c)' = Conn(c) /\ Sent' = Sent
  BY DEF Spends, Conn
<1>3. \A i, p : Source(c, i, p)' <=> Source(c, i, p)
  BY <1>1, <1>2 DEF Source, HasScope, Awaited
<1>4. \A r \in Flight' : link[c].up /\ r.conn = Conn(c) /\ r.id = link[c].awaits => r \in pending'
  BY <1>1 DEF StepFits, Marked, Spends
<1>5. \A i, p \in Nat : link[c].up /\ Source(c, i, p) => Conn(c) \in topics' /\ shown
  BY <1>1 DEF StepFits, Marked, Spends
<1>6. StepFits(c)'
  <2>1. (store[c].baseline => ~store[c].catching /\ (link[c].awaits # None => HasScope(c)))'
    BY <1>1, <1>2 DEF StepFits, Marked, HasScope
  <2>2. \A i, p \in Nat : (link[c].up /\ Source(c, i, p) => Conn(c) \in topics /\ shown)'
    BY <1>2, <1>3, <1>5
  <2>3. \A r \in Flight' : (link[c].up /\ r.conn = Conn(c) /\ r.id = link[c].awaits
                              => r \in pending)'
    BY <1>2, <1>4
  <2> QED BY <1>1, <1>2, <2>1, <2>2, <2>3 DEF StepFits, Marked
<1> SUFFICES ASSUME CoverFits(c)
             PROVE  CoverFits(c)'
  BY <1>1, <1>2, <1>6
<1>7. ASSUME NEW i \in Nat, NEW p \in Nat, Source(c, i, p)
      PROVE  Continues(c, i, p)' /\ (link[c].up => Reaches(c, i, p))'
  <2>1. Continues(c, i, p) /\ (link[c].up => Reaches(c, i, p))
    BY <1>7 DEF CoverFits
  <2>2. Continues(c, i, p)'
    BY <1>1, <2>1 DEF Continues
  <2>3. ASSUME link[c].up
        PROVE  Reaches(c, i, p)'
    <3>1. m.kind # "event"
      BY <1>1, <1>7, <2>3 DEF StepFits, Marked, Keeps
    <3>2. \A row : Has(fromHost, 0, row) => Has(fromHost', 0, row)
      BY <3>1, SpendsFacts
    <3> QED BY <1>1, <1>2, <2>1, <2>3, <3>2 DEF Reaches
  <2> QED BY <1>2, <2>2, <2>3
<1>8. \A i \in DOMAIN fromHost' : AwaitedOn(c, fromHost[i])' => Follows(c, i)'
  BY SpendsFollows
<1>9. Exact(store[c].held)'
  BY <1>2 DEF CoverFits, Exact, HeldEnd, Span
<1> QED BY <1>3, <1>7, <1>8, <1>9 DEF CoverFits

LEMMA GetsFits ==
  ASSUME Flow, ReplicaFits, NEW m, Spends(m), NEW c \in Clients, NEW e, Gets(c, m, e)
  PROVE  (StepFits(c) /\ (gap \/ CoverFits(c)))'
<1> DEFINE s == inbox[c]
           n == Len(s)
           l == link[c]
<1>1. /\ StepFits(c) /\ (gap \/ CoverFits(c)) /\ ClientOrdered(c) /\ Ordered(fromHost, Sent)
      /\ inbox'[c] = Append(s, e) /\ l.up /\ e \in ToClient /\ s \in Seq(ToClient)
      /\ e.kind = m.kind /\ e.end = m.end /\ e.total = m.total
  BY DEF ReplicaFits, Gets, Same, Flow, OrderFits, Types, ClientTypes
<1>2. UNCHANGED <<link, store, shown, gap>> /\ Conn(c)' = Conn(c) /\ Sent' = Sent
  BY DEF Spends, Conn
<1>3. /\ m \in FromHost /\ 1 \in DOMAIN fromHost /\ fromHost[1] = m
      /\ fromHost \in Seq(FromHost)
      /\ \A row : Has(fromHost, 1, row) => Has(fromHost', 0, row)
      /\ \A row : Has(fromHost, 0, row) /\ (m.kind = "event" => m.end # row)
                    => Has(fromHost', 0, row)
      /\ m.kind # "event" => m.request \in Flight
  <2>1. 0 \in Nat /\ 0 + 1 = 1
    OBVIOUS
  <2>2. \A row : Has(fromHost, 0 + 1, row) => Has(fromHost', 0, row)
    BY <2>1, SpendsFacts
  <2> QED BY <2>1, <2>2, SpendsFacts
<1>4. /\ n \in Nat /\ DOMAIN s = 1..n /\ DOMAIN Append(s, e) = 1..(n + 1)
      /\ \A i \in DOMAIN s : Append(s, e)[i] = s[i] /\ i # n + 1
      /\ Append(s, e)[n + 1] = e
      /\ \A i \in DOMAIN Append(s, e) : i \in DOMAIN s \/ i = n + 1
  <2>1. /\ n \in Nat /\ DOMAIN s = 1..n /\ DOMAIN Append(s, e) = 1..(n + 1)
        /\ \A i \in DOMAIN s : Append(s, e)[i] = s[i]
        /\ Append(s, e)[n + 1] = e
    BY <1>1, AppendElements, SequenceElements
  <2> QED BY <2>1
<1>5. /\ \A i, row : Has(s, i, row) => Has(Append(s, e), i, row)
      /\ \A j \in Events(Append(s, e)) :
           \/ j \in Events(s) /\ Append(s, e)[j] = s[j]
           \/ j = n + 1 /\ Append(s, e)[j] = e /\ e.kind = "event"
      /\ e.kind = "event" => \A i \in Nat : i <= n => Has(Append(s, e), i, e.end)
  BY <1>1, HasAppend
<1>6. e.kind # "scope" /\ e.total \in Nat /\ e.end \in Nat /\ (e.kind = "event" => e.end = e.total)
      /\ e.total <= Sent
  <2>1. m.kind # "scope"
    BY <1>3 DEF FromHost
  <2>2. /\ m.kind = "event" => m.end = m.total
        /\ m.total <= Sent
    BY <1>1, <1>3 DEF Ordered, WellMade, Within
  <2> QED BY <1>1, <2>1, <2>2, TotalFacts
<1>7. HasScope(c)' <=> HasScope(c)
  <2>1. /\ s # <<>> => Head(s) = s[1] /\ 1 \in DOMAIN s
        /\ Append(s, e) # <<>> /\ Head(Append(s, e)) = Append(s, e)[1]
    BY <1>1, <1>4, TailElements, AppendElements
  <2>2. CASE s = <<>>
    <3>1. Append(s, e)[1] = e
      BY <1>4, <2>2
    <3> QED BY <1>1, <1>6, <2>1, <2>2, <3>1 DEF HasScope
  <2>3. CASE s # <<>>
    <3>1. Append(s, e)[1] = s[1]
      BY <1>4, <2>1, <2>3
    <3> QED BY <1>1, <2>1, <2>3, <3>1 DEF HasScope
  <2> QED BY <2>2, <2>3
<1>8. ASSUME NEW i, NEW p, Source(c, i, p)'
      PROVE  \/ Source(c, i, p) /\ i \in 0..n
             \/ i = n + 1 /\ Awaited(l, e) /\ p = e.total
  <2>1. CASE i = 0 /\ store'[c].baseline /\ ~HasScope(c)' /\ p = HeldEnd(store'[c].held)
    BY <1>2, <1>4, <1>7, <2>1 DEF Source
  <2>2. CASE /\ i \in DOMAIN Append(s, e) /\ Awaited(l, Append(s, e)[i])
             /\ p = Append(s, e)[i].total
    <3>1. CASE i \in DOMAIN s
      BY <1>4, <2>2, <3>1 DEF Source
    <3>2. CASE i = n + 1
      BY <1>4, <2>2, <3>2
    <3> QED BY <1>4, <2>2, <3>1, <3>2
  <2> QED BY <1>1, <1>2, <1>8, <2>1, <2>2 DEF Source, HeldEnd, Awaited
<1>9. Awaited(l, e) => AwaitedOn(c, fromHost[1]) /\ Conn(c) \in topics' /\ shown
  <2> SUFFICES ASSUME Awaited(l, e)
               PROVE  AwaitedOn(c, fromHost[1]) /\ Conn(c) \in topics' /\ shown
    OBVIOUS
  <2>1. /\ m.kind = "window" /\ l.awaits # None /\ e.request = l.awaits
        /\ m.request \in Requests /\ Conn(c) = m.request.conn /\ e.request = m.request.id
        /\ Conn(c) \in topics'
    BY <1>1 DEF Awaited, Gets
  <2>2. m.request = [conn |-> Conn(c), id |-> l.awaits]
    BY <2>1 DEF Requests
  <2>3. AwaitedOn(c, fromHost[1])
    BY <1>1, <1>3, <2>1, <2>2 DEF AwaitedOn
  <2> QED BY <1>3, <2>1, <2>3, AwaitedFlight
<1> HIDE DEF n, l, s
<1>10. StepFits(c)'
  <2>1. ASSUME NEW i \in DOMAIN inbox'[c], inbox'[c][i].kind = "scope"
        PROVE  i = 1 /\ link'[c].up /\ inbox'[c][i].request = link'[c].epoch
    BY <1>1, <1>2, <1>4, <1>6, <2>1 DEF StepFits, Marked, s, l
  <2>2. (store[c].baseline => ~store[c].catching /\ (link[c].awaits # None => HasScope(c)))'
    BY <1>1, <1>2, <1>7 DEF StepFits, Marked
  <2>3. ASSUME NEW i \in DOMAIN inbox'[c], inbox'[c][i].kind \in {"window", "failed", "refused"}
        PROVE  inbox'[c][i].request <= link'[c].asked
    <3>1. CASE i \in DOMAIN s
      BY <1>1, <1>2, <1>4, <2>3, <3>1 DEF StepFits, Marked, s, l
    <3>2. CASE i = n + 1
      <4>1. m.kind # "event" /\ m.request \in Flight /\ FlightFits(m.request)
        BY <1>1, <1>3, <1>4, <2>3, <3>2 DEF Flow, Routes, FlightsFit
      <4>2. Conn(c) = m.request.conn /\ e.request = m.request.id /\ Conn(c)[1] = c
        BY <4>1 DEF Gets, Conn
      <4> QED BY <1>1, <1>2, <1>4, <3>2, <4>1, <4>2 DEF FlightFits
    <3> QED BY <1>1, <1>4, <2>3, <3>1, <3>2
  <2>4. \A r \in Flight' : (link[c].up /\ r.conn = Conn(c) /\ r.id = link[c].awaits
                              => r \in pending)'
    BY <1>1, <1>2 DEF StepFits, Marked, Spends
  <2>5. ASSUME NEW i \in Nat, NEW p \in Nat, Source(c, i, p)'
        PROVE  Conn(c)' \in topics' /\ shown'
    <3>1. CASE Source(c, i, p)
      BY <1>1, <1>2, <3>1 DEF StepFits, Marked, Spends, l
    <3>2. CASE Awaited(l, e)
      BY <1>2, <1>9, <3>2
    <3> QED BY <1>8, <2>5, <3>1, <3>2
  <2> QED BY <2>1, <2>2, <2>3, <2>4, <2>5 DEF StepFits, Marked
<1> SUFFICES ASSUME CoverFits(c)
             PROVE  CoverFits(c)'
  BY <1>1, <1>2, <1>10
<1>11. ASSUME NEW i \in Nat, NEW p \in Nat, Source(c, i, p)'
       PROVE  Continues(c, i, p)' /\ Reaches(c, i, p)'
  <2>1. CASE Source(c, i, p) /\ i \in 0..n
    <3>1. Continues(c, i, p) /\ Reaches(c, i, p) /\ i <= n
      BY <1>1, <1>4, <2>1 DEF CoverFits, l
    <3>2. ASSUME NEW j \in Events(inbox'[c]), NEW row \in Nat, i < j, p < row,
                 row <= inbox'[c][j].end
          PROVE  Has(inbox'[c], i, row)
      <4>1. CASE j \in Events(s) /\ inbox'[c][j] = s[j]
        BY <1>1, <1>5, <3>1, <3>2, <4>1 DEF Continues, s
      <4>2. CASE inbox'[c][j] = e /\ e.kind = "event"
        <5>1. row <= e.end /\ e.end = e.total /\ e.end \in Nat
          BY <1>6, <3>2, <4>2
        <5>2. CASE row = e.end
          BY <1>1, <1>5, <3>1, <4>2, <5>2
        <5>3. CASE row < e.end
          <6>1. Has(s, i, row) \/ Has(fromHost, 0, row)
            <7>1. Sent \in Nat
              BY SentFacts, RowFacts DEF Flow, Types
            <7>2. e.total <= Sent
              BY <1>6, <4>2
            <7>3. row <= Sent
              BY <5>1, <5>3, <7>1, <7>2
            <7> QED BY <3>1, <3>2, <7>3 DEF Reaches, s
          <6>2. ASSUME Has(fromHost, 0, row)
                PROVE  FALSE
            <7>1. PICK k \in Events(fromHost) : fromHost[k].end = row
              BY <6>2 DEF Has
            <7>2. k \in DOMAIN fromHost /\ k \in Nat \ {0} /\ fromHost[k].total = row
              <8>1. k \in DOMAIN fromHost /\ fromHost[k].total = row
                BY <1>1, <7>1 DEF Events, Ordered, WellMade
              <8> QED BY <1>3, <8>1, SequenceElements
            <7>3. 1 < k => m.total < row
              BY <1>1, <1>3, <7>1, <7>2 DEF Ordered, Rising
            <7>4. k # 1
              BY <1>1, <1>3, <5>3, <7>1
            <7>5. 1 < k
              BY <7>2, <7>4
            <7>6. m.total = e.end
              BY <1>1, <5>1
            <7> QED BY <5>1, <5>3, <7>3, <7>5, <7>6
          <6> QED BY <1>1, <1>5, <6>1, <6>2
        <5> QED BY <5>1, <5>2, <5>3
      <4> QED BY <1>1, <1>5, <3>2, <4>1, <4>2
    <3>3. ASSUME NEW row \in Nat, p < row, row <= Sent'
          PROVE  Has(inbox'[c], i, row) \/ Has(fromHost', 0, row)
      <4>1. Has(s, i, row) \/ Has(fromHost, 0, row)
        BY <1>2, <3>1, <3>3 DEF Reaches, s
      <4>2. CASE e.kind = "event" /\ e.end = row
        BY <1>1, <1>5, <3>1, <4>2
      <4>3. CASE ~(m.kind = "event" /\ m.end = row)
        BY <1>1, <1>3, <1>5, <4>1, <4>3
      <4> QED BY <1>1, <4>2, <4>3
    <3> QED BY <3>2, <3>3 DEF Continues, Reaches
  <2>2. CASE i = n + 1 /\ Awaited(l, e) /\ p = e.total
    <3>1. Follows(c, 1)
      BY <1>3, <1>9, <2>2 DEF CoverFits
    <3>2. \A j \in Events(inbox'[c]) : ~(i < j)
      BY <1>1, <1>4, <2>2 DEF Events
    <3>3. ASSUME NEW row \in Nat, p < row, row <= Sent'
          PROVE  Has(fromHost', 0, row)
      BY <1>1, <1>2, <1>3, <2>2, <3>1, <3>3 DEF Follows
    <3> QED BY <3>2, <3>3 DEF Continues, Reaches
  <2> QED BY <1>8, <1>11, <2>1, <2>2
<1>12. \A i \in DOMAIN fromHost' : AwaitedOn(c, fromHost[i])' => Follows(c, i)'
  BY SpendsFollows
<1>13. Exact(store[c].held)'
  BY <1>2 DEF CoverFits, Exact, HeldEnd, Span
<1> QED BY <1>11, <1>12, <1>13 DEF CoverFits

LEMMA MuxMessageReplica ==
  ASSUME Flow, ReplicaFits, MuxTakesMessage
  PROVE  ReplicaFits'
<1> DEFINE m == Head(fromHost)
           q == m.request
           e == [m EXCEPT !.request = q.id]
<1>1. /\ fromHost # <<>> /\ fromHost' = Tail(fromHost) /\ Sent' = Sent
      /\ UNCHANGED <<link, store, shown, gap>>
      /\ \A r \in Flight' : r \in Flight /\ (m.kind # "event" => r # q)
  BY MuxTakesMessageRoutes DEF Flow, served
<1>2. m \in FromHost
  <2>1. fromHost \in Seq(FromHost)
    BY DEF Flow, Types, HostTypes
  <2> QED BY <1>1, <2>1, TailElements
<1>3. /\ m.kind # "event" => q \in Requests
      /\ m.kind \in {"event", "window", "ack", "refused", "failed"}
      /\ m.kind = "event" => Same(m, m)
      /\ m.kind \in {"window", "failed", "refused"} => Same(e, m) /\ e.request = q.id
  <2>1. m.kind = "event" => Same(m, m)
    BY <1>2 DEF Same, FromHost, ToClient
  <2>2. m.kind \in {"window", "failed", "refused"} => Same(e, m) /\ e.request = q.id
    BY <1>2, RenamedFacts
  <2> QED BY <1>2, <2>1, <2>2 DEF FromHost
<1>4. MuxTakesMessage
  OBVIOUS
<1>5. /\ m.kind = "event" => Deliver(topics, m) /\ UNCHANGED <<topics, pending>>
      /\ m.kind \in {"window", "failed", "ack"} =>
           /\ IF q \in pending THEN Subscribed(q) ELSE UNCHANGED <<topics, pending>>
           /\ IF m.kind = "ack" THEN UNCHANGED inbox ELSE Deliver(topics' \intersect {q.conn}, e)
      /\ m.kind = "refused" => /\ pending' = pending \ {q} /\ UNCHANGED topics
                               /\ Deliver({q.conn}, e)
  BY <1>3, <1>4 DEF MuxTakesMessage, Answered, Refused, mux
<1> HIDE DEF m, e, q
<1>6. Spends(m)
  <2>1. CASE m.kind = "event"
    BY <1>1, <1>5, <2>1 DEF Spends, m, q
  <2>2. CASE m.kind \in {"window", "failed", "ack"}
    <3>1. \/ topics' = topics \union {q.conn} /\ pending' = pending \ {q}
          \/ topics' = topics /\ pending' = pending
      BY <1>5, <2>2 DEF Subscribed
    <3> QED BY <1>1, <2>2, <3>1 DEF Spends, m, q
  <2>3. CASE m.kind = "refused"
    BY <1>1, <1>5, <2>3 DEF Spends, m, q
  <2> QED BY <1>3, <2>1, <2>2, <2>3
<1>7. ASSUME NEW c \in Clients
      PROVE  Keeps(c, m) \/ \E f : Gets(c, m, f)
  <2>1. ASSUME NEW conns, NEW f, Deliver(conns, f)
        PROVE  inbox'[c] = IF link[c].up /\ Conn(c) \in conns THEN Append(inbox[c], f)
                                                              ELSE inbox[c]
    BY <2>1 DEF Deliver
  <2>2. CASE m.kind = "event"
    BY <1>3, <1>5, <2>1, <2>2 DEF Keeps, Gets
  <2>3. CASE m.kind = "ack"
    BY <1>5, <2>3 DEF Keeps
  <2>4. CASE m.kind \in {"window", "failed"}
    <3>1. inbox'[c] = IF link[c].up /\ Conn(c) \in (topics' \intersect {q.conn})
                        THEN Append(inbox[c], e) ELSE inbox[c]
      BY <1>5, <2>1, <2>4
    <3>2. CASE link[c].up /\ Conn(c) \in topics' /\ Conn(c) = q.conn
      <4>1. Gets(c, m, e)
        BY <1>3, <2>4, <3>1, <3>2 DEF Gets, q
      <4> QED BY <4>1
    <3> QED BY <2>4, <3>1, <3>2 DEF Keeps
  <2>5. CASE m.kind = "refused"
    <3>1. inbox'[c] = IF link[c].up /\ Conn(c) \in {q.conn} THEN Append(inbox[c], e) ELSE inbox[c]
      BY <1>5, <2>1, <2>5
    <3>2. CASE link[c].up /\ Conn(c) = q.conn
      <4>1. Gets(c, m, e)
        BY <1>3, <2>5, <3>1, <3>2 DEF Gets, q
      <4> QED BY <4>1
    <3> QED BY <2>5, <3>1, <3>2 DEF Keeps
  <2> QED BY <1>3, <2>2, <2>3, <2>4, <2>5
<1>8. \A c \in Clients : (StepFits(c) /\ (gap \/ CoverFits(c)))'
  BY <1>6, <1>7, KeepsFits, GetsFits
<1>9. ShownFits'
  <2> SUFFICES ASSUME NEW i \in DOMAIN fromHost', fromHost'[i].kind = "window",
                      fromHost'[i].request \in pending'
               PROVE  shown'
    BY DEF ShownFits
  <2>1. i + 1 \in DOMAIN fromHost /\ fromHost'[i] = fromHost[i + 1]
    BY <1>6, SpendsFacts
  <2>2. fromHost'[i].request \in pending
    BY <1>6 DEF Spends
  <2> QED BY <1>1, <2>1, <2>2 DEF ReplicaFits, ShownFits
<1> QED BY <1>8, <1>9 DEF ReplicaFits

-------------------------------------------------------------------------------
(* The steps of a client *)

Alone(c) ==
  /\ UNCHANGED <<log, served, toHost, fromHost, mux>>
  /\ \A d \in Clients : d # c => /\ inbox'[d] = inbox[d] /\ store'[d] = store[d]
                                 /\ link'[d] = link[d]

\* No answer under way is one that c waits for only now.
Waits(c) == \A r \in Flight :
  link'[c].up /\ r.conn = Conn(c)' /\ r.id = link'[c].awaits =>
    link[c].up /\ Conn(c)' = Conn(c) /\ link'[c].awaits = link[c].awaits

LEMMA AloneFacts ==
  ASSUME Flow, NEW c \in Clients, Alone(c)
  PROVE  /\ UNCHANGED <<log, fromHost, topics, pending, shown, gap>>
         /\ Sent' = Sent /\ \A r : r \in Flight' <=> r \in Flight
<1>1. UNCHANGED <<log, hydration, toHost, fromHost, topics, pending, shown, gap>>
  BY DEF Alone, served, mux
<1>2. Sent' = Sent /\ Waiters' = Waiters
  BY <1>1 DEF Sent, Waiters
<1>3. Flight' = Flight
  BY <1>1, <1>2 DEF Flight, Asking, Waiting, Tells
<1> QED BY <1>1, <1>2, <1>3

LEMMA ClientReplica ==
  ASSUME Flow, ReplicaFits, NEW c \in Clients, Alone(c), Waits(c), Marked(c)',
         \A i, p \in Nat : (link[c].up /\ Source(c, i, p) => Conn(c) \in topics /\ shown)',
         CoverFits(c) =>
           /\ \A i, p \in Nat : (Source(c, i, p) =>
                Continues(c, i, p) /\ (link[c].up => Reaches(c, i, p)))'
           /\ Exact(store[c].held)'
  PROVE  ReplicaFits'
<1>1. /\ UNCHANGED <<log, fromHost, topics, pending, shown, gap>>
      /\ Sent' = Sent /\ \A r : r \in Flight' <=> r \in Flight
  BY AloneFacts
<1>2. /\ ShownFits /\ \A d \in Clients : StepFits(d) /\ (gap \/ CoverFits(d))
  BY DEF ReplicaFits
<1>3. ShownFits'
  BY <1>1, <1>2 DEF ShownFits
<1>4. ASSUME NEW d \in Clients, d # c
      PROVE  (StepFits(d) /\ (gap \/ CoverFits(d)))'
  <2>1. inbox'[d] = inbox[d] /\ store'[d] = store[d] /\ link'[d] = link[d]
    BY <1>4 DEF Alone
  <2>2. Conn(d)' = Conn(d) /\ \A i, p : Source(d, i, p)' <=> Source(d, i, p)
    BY <2>1 DEF Conn, Source, HasScope, Awaited
  <2>3. StepFits(d)'
    <3>1. Marked(d)'
      BY <1>2, <2>1 DEF StepFits, Marked, HasScope
    <3>2. \A r \in Flight' : (link[d].up /\ r.conn = Conn(d) /\ r.id = link[d].awaits
                                => r \in pending)'
      BY <1>1, <1>2, <2>1, <2>2 DEF StepFits
    <3>3. \A i, p \in Nat : (link[d].up /\ Source(d, i, p) => Conn(d) \in topics /\ shown)'
      BY <1>1, <1>2, <2>1, <2>2 DEF StepFits
    <3> QED BY <3>1, <3>2, <3>3 DEF StepFits
  <2>4. ASSUME CoverFits(d)
        PROVE  CoverFits(d)'
    <3>1. \A i, p \in Nat : (Source(d, i, p) =>
            Continues(d, i, p) /\ (link[d].up => Reaches(d, i, p)))'
      BY <1>1, <2>1, <2>2, <2>4 DEF CoverFits, Continues, Reaches
    <3>2. \A i \in DOMAIN fromHost : (AwaitedOn(d, fromHost[i]) => Follows(d, i))'
      BY <1>1, <2>1, <2>2, <2>4 DEF CoverFits, AwaitedOn, Follows
    <3>3. Exact(store[d].held)'
      BY <2>1, <2>4 DEF CoverFits, Exact, HeldEnd, Span
    <3> QED BY <1>1, <3>1, <3>2, <3>3 DEF CoverFits
  <2> QED BY <1>1, <1>2, <2>3, <2>4
<1>5. StepFits(c)'
  <2>1. \A r \in Flight' : (link[c].up /\ r.conn = Conn(c) /\ r.id = link[c].awaits
                              => r \in pending)'
    BY <1>1, <1>2 DEF StepFits, Waits
  <2> QED BY <2>1 DEF StepFits
<1>6. ASSUME CoverFits(c)
      PROVE  CoverFits(c)'
  <2>1. ASSUME NEW i \in DOMAIN fromHost', AwaitedOn(c, fromHost[i])'
        PROVE  Follows(c, i)'
    <3> DEFINE r == fromHost[i].request
    <3>1. /\ i \in DOMAIN fromHost /\ link'[c].up /\ link'[c].awaits # None
          /\ fromHost[i].kind = "window" /\ r = [conn |-> Conn(c)', id |-> link'[c].awaits]
      BY <1>1, <2>1 DEF AwaitedOn
    <3>2. r \in Flight
      BY <3>1 DEF Flight, Tells, Told, RequestsAt
    <3>3. r.conn = Conn(c)' /\ r.id = link'[c].awaits
      BY <3>1
    <3> HIDE DEF r
    <3>4. link[c].up /\ Conn(c)' = Conn(c) /\ link'[c].awaits = link[c].awaits
      BY <3>1, <3>2, <3>3 DEF Waits
    <3>5. AwaitedOn(c, fromHost[i])
      BY <3>1, <3>4 DEF AwaitedOn, r
    <3>6. Follows(c, i)
      BY <1>6, <3>1, <3>5 DEF CoverFits
    <3> QED BY <1>1, <3>6 DEF Follows
  <2> QED BY <1>6, <2>1 DEF CoverFits
<1>7. \A d \in Clients : (StepFits(d) /\ (gap \/ CoverFits(d)))'
  BY <1>1, <1>2, <1>4, <1>5, <1>6
<1> QED BY <1>3, <1>7 DEF ReplicaFits

\* A step after which no event in the inbox follows anything.
LEMMA SourcelessReplica ==
  ASSUME Flow, ReplicaFits, NEW c \in Clients, Alone(c), Waits(c), Marked(c)',
         \A i, p \in Nat : ~Source(c, i, p)',
         store'[c].held = store[c].held \/ store'[c].held = None
  PROVE  ReplicaFits'
<1>1. CoverFits(c) => Exact(store[c].held)'
  BY DEF CoverFits, Exact, HeldEnd, Span
<1>2. \A i, p \in Nat : (link[c].up /\ Source(c, i, p) => Conn(c) \in topics /\ shown)'
  OBVIOUS
<1>3. \A i, p \in Nat : (Source(c, i, p) =>
         Continues(c, i, p) /\ (link[c].up => Reaches(c, i, p)))'
  OBVIOUS
<1> QED BY <1>1, <1>2, <1>3, ClientReplica

LEMMA ClientFacts ==
  ASSUME Flow, ReplicaFits, NEW c \in Clients
  PROVE  /\ inbox \in [Clients -> Seq(ToClient)] /\ inbox[c] \in Seq(ToClient)
         /\ link \in [Clients -> Links] /\ link[c] \in Links
         /\ store \in [Clients -> Stores] /\ store[c] \in Stores
         /\ link[c].epoch \in Nat /\ link[c].asked \in Nat
         /\ link[c].awaits \in Nat \union {None}
         /\ link[c].awaits # None => link[c].wants /\ link[c].awaits = link[c].asked
         /\ store[c].baseline => store[c].held # None /\ link[c].wants
         /\ StepFits(c) /\ Marked(c) /\ Ordered(inbox[c], Sent)
<1>1. /\ inbox \in [Clients -> Seq(ToClient)] /\ link \in [Clients -> Links]
      /\ store \in [Clients -> Stores]
  BY DEF Flow, Types, ClientTypes
<1>2. link[c] \in Links /\ store[c] \in Stores /\ inbox[c] \in Seq(ToClient)
  BY <1>1
<1>3. link[c].epoch \in Nat /\ link[c].asked \in Nat /\ link[c].awaits \in Nat \union {None}
  BY <1>2 DEF Links
<1>4. LinkFits(link[c], upsets) /\ ClientOrdered(c)
  BY DEF Flow, Routes, LinksFit, OrderFits
<1>5. link[c].awaits # None => link[c].wants /\ link[c].awaits = link[c].asked
  BY <1>4 DEF LinkFits
<1>6. /\ store[c].baseline => store[c].held # None /\ link[c].wants
      /\ Ordered(inbox[c], Sent)
  BY <1>4 DEF ClientOrdered
<1>7. StepFits(c) /\ Marked(c)
  BY DEF ReplicaFits, StepFits
<1> QED BY <1>1, <1>2, <1>3, <1>5, <1>6, <1>7

LEMMA FlightIds ==
  ASSUME Flow, NEW r \in Flight
  PROVE  r.id \in Nat /\ r.id <= link[r.conn[1]].asked /\ r.conn[2] <= link[r.conn[1]].epoch
<1>1. FlightFits(r) /\ r.id \in Nat
  BY FlightTypes DEF Flow, Types, Routes, FlightsFit
<1> QED BY <1>1 DEF FlightFits

LEMMA RestoreReplica ==
  ASSUME InStep, Flow, ReplicaFits, NEW c \in Clients, Restore(c)
  PROVE  ReplicaFits'
<1> DEFINE l == link[c]
           n == link'[c]
           e == Message("scope", l.epoch + 1, 0, 0, 0)
<1>1. /\ ~l.up /\ link' = [link EXCEPT ![c] = Restored(l)] /\ inbox[c] = <<>>
      /\ inbox' = [inbox EXCEPT ![c] = Append(@, e)]
      /\ UNCHANGED <<log, served, toHost, fromHost, mux, store>>
  BY DEF Restore, InStep
<1>2. /\ inbox \in [Clients -> Seq(ToClient)] /\ link \in [Clients -> Links]
      /\ l.epoch \in Nat /\ l.asked \in Nat /\ Marked(c) /\ l \in Links
  BY ClientFacts
<1>3. LinkFits(l, upsets) /\ upsets \in Nat
  BY RowFacts DEF Flow, Routes, LinksFit, Types, CountTypes
<1>4. e.kind = "scope" /\ e.request = l.epoch + 1
  BY DEF Message
<1> HIDE DEF l, e
<1>5. /\ n = Restored(l) /\ n.up /\ n.epoch = l.epoch + 1
      /\ \A d \in Clients : d # c => link'[d] = link[d]
  <2>1. Restored(l).up /\ Restored(l).epoch = l.epoch + 1
    BY <1>1, <1>2, <1>3, RestoredFacts
  <2> QED BY <1>1, <1>2, <2>1
<1>6. /\ inbox'[c] = <<e>> /\ \A d \in Clients : d # c => inbox'[d] = inbox[d]
  BY <1>1, <1>2
<1>7. DOMAIN <<e>> = {1} /\ <<e>>[1] = e /\ Head(<<e>>) = e /\ <<e>> # <<>>
  BY OneElement
<1> HIDE DEF n
<1>8. Alone(c)
  BY <1>1, <1>5, <1>6 DEF Alone
<1>9. Waits(c)
  <2> SUFFICES ASSUME NEW r \in Flight, r.conn = Conn(c)'
               PROVE  FALSE
    BY DEF Waits
  <2>1. r.conn[1] = c /\ r.conn[2] = l.epoch + 1
    BY <1>5 DEF Conn, n
  <2>2. r.conn[2] <= l.epoch
    BY <2>1, FlightIds DEF l
  <2> QED BY <1>2, <2>1, <2>2
<1>10. HasScope(c)'
  BY <1>4, <1>6, <1>7 DEF HasScope
<1>11. Marked(c)'
  <2>1. \A i \in DOMAIN inbox'[c] : inbox'[c][i].kind = "scope" =>
          i = 1 /\ link'[c].up /\ inbox'[c][i].request = link'[c].epoch
    BY <1>4, <1>5, <1>6, <1>7 DEF n
  <2>2. store'[c].baseline => ~store'[c].catching
    BY <1>1, <1>2 DEF Marked
  <2>3. \A i \in DOMAIN inbox'[c] : inbox'[c][i].kind \notin {"window", "failed", "refused"}
    BY <1>4, <1>6, <1>7
  <2> QED BY <1>10, <2>1, <2>2, <2>3 DEF Marked
<1>12. \A i, p \in Nat : ~Source(c, i, p)'
  BY <1>4, <1>6, <1>7, <1>10 DEF Source, Awaited
<1> QED BY <1>1, <1>8, <1>9, <1>11, <1>12, SourcelessReplica

LEMMA SelectReplica ==
  ASSUME Flow, ReplicaFits, NEW c \in Clients, Select(c)
  PROVE  ReplicaFits'
<1> DEFINE held == store[c].held
           after == IF held = None THEN None ELSE HeldEnd(held)
           l == [link[c] EXCEPT !.wants = TRUE]
           n == link'[c]
<1>1. /\ link' = [link EXCEPT ![c] = SendSubscription([@ EXCEPT !.wants = TRUE], after)]
      /\ ~link[c].wants
      /\ UNCHANGED <<log, served, toHost, fromHost, mux, inbox, store>>
  BY DEF Select
<1>2. /\ link \in [Clients -> Links] /\ link[c] \in Links /\ inbox[c] \in Seq(ToClient)
      /\ link[c].asked \in Nat /\ link[c].awaits = None /\ ~store[c].baseline /\ Marked(c)
  BY <1>1, ClientFacts
<1>3. link' = [link EXCEPT ![c] = SendSubscription(l, after)]
  BY <1>1, <1>2
<1>4. /\ l \in Links /\ l.up = link[c].up /\ l.epoch = link[c].epoch /\ l.asked = link[c].asked
  BY <1>2 DEF Links
<1> HIDE DEF l, after
<1>5. LET k == SendSubscription(l, after) IN
        /\ k.up = l.up /\ k.epoch = l.epoch
        /\ k.awaits = None \/ k.awaits = l.asked + 1
        /\ k.asked = l.asked \/ k.asked = l.asked + 1
  BY <1>4 DEF SendSubscription, Links
<1>6. /\ n = SendSubscription(l, after)
      /\ \A d \in Clients : d # c => link'[d] = link[d]
  BY <1>2, <1>3
<1> HIDE DEF n
<1>7. /\ n.up = link[c].up /\ n.epoch = link[c].epoch
      /\ n.awaits = None \/ n.awaits = link[c].asked + 1
      /\ n.asked = link[c].asked \/ n.asked = link[c].asked + 1
  BY <1>4, <1>5, <1>6
<1>8. Alone(c)
  BY <1>1, <1>6 DEF Alone
<1>9. Waits(c)
  <2> SUFFICES ASSUME NEW r \in Flight, r.conn = Conn(c)', r.id = n.awaits
               PROVE  FALSE
    BY DEF Waits, n
  <2>1. r.conn[1] = c
    BY DEF Conn
  <2>2. r.id \in Nat /\ r.id <= link[c].asked
    BY <2>1, FlightIds
  <2> QED BY <1>2, <1>7, <2>2, NoneFacts
<1>10. \A i \in DOMAIN inbox[c] : inbox[c][i].kind \in {"window", "failed", "refused"} =>
         inbox[c][i].request \in Nat /\ inbox[c][i].request <= link[c].asked
  BY <1>2, SequenceElements DEF Marked, ToClient
<1>11. Marked(c)'
  <2>1. \A i \in DOMAIN inbox'[c] : inbox'[c][i].kind = "scope" =>
          i = 1 /\ link'[c].up /\ inbox'[c][i].request = link'[c].epoch
    BY <1>1, <1>2, <1>7 DEF Marked, n
  <2>2. ~store'[c].baseline
    BY <1>1, <1>2
  <2>3. \A i \in DOMAIN inbox'[c] : inbox'[c][i].kind \in {"window", "failed", "refused"} =>
          inbox'[c][i].request <= n.asked
    BY <1>1, <1>2, <1>7, <1>10
  <2> QED BY <2>1, <2>2, <2>3 DEF Marked, n
<1>12. ASSUME NEW i \in Nat, NEW p \in Nat, Source(c, i, p)'
       PROVE  FALSE
  <2>1. /\ i \in DOMAIN inbox[c] /\ inbox[c][i].kind = "window" /\ n.awaits # None
        /\ inbox[c][i].request = n.awaits
    BY <1>1, <1>2, <1>12 DEF Source, Awaited, n
  <2> QED BY <1>2, <1>7, <1>10, <2>1
<1> QED BY <1>1, <1>8, <1>9, <1>11, <1>12, SourcelessReplica

LEMMA LeaveReplica ==
  ASSUME Flow, ReplicaFits, NEW c \in Clients, Leave(c)
  PROVE  ReplicaFits'
<1> DEFINE l == link[c]
           e == [l EXCEPT !.wants = FALSE, !.awaits = None,
                          !.out = IF l.up THEN Unsubscribing ELSE @]
<1>1. /\ link' = [link EXCEPT ![c] = e]
      /\ store' = [store EXCEPT ![c].baseline = FALSE, ![c].catching = FALSE,
                                ![c].failed = FALSE]
      /\ UNCHANGED <<log, served, toHost, fromHost, mux, inbox>>
  BY DEF Leave
<1>2. /\ link \in [Clients -> Links] /\ l \in Links /\ l.asked \in Nat /\ Marked(c)
      /\ store \in [Clients -> Stores] /\ store[c] \in Stores
  BY ClientFacts
<1>3. e.awaits = None /\ e.up = l.up /\ e.epoch = l.epoch /\ e.asked = l.asked
  BY <1>2 DEF Links
<1> HIDE DEF e
<1>4. /\ link'[c] = e /\ \A d \in Clients : d # c => link'[d] = link[d]
      /\ \A d \in Clients : d # c => store'[d] = store[d]
      /\ store'[c].held = store[c].held /\ store'[c].baseline = FALSE
  BY <1>1, <1>2 DEF Stores
<1>5. Alone(c)
  BY <1>1, <1>4 DEF Alone
<1>6. Waits(c)
  <2> SUFFICES ASSUME NEW r \in Flight, r.id = None
               PROVE  FALSE
    BY <1>3, <1>4 DEF Waits
  <2> QED BY FlightIds, NoneFacts
<1>7. Marked(c)'
  BY <1>1, <1>2, <1>3, <1>4 DEF Marked
<1>8. \A i, p \in Nat : ~Source(c, i, p)'
  BY <1>3, <1>4 DEF Source, Awaited
<1> QED BY <1>4, <1>5, <1>6, <1>7, <1>8, SourcelessReplica

LEMMA ForgetReplica ==
  ASSUME Flow, ReplicaFits, NEW c \in Clients, Forget(c)
  PROVE  ReplicaFits'
<1>1. /\ ~link[c].wants /\ store' = [store EXCEPT ![c].held = None]
      /\ UNCHANGED <<log, served, toHost, fromHost, mux, inbox, link>>
  BY DEF Forget
<1>2. /\ link[c].awaits = None /\ ~store[c].baseline /\ Marked(c)
      /\ store \in [Clients -> Stores] /\ store[c] \in Stores
  BY <1>1, ClientFacts
<1>3. /\ \A d \in Clients : d # c => store'[d] = store[d]
      /\ store'[c].held = None /\ ~store'[c].baseline
  BY <1>1, <1>2 DEF Stores
<1>4. Alone(c)
  BY <1>1, <1>3 DEF Alone
<1>5. Waits(c)
  BY <1>1 DEF Waits, Conn
<1>6. Marked(c)'
  BY <1>1, <1>2, <1>3 DEF Marked
<1>7. \A i, p \in Nat : ~Source(c, i, p)'
  BY <1>1, <1>2, <1>3 DEF Source, Awaited
<1> QED BY <1>3, <1>4, <1>5, <1>6, <1>7, SourcelessReplica

LEMMA HearsOfLossReplica ==
  ASSUME Flow, ReplicaFits, NEW c \in Clients, HearsOfLoss(c)
  PROVE  ReplicaFits'
<1>1. /\ store' = [store EXCEPT ![c].scoped = FALSE, ![c].baseline = FALSE]
      /\ UNCHANGED <<log, served, toHost, fromHost, mux, inbox, link>>
  BY DEF HearsOfLoss
<1>2. /\ StepFits(c) /\ Marked(c) /\ store \in [Clients -> Stores] /\ store[c] \in Stores
  BY ClientFacts
<1>3. /\ \A d \in Clients : d # c => store'[d] = store[d]
      /\ store'[c].held = store[c].held /\ ~store'[c].baseline
  BY <1>1, <1>2 DEF Stores
<1>4. Alone(c)
  BY <1>1, <1>3 DEF Alone
<1>5. Waits(c) /\ Conn(c)' = Conn(c)
  BY <1>1 DEF Waits, Conn
<1>6. Marked(c)'
  BY <1>1, <1>2, <1>3 DEF Marked
<1>7. \A i, p : Source(c, i, p)' => Source(c, i, p)
  BY <1>1, <1>3 DEF Source, Awaited
<1>8. UNCHANGED <<log, fromHost, topics, pending, shown, gap>> /\ Sent' = Sent
  BY <1>4, AloneFacts
<1>9. \A i, p \in Nat : (link[c].up /\ Source(c, i, p) => Conn(c) \in topics /\ shown)'
  BY <1>1, <1>2, <1>5, <1>7, <1>8 DEF StepFits
<1>10. ASSUME CoverFits(c)
       PROVE  /\ \A i, p \in Nat : (Source(c, i, p) =>
                   Continues(c, i, p) /\ (link[c].up => Reaches(c, i, p)))'
              /\ Exact(store[c].held)'
  <2>1. Exact(store[c].held)'
    BY <1>3, <1>10 DEF CoverFits, Exact, HeldEnd, Span
  <2> QED BY <1>1, <1>7, <1>8, <1>10, <2>1 DEF CoverFits, Continues, Reaches
<1> QED BY <1>4, <1>5, <1>6, <1>9, <1>10, ClientReplica

LEMMA LoseReplica ==
  ASSUME InStep, Flow, ReplicaFits, NEW c \in Clients, Lose(c)
  PROVE  ReplicaFits'
<1> DEFINE l == link[c]
           n == link'[c]
           s == inbox[c]
<1>1. PICK out \in {l.out, None} : link' = [link EXCEPT ![c].up = FALSE, ![c].out = out]
  BY DEF Lose
<1>2. /\ l.up /\ \A i \in DOMAIN s : s[i].kind # "scope"
      /\ UNCHANGED <<log, served, toHost, fromHost, mux, store>>
  BY DEF Lose, InStep
<1>3. PICK k \in 0..Len(s) : inbox' = [inbox EXCEPT ![c] = SubSeq(@, 1, k)]
  BY DEF Lose
<1>4. /\ inbox \in [Clients -> Seq(ToClient)] /\ s \in Seq(ToClient)
      /\ link \in [Clients -> Links] /\ l \in Links /\ store[c] \in Stores
      /\ StepFits(c) /\ Marked(c) /\ Ordered(s, Sent)
  BY ClientFacts
<1>5. /\ n.up = FALSE /\ n.epoch = l.epoch /\ n.asked = l.asked /\ n.awaits = l.awaits
      /\ \A d \in Clients : d # c => link'[d] = link[d]
  BY <1>1, <1>4 DEF Links
<1> DEFINE t == SubSeq(s, 1, k)
<1>6. /\ inbox'[c] = t /\ \A d \in Clients : d # c => inbox'[d] = inbox[d]
  BY <1>3, <1>4
<1>7. /\ DOMAIN t = 1..k /\ DOMAIN s = 1..Len(s) /\ Len(s) \in Nat
      /\ \A i \in DOMAIN t : i \in DOMAIN s /\ t[i] = s[i]
  BY <1>4, PrefixElements, SequenceElements
<1> HIDE DEF t, l, n
<1>8. ~HasScope(c)
  <2>1. s # <<>> => 1 \in DOMAIN s /\ Head(s) = s[1]
    BY <1>4, TailElements
  <2> QED BY <1>2, <2>1 DEF HasScope
<1>9. Alone(c)
  BY <1>2, <1>5, <1>6 DEF Alone
<1>10. Waits(c)
  BY <1>5 DEF Waits, n
<1>11. ASSUME NEW i, NEW p, Source(c, i, p)'
       PROVE  Source(c, i, p)
  <2>1. CASE i = 0 /\ store'[c].baseline /\ p = HeldEnd(store'[c].held)
    BY <1>2, <1>8, <2>1 DEF Source, HeldEnd
  <2>2. CASE i \in DOMAIN t /\ Awaited(n, t[i]) /\ p = t[i].total
    <3>1. i \in DOMAIN s /\ t[i] = s[i]
      BY <1>7, <2>2
    <3>2. Awaited(l, s[i])
      BY <1>5, <2>2, <3>1 DEF Awaited
    <3> QED BY <2>2, <3>1, <3>2 DEF Source, l
  <2> QED BY <1>6, <1>11, <2>1, <2>2 DEF Source, HeldEnd, n
<1>12. Marked(c)'
  <2>1. \A i \in DOMAIN t : t[i].kind # "scope"
    BY <1>2, <1>7
  <2>2. store'[c].baseline => ~store'[c].catching /\ n.awaits = None
    BY <1>2, <1>4, <1>5, <1>8 DEF Marked, l
  <2>3. \A i \in DOMAIN t : t[i].kind \in {"window", "failed", "refused"} =>
          t[i].request <= n.asked
    BY <1>4, <1>5, <1>7 DEF Marked, l
  <2> QED BY <1>6, <2>1, <2>2, <2>3 DEF Marked, n
<1>13. \A i, p \in Nat : (link[c].up /\ Source(c, i, p) => Conn(c) \in topics /\ shown)'
  BY <1>5 DEF n
<1>14. ASSUME CoverFits(c), NEW i \in Nat, NEW p \in Nat, Source(c, i, p)',
              NEW j \in Events(t), NEW row \in Nat, i < j, p < row, row <= t[j].end
       PROVE  Has(t, i, row)
  <2>1. j \in DOMAIN s /\ j \in Events(s) /\ t[j] = s[j] /\ j \in 1..k
    BY <1>7, <1>14 DEF Events
  <2>2. Has(s, i, row)
    BY <1>11, <1>14, <2>1 DEF CoverFits, Continues
  <2>3. PICK h \in Events(s) : i < h /\ s[h].end = row
    BY <2>2 DEF Has
  <2>4. s[j] \in ToClient /\ s[h] \in ToClient /\ h \in DOMAIN s
    BY <1>4, <2>1, <2>3, SequenceElements DEF Events
  <2>5. s[j].total \in Nat /\ s[h].total \in Nat
    BY <2>4, TotalFacts
  <2>6. s[j].end = s[j].total /\ s[h].end = s[h].total
    BY <1>4, <2>1, <2>3, <2>4 DEF Ordered, WellMade, Events
  <2>7. ~(j < h)
    BY <1>4, <1>14, <2>1, <2>3, <2>4, <2>5, <2>6 DEF Ordered, Rising
  <2>8. h \in DOMAIN t
    BY <1>7, <2>1, <2>4, <2>7
  <2>9. h \in Events(t) /\ t[h].end = row
    BY <1>7, <2>3, <2>8 DEF Events
  <2> QED BY <2>3, <2>9 DEF Has
<1>15. ASSUME CoverFits(c)
       PROVE  /\ \A i, p \in Nat : (Source(c, i, p) =>
                   Continues(c, i, p) /\ (link[c].up => Reaches(c, i, p)))'
              /\ Exact(store[c].held)'
  <2>1. Exact(store[c].held)'
    BY <1>2, <1>15 DEF CoverFits, Exact, HeldEnd, Span
  <2>2. ASSUME NEW i \in Nat, NEW p \in Nat, Source(c, i, p)'
        PROVE  Continues(c, i, p)'
    BY <1>6, <1>14, <1>15, <2>2 DEF Continues
  <2> QED BY <1>5, <2>1, <2>2 DEF n
<1> QED BY <1>9, <1>10, <1>12, <1>13, <1>15, ClientReplica

-------------------------------------------------------------------------------
(* The client takes what arrived *)

\* Where the head of the inbox is taken, i and q stand for what h and p stood for.
Taken(c, h, p, i, q) ==
  /\ Source(c, h, p) /\ p <= q
  /\ \/ h = i + 1
     \/ h = 0 /\ i = 0 /\ (CoverFits(c) /\ Head(inbox[c]).kind = "event" => Head(inbox[c]).end <= q)

LEMMA TakenCovers ==
  ASSUME Flow, ReplicaFits, NEW c \in Clients, Alone(c), inbox[c] # <<>>,
         inbox'[c] = Tail(inbox[c]), link'[c].up = link[c].up, CoverFits(c),
         NEW h \in Nat, NEW p \in Nat, NEW i \in Nat, NEW q \in Nat, Taken(c, h, p, i, q)
  PROVE  Continues(c, i, q)' /\ (link[c].up => Reaches(c, i, q))'
<1> DEFINE s == inbox[c]
           t == Tail(s)
<1>1. /\ s \in Seq(ToClient) /\ s # <<>> /\ UNCHANGED fromHost /\ Sent' = Sent
  BY ClientFacts, AloneFacts
<1>2. /\ \A k \in DOMAIN t : k \in Nat /\ k + 1 \in DOMAIN s /\ t[k] = s[k + 1]
  BY <1>1, TailElements
<1>3. /\ \A k \in Nat : \A row : Has(s, k + 1, row) => Has(t, k, row)
      /\ \A row : Has(s, 0, row) /\ (Head(s).kind = "event" => Head(s).end # row)
                    => Has(t, 0, row)
  BY <1>1, HasTail
<1>4. Source(c, h, p) /\ p <= q
  BY DEF Taken
<1>5. Continues(c, h, p) /\ (link[c].up => Reaches(c, h, p))
  BY <1>4 DEF CoverFits
<1>6. h = i + 1 \/ (h = 0 /\ i = 0 /\ (Head(s).kind = "event" => Head(s).end <= q))
  BY DEF Taken
<1>7. Head(s).end \in Nat
  <2>1. Head(s) \in ToClient
    BY <1>1, TailElements
  <2> QED BY <2>1, TotalFacts
<1> HIDE DEF t
<1>8. ASSUME NEW row \in Nat, q < row, Has(s, h, row)
      PROVE  Has(t, i, row)
  <2>1. CASE h = i + 1
    BY <1>3, <1>8, <2>1
  <2>2. CASE h = 0 /\ i = 0 /\ (Head(s).kind = "event" => Head(s).end <= q)
    <3>1. Head(s).kind = "event" => Head(s).end # row
      BY <1>7, <1>8, <2>2
    <3> QED BY <1>3, <1>8, <2>2, <3>1
  <2> QED BY <1>6, <2>1, <2>2
<1>9. \A row \in Nat : q < row => p < row
  BY <1>4
<1>10. ASSUME NEW j \in Events(t), NEW row \in Nat, i < j, q < row, row <= t[j].end
       PROVE  Has(t, i, row)
  <2>1. j \in Nat /\ j + 1 \in Events(s) /\ t[j] = s[j + 1]
    BY <1>2, <1>10 DEF Events
  <2>2. h < j + 1
    BY <1>6, <1>10, <2>1
  <2>3. p < row
    BY <1>9, <1>10
  <2>4. Has(s, h, row)
    BY <1>5, <1>10, <2>1, <2>2, <2>3 DEF Continues
  <2> QED BY <1>8, <1>10, <2>4
<1>11. ASSUME link[c].up, NEW row \in Nat, q < row, row <= Sent
       PROVE  Has(t, i, row) \/ Has(fromHost, 0, row)
  <2>1. p < row
    BY <1>9, <1>11
  <2>2. Has(s, h, row) \/ Has(fromHost, 0, row)
    BY <1>5, <1>11, <2>1 DEF Reaches
  <2> QED BY <1>8, <1>11, <2>2
<1>12. inbox'[c] = t
  BY DEF t
<1>13. Continues(c, i, q)'
  BY <1>10, <1>12 DEF Continues
<1>14. (link[c].up => Reaches(c, i, q))'
  BY <1>1, <1>11, <1>12 DEF Reaches
<1> QED BY <1>13, <1>14

LEMMA TakenReplica ==
  ASSUME Flow, ReplicaFits, NEW c \in Clients, Alone(c), inbox[c] # <<>>,
         inbox'[c] = Tail(inbox[c]), link'[c].up = link[c].up, Conn(c)' = Conn(c), Waits(c),
         link'[c].asked \in Nat, link[c].asked <= link'[c].asked,
         store'[c].baseline => ~store'[c].catching /\ link'[c].awaits = None,
         \A i, q \in Nat : Source(c, i, q)' => \E h, p \in Nat : Taken(c, h, p, i, q),
         CoverFits(c) => Exact(store[c].held)'
  PROVE  ReplicaFits'
<1> DEFINE s == inbox[c]
           t == Tail(s)
<1>1. /\ s \in Seq(ToClient) /\ s # <<>> /\ StepFits(c) /\ Marked(c) /\ link[c].asked \in Nat
      /\ UNCHANGED <<topics, shown>>
  BY ClientFacts, AloneFacts
<1>2. \A k \in DOMAIN t : k \in Nat \ {0} /\ k + 1 \in DOMAIN s /\ t[k] = s[k + 1]
  BY <1>1, TailElements, SequenceElements
<1>3. \A k \in DOMAIN t : t[k].kind # "scope"
  BY <1>1, <1>2 DEF Marked
<1>4. \A k \in DOMAIN t : t[k].kind \in {"window", "failed", "refused"} =>
        t[k].request <= link'[c].asked
  <2> SUFFICES ASSUME NEW k \in DOMAIN t, t[k].kind \in {"window", "failed", "refused"}
               PROVE  t[k].request <= link'[c].asked
    OBVIOUS
  <2>1. t[k] \in ToClient /\ t[k].request <= link[c].asked
    BY <1>1, <1>2, SequenceElements DEF Marked
  <2>2. t[k].request \in Nat
    BY <2>1 DEF ToClient
  <2> QED BY SMTT(60), <1>1, <2>1, <2>2
<1> HIDE DEF t
<1>5. Marked(c)'
  BY <1>3, <1>4 DEF Marked, t
<1>6. \A i, p \in Nat : (link[c].up /\ Source(c, i, p) => Conn(c) \in topics /\ shown)'
  <2> SUFFICES ASSUME NEW i \in Nat, NEW q \in Nat, link'[c].up, Source(c, i, q)'
               PROVE  Conn(c) \in topics /\ shown
    BY <1>1
  <2>1. PICK h, p \in Nat : Taken(c, h, p, i, q)
    OBVIOUS
  <2> QED BY <1>1, <2>1 DEF StepFits, Taken
<1>7. ASSUME CoverFits(c)
      PROVE  /\ \A i, p \in Nat : (Source(c, i, p) =>
                  Continues(c, i, p) /\ (link[c].up => Reaches(c, i, p)))'
             /\ Exact(store[c].held)'
  <2>1. ASSUME NEW i \in Nat, NEW q \in Nat, Source(c, i, q)'
        PROVE  Continues(c, i, q)' /\ (link[c].up => Reaches(c, i, q))'
    <3>1. PICK h, p \in Nat : Taken(c, h, p, i, q)
      BY <2>1
    <3> QED BY <1>7, <3>1, TakenCovers
  <2> QED BY <1>7, <2>1
<1> QED BY <1>5, <1>6, <1>7, ClientReplica

LEMMA SpanGrows ==
  ASSUME NEW from \in Nat, NEW mid \in Nat, NEW end \in Nat, from <= mid, mid <= end
  PROVE  /\ Span(from, mid) \o Span(mid, end) = Span(from, end)
         /\ Append(Span(from, mid), mid + 1) = Span(from, mid + 1)
<1>1. /\ Span(from, mid) \in Seq(Nat) /\ Len(Span(from, mid)) = mid - from
      /\ \A i \in 1..(mid - from) : Span(from, mid)[i] = from + i
  BY SpanFacts
<1>2. /\ Span(mid, end) \in Seq(Nat) /\ Len(Span(mid, end)) = end - mid
      /\ \A i \in 1..(end - mid) : Span(mid, end)[i] = mid + i
  BY SpanFacts
<1>3. /\ Span(from, end) \in Seq(Nat) /\ Len(Span(from, end)) = end - from
      /\ \A i \in 1..(end - from) : Span(from, end)[i] = from + i
  <2>1. from <= end
    OBVIOUS
  <2> QED BY <2>1, SpanFacts
<1>4. /\ Span(from, mid + 1) \in Seq(Nat) /\ Len(Span(from, mid + 1)) = mid + 1 - from
      /\ \A i \in 1..(mid + 1 - from) : Span(from, mid + 1)[i] = from + i
  <2>1. from <= mid + 1 /\ mid + 1 \in Nat
    OBVIOUS
  <2> QED BY <2>1, SpanFacts
<1>5. ASSUME NEW a \in Seq(Nat), NEW b \in Seq(Nat), Len(a) = mid - from, Len(b) = end - mid,
             \A i \in 1..(mid - from) : a[i] = from + i,
             \A i \in 1..(end - mid) : b[i] = mid + i,
             NEW u \in Seq(Nat), Len(u) = end - from,
             \A i \in 1..(end - from) : u[i] = from + i
      PROVE  a \o b = u
  <2>1. a \o b \in Seq(Nat) /\ Len(a \o b) = Len(a) + Len(b)
    BY <1>5, ConcatProperties
  <2>2. Len(a \o b) = Len(u)
    BY <1>5, <2>1
  <2>3. ASSUME NEW i \in 1..Len(a \o b)
        PROVE  (a \o b)[i] = u[i]
    <3>1. i \in 1..(Len(a) + Len(b))
      BY <2>1, <2>3
    <3>2. (a \o b)[i] = IF i <= Len(a) THEN a[i] ELSE b[i - Len(a)]
      BY <1>5, <3>1, ConcatProperties
    <3> QED BY SMTT(60), <1>5, <3>1, <3>2
  <2> QED BY <2>1, <2>2, <2>3, <1>5, SeqEqual
<1>6. ASSUME NEW a \in Seq(Nat), Len(a) = mid - from,
             \A i \in 1..(mid - from) : a[i] = from + i,
             NEW u \in Seq(Nat), Len(u) = mid + 1 - from,
             \A i \in 1..(mid + 1 - from) : u[i] = from + i
      PROVE  Append(a, mid + 1) = u
  <2>0. mid + 1 \in Nat /\ a \in Seq(Nat)
    BY <1>6
  <2>1. Append(a, mid + 1) \in Seq(Nat) /\ Len(Append(a, mid + 1)) = Len(a) + 1
    BY <2>0, AppendProperties
  <2>2. Len(Append(a, mid + 1)) = Len(u)
    BY <1>6, <2>1
  <2>3. ASSUME NEW i \in 1..Len(Append(a, mid + 1))
        PROVE  Append(a, mid + 1)[i] = u[i]
    BY SMTT(60), <1>6, <2>1, <2>3, AppendProperties
  <2> QED BY <2>1, <2>2, <2>3, <1>6, SeqEqual
<1> QED BY <1>1, <1>2, <1>3, <1>4, <1>5, <1>6

Taking(c) ==
  /\ inbox[c] # <<>> /\ inbox'[c] = Tail(inbox[c])
  /\ \A d \in Clients : d # c => inbox'[d] = inbox[d]
  /\ UNCHANGED <<log, served, toHost, fromHost, mux>>

LEMMA TakingFacts ==
  ASSUME Flow, ReplicaFits, NEW c \in Clients, Taking(c), NEW m, m = Head(inbox[c])
  PROVE  /\ m \in ToClient /\ 1 \in DOMAIN inbox[c] /\ inbox[c][1] = m
         /\ m.end \in Nat /\ m.total \in Nat /\ Ordered(inbox[c], Sent)
         /\ \A i \in DOMAIN inbox'[c] : /\ i \in Nat \ {0} /\ i + 1 \in DOMAIN inbox[c]
                                        /\ inbox'[c][i] = inbox[c][i + 1]
         /\ store[c].baseline /\ m.kind # "scope" =>
              /\ ~store[c].catching /\ link[c].awaits = None /\ HeldEnd(store[c].held) \in Nat
              /\ Source(c, 0, HeldEnd(store[c].held))
         /\ \A i \in DOMAIN inbox'[c] : inbox'[c][i].kind = "window" =>
              inbox'[c][i].request \in Nat /\ inbox'[c][i].request <= link[c].asked
<1>1. /\ inbox[c] \in Seq(ToClient) /\ inbox[c] # <<>> /\ inbox'[c] = Tail(inbox[c]) /\ Marked(c)
      /\ store[c].baseline => store[c].held # None
      /\ Ordered(inbox[c], Sent)
  BY ClientFacts DEF Taking
<1>2. /\ m \in ToClient /\ 1 \in DOMAIN inbox[c] /\ inbox[c][1] = m
      /\ \A i \in DOMAIN inbox'[c] : /\ i \in Nat \ {0} /\ i + 1 \in DOMAIN inbox[c]
                                     /\ inbox'[c][i] = inbox[c][i + 1]
  BY <1>1, TailElements, SequenceElements
<1>3. m.end \in Nat /\ m.total \in Nat
  BY <1>2, TotalFacts
<1>4. store[c].baseline /\ m.kind # "scope" =>
        /\ ~store[c].catching /\ link[c].awaits = None /\ HeldEnd(store[c].held) \in Nat
        /\ Source(c, 0, HeldEnd(store[c].held))
  <2> SUFFICES ASSUME store[c].baseline, m.kind # "scope"
               PROVE  /\ ~store[c].catching /\ link[c].awaits = None
                      /\ HeldEnd(store[c].held) \in Nat
                      /\ Source(c, 0, HeldEnd(store[c].held))
    OBVIOUS
  <2>1. ~HasScope(c)
    BY DEF HasScope
  <2>2. HeldEnd(store[c].held) \in Nat
    BY <1>1, HeldEndFacts DEF Flow
  <2> QED BY <1>1, <2>1, <2>2 DEF Marked, Source
<1>5. \A i \in DOMAIN inbox'[c] : inbox'[c][i].kind = "window" =>
        inbox'[c][i].request \in Nat /\ inbox'[c][i].request <= link[c].asked
  <2> SUFFICES ASSUME NEW i \in DOMAIN inbox'[c], inbox'[c][i].kind = "window"
               PROVE  inbox'[c][i].request \in Nat /\ inbox'[c][i].request <= link[c].asked
    OBVIOUS
  <2>1. /\ i + 1 \in DOMAIN inbox[c] /\ inbox'[c][i] = inbox[c][i + 1]
        /\ inbox[c][i + 1] \in ToClient
    BY <1>1, <1>2, SequenceElements
  <2>2. inbox[c][i + 1].request \in Nat
    BY <2>1 DEF ToClient
  <2> QED BY <1>1, <2>1, <2>2 DEF Marked
<1> QED BY <1>1, <1>2, <1>3, <1>4, <1>5

\* What waits behind the head waits one place further on.
LEMMA ShiftTaken ==
  ASSUME Flow, ReplicaFits, NEW c \in Clients, Taking(c),
         NEW i \in DOMAIN inbox'[c], NEW q \in Nat, Awaited(link[c], inbox'[c][i]),
         q = inbox'[c][i].total
  PROVE  \E h, p \in Nat : Taken(c, h, p, i, q)
<1>1. i \in Nat \ {0} /\ i + 1 \in DOMAIN inbox[c] /\ inbox'[c][i] = inbox[c][i + 1]
  BY TakingFacts
<1>2. Source(c, i + 1, q)
  BY <1>1 DEF Source
<1>3. Taken(c, i + 1, q, i, q)
  BY <1>2 DEF Taken
<1> QED BY <1>1, <1>3

LEMMA ApplyPlainReplica ==
  ASSUME Flow, ReplicaFits, NEW c \in Clients, Taking(c), link' = link,
         \A d \in Clients : d # c => store'[d] = store[d],
         store'[c].held = store[c].held, store'[c].catching = store[c].catching,
         store'[c].baseline => store[c].baseline,
         store'[c].baseline => Head(inbox[c]).kind \notin {"scope", "event"}
  PROVE  ReplicaFits'
<1> DEFINE m == Head(inbox[c])
<1>1. Alone(c) /\ Waits(c) /\ Conn(c)' = Conn(c)
  BY DEF Alone, Waits, Conn, Taking
<1>2. /\ link[c].asked \in Nat
  BY ClientFacts
<1>3. store[c].baseline /\ m.kind # "scope" =>
        /\ ~store[c].catching /\ link[c].awaits = None /\ HeldEnd(store[c].held) \in Nat
        /\ Source(c, 0, HeldEnd(store[c].held))
  BY TakingFacts
<1>4. ASSUME NEW i \in Nat, NEW q \in Nat, Source(c, i, q)'
      PROVE  \E h, p \in Nat : Taken(c, h, p, i, q)
  <2>1. CASE i = 0 /\ store'[c].baseline /\ q = HeldEnd(store'[c].held)
    <3>1. m.kind # "event" /\ Source(c, 0, q)
      BY <1>3, <2>1
    <3>2. Taken(c, 0, q, 0, q)
      BY <3>1 DEF Taken
    <3> QED BY <2>1, <3>2
  <2>2. CASE i \in DOMAIN inbox'[c] /\ Awaited(link[c], inbox'[c][i]) /\ q = inbox'[c][i].total
    BY <2>2, ShiftTaken
  <2> QED BY <1>4, <2>1, <2>2 DEF Source, HeldEnd
<1>5. CoverFits(c) => Exact(store[c].held)'
  BY DEF CoverFits, Exact, HeldEnd, Span
<1> QED BY <1>1, <1>2, <1>3, <1>4, <1>5, TakenReplica DEF Taking

LEMMA ApplyEventReplica ==
  ASSUME Flow, ReplicaFits, NEW c \in Clients, Taking(c), NEW m, m = Head(inbox[c]),
         m.kind = "event", ApplyEvent(c, m), store[c].baseline
  PROVE  ReplicaFits'
<1> DEFINE old == store[c].held
           n == store'[c]
           k == link'[c]
<1>1. /\ m \in ToClient /\ 1 \in DOMAIN inbox[c] /\ inbox[c][1] = m
      /\ m.end \in Nat /\ m.total \in Nat /\ Ordered(inbox[c], Sent)
      /\ ~store[c].catching /\ link[c].awaits = None /\ HeldEnd(old) \in Nat
      /\ Source(c, 0, HeldEnd(old))
  <2>1. m.kind # "scope"
    OBVIOUS
  <2> QED BY <2>1, TakingFacts
<1>2. /\ \A d \in Clients : d # c => store'[d] = store[d]
      /\ old # None /\ n.held # None /\ n.held.from = old.from
      /\ n.held.rows = Append(old.rows, m.end)
      /\ HeldEnd(n.held) = HeldEnd(old) + 1 /\ HeldEnd(old) < m.end
      /\ n.baseline = store[c].baseline /\ n.catching = store[c].catching
      /\ LinkSteps(c)
  BY ZenonT(60), <1>1, ApplyEventDoes DEF Taking
<1>3. /\ link[c] \in Links /\ link[c].asked \in Nat /\ inbox[c] \in Seq(ToClient)
      /\ link \in [Clients -> Links]
  BY ClientFacts
<1>4. /\ k \in Links /\ k.up = link[c].up /\ k.epoch = link[c].epoch /\ link[c].asked <= k.asked
      /\ \A d \in Clients : d # c => link'[d] = link[d]
  BY <1>2 DEF LinkSteps, LinkStep
<1>5. k.awaits = None
  <2>1. link' = [link EXCEPT ![c] = RememberAfter(@, HeldEnd(old) + 1)]
    BY <1>1 DEF ApplyEvent
  <2>2. k = RememberAfter(link[c], HeldEnd(old) + 1)
    BY <1>3, <2>1
  <2> QED BY <1>1, <1>3, <2>2 DEF RememberAfter, Links
<1>6. k.asked \in Nat
  BY <1>4 DEF Links
<1> HIDE DEF n, k
<1>7. Alone(c) /\ Conn(c)' = Conn(c)
  BY <1>2, <1>4 DEF Alone, Conn, Taking, k
<1>8. Waits(c)
  <2>1. \A r \in Flight : r.id # None
    BY FlightIds, NoneFacts
  <2> QED BY <1>5, <2>1 DEF Waits, k
<1>9. ASSUME CoverFits(c)
      PROVE  m.end = HeldEnd(old) + 1
  <2>1. 1 \in Events(inbox[c]) /\ HeldEnd(old) + 1 \in Nat
    BY <1>1 DEF Events
  <2>2. HeldEnd(old) + 1 <= inbox[c][1].end /\ HeldEnd(old) < HeldEnd(old) + 1 /\ 0 < 1
    BY <1>1, <1>2
  <2>3. Continues(c, 0, HeldEnd(old))
    BY <1>1, <1>9 DEF CoverFits
  <2>4. Has(inbox[c], 0, HeldEnd(old) + 1)
    <3> DEFINE p == HeldEnd(old)
    <3> HIDE DEF p
    <3> QED BY <2>1, <2>2, <2>3 DEF Continues, p
  <2>5. /\ DOMAIN inbox[c] \subseteq Nat \ {0}
        /\ \A i \in DOMAIN inbox[c] : inbox[c][i].total \in Nat
    BY <1>3, SequenceElements, TotalFacts
  <2>6. m.end = m.total
    BY <1>1, <2>1 DEF Ordered, WellMade, Events
  <2>7. HeldEnd(old) < inbox[c][1].total
    BY <1>1, <1>2, <2>6
  <2> QED BY <1>1, <2>1, <2>4, <2>5, <2>7, HasFirst
<1>10. ASSUME NEW i \in Nat, NEW q \in Nat, Source(c, i, q)'
       PROVE  \E h, p \in Nat : Taken(c, h, p, i, q)
  <2>1. i = 0 /\ q = HeldEnd(n.held)
    BY <1>5, <1>10 DEF Source, Awaited, n, k, HeldEnd
  <2>2. q = HeldEnd(old) + 1 /\ HeldEnd(old) <= q
    BY <1>1, <1>2, <2>1 DEF n
  <2>3. CoverFits(c) => m.end <= q
    BY <1>1, <1>9, <2>2
  <2>4. Taken(c, 0, HeldEnd(old), i, q)
    BY <1>1, <2>1, <2>2, <2>3 DEF Taken
  <2> QED BY <1>1, <2>4
<1>11. ASSUME CoverFits(c)
       PROVE  Exact(store[c].held)'
  <2>1. old.rows = Span(old.from, HeldEnd(old))
    BY <1>2, <1>11 DEF CoverFits, Exact
  <2>2. old.from \in Nat /\ old.from <= HeldEnd(old)
    <3>1. old.from \in Nat /\ old.rows \in Seq(Nat)
      BY <1>2, HeldEndFacts DEF Flow
    <3>2. Len(old.rows) \in Nat
      BY <3>1, LenProperties
    <3> QED BY <3>1, <3>2 DEF HeldEnd
  <2>3. Append(Span(old.from, HeldEnd(old)), HeldEnd(old) + 1) = Span(old.from, HeldEnd(old) + 1)
    <3>1. HeldEnd(old) <= HeldEnd(old)
      BY <1>1
    <3> HIDE DEF old
    <3> QED BY <1>1, <2>2, <3>1, SpanGrows
  <2>4. n.held.rows = Span(n.held.from, HeldEnd(n.held))
    BY ZenonT(60), <1>2, <1>9, <1>11, <2>1, <2>3 DEF n
  <2> QED BY <2>4 DEF Exact, n, HeldEnd, Span
<1> QED
  BY ZenonT(60), <1>1, <1>2, <1>4, <1>5, <1>6, <1>7, <1>8, <1>10, <1>11, TakenReplica
  DEF Taking, n, k

LEMMA ApplyWindowReplica ==
  ASSUME Flow, ReplicaFits, NEW c \in Clients, Taking(c), NEW m, m = Head(inbox[c]),
         m.kind = "window", IsCurrent(link[c], m), ApplyWindow(c, m)
  PROVE  ReplicaFits' /\ ~store[c].baseline
<1> DEFINE old == store[c].held
           n == store'[c]
           k == link'[c]
<1>1. /\ m \in ToClient /\ 1 \in DOMAIN inbox[c] /\ inbox[c][1] = m
      /\ m.end \in Nat /\ m.total \in Nat
      /\ \A i \in DOMAIN inbox'[c] : inbox'[c][i].kind = "window" =>
           inbox'[c][i].request \in Nat /\ inbox'[c][i].request <= link[c].asked
  BY TakingFacts
<1>2. link[c].awaits # None /\ m.request = link[c].awaits
  BY DEF IsCurrent
<1>3. ~store[c].baseline
  <2>1. m.kind # "scope"
    OBVIOUS
  <2> QED BY <1>2, <2>1, TakingFacts
<1>4. /\ \A d \in Clients : d # c => store'[d] = store[d]
      /\ m.from <= m.end /\ m.end <= m.total /\ m.from \in Nat
      /\ n.held # None /\ HeldEnd(n.held) = m.end
      /\ \/ n.held.from = m.from /\ n.held.rows = Span(m.from, m.end)
         \/ /\ old # None /\ HeldEnd(old) = m.from /\ n.held.from = old.from
            /\ n.held.rows = old.rows \o Span(m.from, m.end)
      /\ n.baseline = (store[c].baseline \/ ~(m.end < m.total))
      /\ n.catching = (m.end < m.total)
      /\ LinkSteps(c)
      /\ k.awaits # None => m.end < m.total /\ link[c].asked < k.awaits
  BY ZenonT(60), ApplyWindowDoes DEF Taking
<1>4a. /\ m.from \in Nat /\ m.from <= m.end /\ m.end <= m.total
       /\ k.awaits # None => m.end < m.total /\ link[c].asked < k.awaits
  BY Zenon, <1>4
<1>5. link[c].asked \in Nat
  BY ClientFacts
<1>6. /\ k \in Links /\ k.up = link[c].up /\ k.epoch = link[c].epoch /\ link[c].asked <= k.asked
      /\ \A d \in Clients : d # c => link'[d] = link[d]
  BY ZenonT(60), <1>4 DEF LinkSteps, LinkStep
<1>7. k.asked \in Nat /\ k.awaits \in Nat \union {None}
  BY <1>6 DEF Links
<1> HIDE DEF n, k
<1>8. n.baseline => m.end = m.total /\ ~n.catching /\ k.awaits = None
  <2>1. n.baseline => ~(m.end < m.total) /\ ~n.catching /\ k.awaits = None
    BY <1>3, <1>4, Zenon
  <2>2. ~(m.end < m.total) => m.end = m.total
    BY <1>1, <1>4a
  <2> QED BY <2>1, <2>2
<1>9. Alone(c) /\ Conn(c)' = Conn(c)
  BY ZenonT(60), <1>4, <1>6 DEF Alone, Conn, Taking, k
<1>10. Waits(c)
  <2> SUFFICES ASSUME NEW r \in Flight, r.conn = Conn(c)', r.id = k.awaits
               PROVE  FALSE
    BY DEF Waits, k
  <2>1. r.conn[1] = c
    BY DEF Conn
  <2>2. r.id \in Nat /\ r.id <= link[c].asked
    BY <2>1, FlightIds
  <2>3. k.awaits # None
    BY <2>2, NoneFacts
  <2> QED BY <1>4a, <1>5, <2>2, <2>3
<1>11. ASSUME NEW i \in Nat, NEW q \in Nat, Source(c, i, q)'
       PROVE  \E h, p \in Nat : Taken(c, h, p, i, q)
  <2>1. CASE i = 0 /\ n.baseline /\ q = HeldEnd(n.held)
    <3>1. q = m.total
      BY ZenonT(60), <1>4, <1>8, <2>1
    <3>2. Source(c, 1, m.total)
      BY <1>1, <1>2 DEF Source, Awaited
    <3>3. Taken(c, 1, m.total, i, q)
      BY <1>1, <2>1, <3>1, <3>2 DEF Taken
    <3> QED BY <1>1, <3>3
  <2>2. CASE i \in DOMAIN inbox'[c] /\ Awaited(k, inbox'[c][i])
    <3>1. /\ inbox'[c][i].kind = "window" /\ k.awaits # None /\ inbox'[c][i].request = k.awaits
      BY SMTT(60), <2>2 DEF Awaited
    <3> QED BY <1>1, <1>4a, <1>5, <2>2, <3>1
  <2> QED BY <1>11, <2>1, <2>2 DEF Source, HeldEnd, n, k
<1>12. ASSUME CoverFits(c)
       PROVE  Exact(store[c].held)'
  <2>1. CASE n.held.from = m.from /\ n.held.rows = Span(m.from, m.end)
    BY <1>4, <2>1 DEF Exact, n, HeldEnd, Span
  <2>2. CASE /\ old # None /\ HeldEnd(old) = m.from /\ n.held.from = old.from
             /\ n.held.rows = old.rows \o Span(m.from, m.end)
    <3>1. old.rows = Span(old.from, m.from)
      BY <1>12, <2>2 DEF CoverFits, Exact
    <3>2. old.from \in Nat /\ old.from <= m.from
      <4>1. old.from \in Nat /\ old.rows \in Seq(Nat)
        BY <2>2, HeldEndFacts DEF Flow
      <4>2. Len(old.rows) \in Nat
        BY SMTT(60), <4>1, LenProperties
      <4> QED BY <2>2, <4>1, <4>2 DEF HeldEnd
    <3>3. Span(old.from, m.from) \o Span(m.from, m.end) = Span(old.from, m.end)
      <4> HIDE DEF old
      <4> QED BY ZenonT(60), <1>1, <1>4a, <3>2, SpanGrows
    <3>4. n.held.rows = Span(n.held.from, HeldEnd(n.held))
      BY ZenonT(60), <1>4, <2>2, <3>1, <3>3
    <3> QED BY <3>4 DEF Exact, n, HeldEnd, Span
  <2> QED BY ZenonT(60), <1>4, <2>1, <2>2
<1>13. ReplicaFits'
  BY <1>5, <1>6, <1>7, <1>8, <1>9, <1>10, <1>11, <1>12, TakenReplica DEF Taking, n, k
<1> QED BY <1>3, <1>13

LEMMA ApplyReplica ==
  ASSUME Flow, ReplicaFits, NEW c \in Clients, Apply(c)
  PROVE  ReplicaFits'
<1> DEFINE m == Head(inbox[c])
<1>1. /\ inbox[c] # <<>> /\ inbox' = [inbox EXCEPT ![c] = Tail(@)]
      /\ UNCHANGED <<log, served, toHost, fromHost, mux>>
      /\ \/ m.kind = "scope" /\ ApplyScope(c, m)
         \/ m.kind = "event" /\ ApplyEvent(c, m)
         \/ m.kind = "window" /\ IsCurrent(link[c], m) /\ ApplyWindow(c, m)
         \/ /\ m.kind \in {"failed", "refused"}
            /\ store' = [store EXCEPT ![c].failed = TRUE]
            /\ UNCHANGED link
         \/ m.kind \in {"window", "failed", "refused"} /\ UNCHANGED <<store, link>>
  BY DEF Apply
<1>2. /\ inbox \in [Clients -> Seq(ToClient)] /\ store \in [Clients -> Stores]
      /\ store[c] \in Stores /\ Marked(c)
  BY ClientFacts
<1>3. Taking(c)
  BY <1>1, <1>2 DEF Taking
<1> HIDE DEF m
<1>4. CASE m.kind = "scope" /\ ApplyScope(c, m)
  <2>1. 1 \in DOMAIN inbox[c] /\ inbox[c][1] = m
    BY <1>3, TakingFacts DEF m
  <2>2. link[c].up /\ m.request = link[c].epoch
    BY <1>2, <1>4, <2>1 DEF Marked
  <2>3. link' = link /\ store' = [store EXCEPT ![c].scoped = TRUE, ![c].baseline = FALSE]
    BY <1>4, <2>2 DEF ApplyScope
  <2>4. /\ \A d \in Clients : d # c => store'[d] = store[d]
        /\ store'[c].held = store[c].held /\ store'[c].catching = store[c].catching
        /\ ~store'[c].baseline
    BY <1>2, <2>3 DEF Stores
  <2> QED BY <1>3, <2>3, <2>4, ApplyPlainReplica
<1>5. CASE m.kind = "event" /\ ApplyEvent(c, m)
  <2>1. CASE store[c].baseline
    BY <1>3, <1>5, <2>1, ApplyEventReplica DEF m
  <2>2. CASE ~store[c].baseline
    <3>1. store' = store /\ link' = link
      BY <1>5, <2>2 DEF ApplyEvent
    <3> QED BY <1>3, <2>2, <3>1, ApplyPlainReplica
  <2> QED BY <2>1, <2>2
<1>6. CASE m.kind = "window" /\ IsCurrent(link[c], m) /\ ApplyWindow(c, m)
  BY <1>3, <1>6, ApplyWindowReplica DEF m
<1>7. CASE m.kind \in {"failed", "refused"} /\ store' = [store EXCEPT ![c].failed = TRUE]
             /\ UNCHANGED link
  <2>1. /\ \A d \in Clients : d # c => store'[d] = store[d]
        /\ store'[c].held = store[c].held /\ store'[c].catching = store[c].catching
        /\ store'[c].baseline = store[c].baseline
    BY <1>2, <1>7 DEF Stores
  <2> QED BY <1>3, <1>7, <2>1, ApplyPlainReplica DEF m
<1>8. CASE m.kind \in {"window", "failed", "refused"} /\ UNCHANGED <<store, link>>
  <2>1. store' = store /\ link' = link /\ m.kind \notin {"scope", "event"}
    BY <1>8
  <2> QED BY <1>3, <2>1, ApplyPlainReplica DEF m
<1> QED BY <1>1, <1>4, <1>5, <1>6, <1>7, <1>8

-------------------------------------------------------------------------------
(* What the runs check *)

LEMMA InitReplica ==
  ASSUME Init
  PROVE  ReplicaFits
<1>1. /\ fromHost = <<>> /\ toHost = <<>> /\ hydration = None
      /\ inbox = [c \in Clients |-> <<>>]
      /\ link = [c \in Clients |-> [up |-> TRUE, epoch |-> 0, wants |-> FALSE, after |-> None,
                                   awaits |-> None, asked |-> 0, out |-> None]]
      /\ store = [c \in Clients |-> [scoped |-> TRUE, held |-> None, baseline |-> FALSE,
                                    catching |-> FALSE, failed |-> FALSE]]
  BY DEF Init
<1>2. DOMAIN <<>> = {}
  OBVIOUS
<1>3. Flight = {}
  BY <1>1, <1>2 DEF Flight, Asking, Waiting, Waiters, RequestsAt, Tells, Asks, Told
<1>4. ShownFits
  BY <1>1, <1>2 DEF ShownFits
<1>5. ASSUME NEW c \in Clients
      PROVE  StepFits(c) /\ CoverFits(c)
  <2>1. inbox[c] = <<>> /\ ~store[c].baseline /\ store[c].held = None
    BY <1>1
  <2>2. \A i, p : ~Source(c, i, p)
    BY <1>2, <2>1 DEF Source
  <2> QED BY <1>1, <1>2, <1>3, <2>1, <2>2 DEF StepFits, Marked, CoverFits, Exact
<1> QED BY <1>4, <1>5 DEF ReplicaFits

LEMMA StillReplica ==
  ASSUME ReplicaFits, UNCHANGED vars
  PROVE  ReplicaFits'
<1>1. UNCHANGED <<log, hydration, toHost, fromHost, topics, pending, inbox, link, store,
                  shown, gap>>
  BY DEF vars, served, mux
<1>2. Sent' = Sent /\ Waiters' = Waiters
  BY <1>1 DEF Sent, Waiters
<1>3. Flight' = Flight
  BY <1>1, <1>2 DEF Flight, Asking, Waiting, Tells
<1>4. ShownFits'
  BY <1>1 DEF ReplicaFits, ShownFits
<1>5. ASSUME NEW c \in Clients
      PROVE  (StepFits(c) /\ (gap \/ CoverFits(c)))'
  <2>1. StepFits(c) /\ (gap \/ CoverFits(c))
    BY DEF ReplicaFits
  <2>2. Conn(c)' = Conn(c) /\ \A i, p : Source(c, i, p)' <=> Source(c, i, p)
    BY <1>1 DEF Conn, Source, HasScope
  <2>3. StepFits(c)'
    BY <1>1, <1>3, <2>1, <2>2 DEF StepFits, Marked, HasScope
  <2>4. CoverFits(c) => CoverFits(c)'
    BY <1>1, <1>2, <2>2 DEF CoverFits, Continues, Reaches, AwaitedOn, Follows, Conn
  <2> QED BY <1>1, <2>1, <2>3, <2>4
<1> QED BY <1>4, <1>5 DEF ReplicaFits

LEMMA NextReplica ==
  ASSUME InStep, Flow, ReplicaFits, [Next]_vars
  PROVE  ReplicaFits'
<1>1. CASE Host
  BY <1>1, HostReplica
<1>2. CASE Mux
  BY <1>2, MuxLineReplica, MuxMessageReplica DEF Mux
<1>3. ASSUME NEW c \in Clients, Client(c)
      PROVE  ReplicaFits'
  BY <1>3, LoseReplica, RestoreReplica, SelectReplica, LeaveReplica, ForgetReplica,
     HearsOfLossReplica, ApplyReplica DEF Client
<1>4. CASE UNCHANGED vars
  BY <1>4, StillReplica
<1> QED BY <1>1, <1>2, <1>3, <1>4 DEF Next

\* As long as the store is never behind a reconnect, every replica is exact, and what
\* the inbox and the host's messages still hold continues it row by row.
THEOREM ReplicasFit ==
  ASSUME "lag" \notin Upsets
  PROVE  Spec => [](Flow /\ ReplicaFits)
<1>1. Init => Flow /\ ReplicaFits
  BY InitFlow, InitReplica
<1>2. Flow /\ ReplicaFits /\ [Next]_vars => Flow' /\ ReplicaFits'
  BY NextFlow, NextReplica DEF InStep
<1> QED BY <1>1, <1>2, PTL DEF Spec

\* What a client shows or keeps of a thread is the log's rows from where it starts,
\* each once and in order: no record is skipped and none is counted twice, whichever
\* of windows, held records and live events brought them, and however connections
\* are lost and made anew, as long as the store is never behind a reconnect.
THEOREM ReplicasAreTheLog ==
  ASSUME "lag" \notin Upsets
  PROVE  Spec => []ReplicaIsTheLog
<1>1. Flow /\ ReplicaFits => ReplicaIsTheLog
  <2> SUFFICES ASSUME Flow, ReplicaFits, ~gap, NEW c \in Clients, store[c].held # None
               PROVE  /\ HeldEnd(store[c].held) <= log
                      /\ store[c].held.rows = Span(store[c].held.from, HeldEnd(store[c].held))
    BY DEF ReplicaIsTheLog
  <2>1. HeldEnd(store[c].held) <= Sent
    BY DEF Flow, OrderFits, ClientOrdered
  <2>2. Sent \in Nat /\ Sent <= log /\ log \in Nat /\ HeldEnd(store[c].held) \in Nat
    BY SentFacts, HeldEndFacts, RowFacts DEF Flow, Types, HostTypes
  <2>3. Exact(store[c].held)
    BY DEF ReplicaFits, CoverFits
  <2> QED BY <2>1, <2>2, <2>3 DEF Exact
<1> QED BY <1>1, ReplicasFit, PTL

LEMMA PrefixFacts ==
  ASSUME NEW S, NEW s \in Seq(S)
  PROVE  IsPrefix(s, s) /\ \A e \in S : IsPrefix(s, Append(s, e))
<1>1. Len(s) \in Nat /\ \A i \in 1..Len(s) : s[i] \in S
  BY SequenceElements
<1>2. IsPrefix(s, s)
  BY <1>1 DEF IsPrefix
<1>3. ASSUME NEW e \in S
      PROVE  IsPrefix(s, Append(s, e))
  <2>1. /\ Len(Append(s, e)) = Len(s) + 1 /\ \A i \in 1..Len(s) : Append(s, e)[i] = s[i]
    BY AppendProperties
  <2>2. SubSeq(s, 1, Len(s)) = SubSeq(Append(s, e), 1, Len(s))
    BY <1>1, <2>1
  <2> QED BY <1>1, <2>1, <2>2 DEF IsPrefix
<1> QED BY <1>2, <1>3

\* A replica with its baseline gains rows at its end and nothing else happens to it:
\* the answer to an older request, applied late, is told from the current one.
THEOREM ReplicasOnlyGrow ==
  ASSUME "lag" \notin Upsets
  PROVE  Spec => ReplicaOnlyGrows
<1> DEFINE Grows(c) == /\ IsPrefix(store[c].held.rows, store'[c].held.rows)
                       /\ store'[c].held.from = store[c].held.from
<1>1. ASSUME Flow, ReplicaFits, [Next]_vars, NEW c \in Clients,
             store[c].baseline, store'[c].baseline
      PROVE  Grows(c)
  <2> DEFINE m == Head(inbox[c])
  <2>1. /\ store \in [Clients -> Stores] /\ store[c] \in Stores /\ store[c].held # None
        /\ link[c].wants
    BY <1>1, ClientFacts
  <2>2. store[c].held.rows \in Seq(Nat)
    BY <1>1, <2>1, HeldEndFacts DEF Flow
  <2>3. ASSUME store'[c].held = store[c].held
        PROVE  Grows(c)
    BY <2>2, <2>3, PrefixFacts
  <2> HIDE DEF Grows
  <2>4. CASE Host \/ Mux \/ UNCHANGED vars
    <3>1. store' = store
      BY <2>4 DEF Host, RecordEvent, HostTakes, TailRead, FinishHydration, FailHydration,
        LoadBackground, Evict, Archive, ReleaseLog, Mux, MuxTakesMessage, MuxTakesLine,
        MuxTakesRest, vars
    <3> QED BY <2>3, <3>1
  <2>5. ASSUME NEW d \in Clients, Lose(d) \/ Restore(d) \/ Select(d)
        PROVE  Grows(c)
    <3>1. store' = store
      BY <2>5 DEF Lose, Restore, Select
    <3> QED BY <2>3, <3>1
  <2>6. ASSUME NEW d \in Clients, Leave(d) \/ HearsOfLoss(d)
        PROVE  Grows(c)
    <3>1. store'[c].held = store[c].held
      BY <2>1, <2>6 DEF Leave, HearsOfLoss, Stores
    <3> QED BY <2>3, <3>1
  <2>7. ASSUME NEW d \in Clients, Forget(d)
        PROVE  Grows(c)
    <3>1. d # c /\ store' = [store EXCEPT ![d].held = None]
      BY <2>1, <2>7 DEF Forget
    <3>2. store'[c] = store[c]
      BY SMTT(60), <2>1, <3>1
    <3> QED BY <2>3, <3>2
  <2>8. ASSUME NEW d \in Clients, Apply(d), d # c
        PROVE  Grows(c)
    <3>1. store'[c] = store[c]
      BY ZenonT(60), <2>1, <2>8 DEF Apply, ApplyScope, ApplyEvent, ApplyWindow
    <3> QED BY <2>3, <3>1
  <2>9. CASE Apply(c)
    <3>1. /\ inbox[c] # <<>> /\ inbox' = [inbox EXCEPT ![c] = Tail(@)]
          /\ UNCHANGED <<log, served, toHost, fromHost, mux>>
          /\ \/ m.kind = "scope" /\ ApplyScope(c, m)
             \/ m.kind = "event" /\ ApplyEvent(c, m)
             \/ m.kind = "window" /\ IsCurrent(link[c], m) /\ ApplyWindow(c, m)
             \/ store' = [store EXCEPT ![c].failed = TRUE]
             \/ store' = store
      BY <2>9 DEF Apply
    <3>2. Taking(c)
      <4>1. inbox \in [Clients -> Seq(ToClient)]
        BY <1>1, ClientFacts
      <4> QED BY <3>1, <4>1 DEF Taking
    <3>3. CASE m.kind = "scope" /\ ApplyScope(c, m)
      <4>1. store' = store \/ store' = [store EXCEPT ![c].scoped = TRUE, ![c].baseline = FALSE]
        BY <3>3 DEF ApplyScope
      <4>2. store' # [store EXCEPT ![c].scoped = TRUE, ![c].baseline = FALSE]
        BY <1>1, <2>1 DEF Stores
      <4> QED BY <2>3, <4>1, <4>2
    <3>4. CASE m.kind = "event" /\ ApplyEvent(c, m)
      <4>1. m.kind # "scope"
        BY <3>4
      <4>2. m.end \in Nat /\ ~store[c].catching
        BY <1>1, <3>2, <4>1, TakingFacts
      <4> HIDE DEF m
      <4>3. /\ store'[c].held.from = store[c].held.from
            /\ store'[c].held.rows = Append(store[c].held.rows, m.end)
        BY <1>1, <3>1, <3>4, <4>2, ApplyEventDoes DEF m
      <4> QED BY <2>2, <4>2, <4>3, PrefixFacts DEF Grows
    <3>5. CASE m.kind = "window" /\ IsCurrent(link[c], m) /\ ApplyWindow(c, m)
      BY <1>1, <3>2, <3>5, ApplyWindowReplica
    <3>6. CASE store' = [store EXCEPT ![c].failed = TRUE]
      <4>1. store'[c].held = store[c].held
        BY <2>1, <3>6 DEF Stores
      <4> QED BY <2>3, <4>1
    <3>7. CASE store' = store
      BY <2>3, <3>7
    <3> QED BY <3>1, <3>3, <3>4, <3>5, <3>6, <3>7
  <2> QED BY <1>1, <2>4, <2>5, <2>6, <2>7, <2>8, <2>9 DEF Next, Client
<1>2. Flow /\ ReplicaFits /\ [Next]_vars =>
        [\A c \in Clients : store[c].baseline /\ store'[c].baseline =>
           IsPrefix(store[c].held.rows, store'[c].held.rows)
             /\ store'[c].held.from = store[c].held.from]_vars
  BY <1>1
<1> QED BY <1>2, ReplicasFit, PTL DEF ReplicaOnlyGrows, Spec

===============================================================================
