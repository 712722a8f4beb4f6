----------------------------- MODULE Subscriptions -----------------------------
(***************************************************************************)
(* How the clients that show a thread follow its log: the host's log in    *)
(* memory and its hydration (src/crates/runtime/src/app/history.rs), the   *)
(* mux between the host and the connections (src/crates/traverse/src/      *)
(* mux.rs), the client link's cursors (src/crates/client/src/lib.rs) and   *)
(* the replica the store keeps (src/crates/ui/src/store/mod.rs).           *)
(*                                                                         *)
(* One topic, the SessionEvents of one thread.  A record is its row, 1 to  *)
(* log; a live event on the wire names no row, and the client counts.      *)
(* The mux's global id of a request is the connection and the local id.    *)
(***************************************************************************)
EXTENDS Naturals, Sequences, SequencesExt

CONSTANTS
  Clients,
  None,        \* no cursor, no request, no hydration, no line
  WindowRows,  \* the rows a window has room for
  MaxRecords,  \* bound: the records the thread accepts
  MaxAsks,     \* bound: selections and departures together
  MaxUpsets,   \* bound: what Upsets names, together
  Upsets       \* "loss", "refuse", "misread", "forget", "load", "archive", and
               \*   "lag": the store may be behind a reconnect, with what an earlier
               \*   connection sent or with the scope of one that ends

ASSUME BoundsAssumption ==
  {MaxRecords, MaxAsks, MaxUpsets} \subseteq Nat /\ WindowRows \in Nat \ {0}

VARIABLES
  log,       \* the rows the thread's log has, written or on their way there
  host,      \* [place, cached, subscribed]: the thread's residency, whether its
             \*   log is in memory, and whether the host sends the topic
  hydration, \* the log being read: [cut, live, replies]; rows after cut are pending
  toHost,    \* lines from the mux to the host
  fromHost,  \* messages from the host to the mux
  topics,    \* the connections the mux sends the topic's events to
  pending,   \* the subscriptions that wait for the host's answer
  deferred,  \* the topic is to be released once they are answered
  lines,     \* lines[conn]: lines of an ended connection the mux has not read
  inbox,     \* inbox[c]: what the store of c has not applied
  link,      \* link[c]: the client's link, [up, epoch, wants, after, awaits, asked,
             \*   out]: awaits is the request whose answer is current, and out the
             \*   line the mux has not read
  store,     \* store[c]: the client's store, [scoped, held, baseline, catching, failed]
  shown,     \* history: an answer went out since the topic was first asked for
  gap,       \* history: after that, records were held that never went out
  asks, upsets

mux == <<topics, pending, deferred>>
served == <<host, hydration, shown, gap>>
counts == <<asks, upsets>>
vars == <<log, served, toHost, fromHost, mux, lines, inbox, link, store, counts>>

-------------------------------------------------------------------------------
Conns == Clients \X (0..MaxUpsets)
Rows == 0..MaxRecords
Cursors == Rows \union {None}

Requests == [conn : Conns, id : Nat]
Asked == [request : Requests, after : Cursors]
Hydrations == [cut : Nat, live : BOOLEAN, replies : Seq(Asked)]
Replicas == [from : Nat, rows : Seq(Nat)]

Conn(c) == <<c, link[c].epoch>>
Upset(kind) == kind \in Upsets /\ upsets < MaxUpsets /\ upsets' = upsets + 1
Ask == asks < MaxAsks /\ asks' = asks + 1

Line(kind, request, after) == [kind |-> kind, request |-> request, after |-> after]

Unsubscribing == Line("unsubscribe", None, None)
Subscribing(requests) == [kind : {"subscribe"}, request : requests, after : Cursors]

ASSUME NoneAssumption ==
  None \notin Nat \union Requests \union Hydrations \union Replicas
               \union Subscribing(Nat) \union {Unsubscribing}

Message(kind, request, from, end, total) ==
  [kind |-> kind, request |-> request, from |-> from, end |-> end, total |-> total]

Event(row) == Message("event", None, row - 1, row, row)

\* events_window: from the request's cursor on as far as the rows fit, or without a
\* cursor the newest that do.
Window(reply, total) ==
  LET newest == IF total > WindowRows THEN total - WindowRows ELSE 0
      from == IF reply.after = None \/ reply.after > total THEN newest ELSE reply.after
      end == IF total - from > WindowRows THEN from + WindowRows ELSE total
  IN Message("window", reply.request, from, end, total)

\* reply_with: an answer and its Ack while the topic is subscribed, and else the Ack
\* alone.  The two are one message here: by the time of the Ack the answer has
\* settled the request.
Answer(reply, message) ==
  IF host.subscribed THEN message ELSE Message("ack", reply.request, 0, 0, 0)

Replies(replies, total) ==
  [i \in DOMAIN replies |-> Answer(replies[i], Window(replies[i], total))]

-------------------------------------------------------------------------------
(* The host *)

Hydration(cut, live, replies) == [cut |-> cut, live |-> live, replies |-> replies]

\* hydrate_log: the log's hydration, begun unless it is under way.
Hydrated == IF hydration = None THEN Hydration(log, FALSE, <<>>) ELSE hydration

\* record_event: a log in memory takes the record and it goes out at once; a log
\* being read holds it, and sends it only when it is live; anybody else's record
\* is only appended.
RecordEvent ==
  /\ log < MaxRecords
  /\ log' = log + 1
  /\ LET held == host.place # "none" \/ host.subscribed \/ hydration # None
         out == host.cached \/ (hydration # None /\ hydration.live)
     IN /\ hydration' = IF held /\ ~host.cached THEN Hydrated ELSE hydration
        /\ fromHost' = IF out THEN Append(fromHost, Event(log')) ELSE fromHost
  /\ UNCHANGED <<host, shown, gap, toHost, mux, lines, inbox, link, store, counts>>

\* subscribe: the first subscription selects the thread, and reply_to_subscription
\* answers it from the log in memory, or else from the first of two reads to end:
\* the log's, which waits for everybody, or its tail's, which is for this request.
Subscribe(line) ==
  LET reply == [request |-> line.request, after |-> line.after]
      place == IF host.subscribed THEN host.place ELSE "viewed"
  IN /\ host' = [host EXCEPT !.subscribed = TRUE, !.place = place]
     /\ IF host.cached
          THEN /\ fromHost' = Append(fromHost, Window(reply, log))
               /\ shown' = TRUE
               /\ UNCHANGED hydration
          ELSE /\ hydration' = [Hydrated EXCEPT !.replies = Append(@, reply)]
               /\ UNCHANGED <<fromHost, shown>>

\* A subscription the principal may not have is answered and nothing else.
Refuse(line) ==
  /\ Upset("refuse")
  /\ fromHost' = Append(fromHost, Message("refused", line.request, 0, 0, 0))
  /\ UNCHANGED <<host, hydration, shown>>

\* unsubscribe and park_active: the thread is parked; one that is not worth it is
\* evicted at once.
Unsubscribe ==
  /\ host' = [host EXCEPT !.subscribed = FALSE,
                          !.place = IF @ = "viewed" THEN "parked" ELSE @]
  /\ shown' = FALSE
  /\ UNCHANGED <<hydration, fromHost>>

HostTakes ==
  /\ toHost # <<>>
  /\ toHost' = Tail(toHost)
  /\ LET line == Head(toHost)
     IN \/ line.kind = "subscribe" /\ Subscribe(line) /\ UNCHANGED upsets
        \/ line.kind = "subscribe" /\ Refuse(line)
        \/ line.kind = "unsubscribe" /\ Unsubscribe /\ UNCHANGED upsets
  /\ UNCHANGED <<log, gap, mux, lines, inbox, link, store, asks>>

\* Records are held that have not gone out, and somebody has been answered.
HeldBack == shown /\ ~hydration.live /\ log > hydration.cut

\* The tail's read ends first and has found an index.  It answers its request,
\* unless records are pending: then the log's read does.  The log is live from now
\* on either way.
TailRead ==
  /\ hydration # None
  /\ \E i \in DOMAIN hydration.replies :
       IF log > hydration.cut
       THEN /\ hydration' = [hydration EXCEPT !.live = TRUE]
            /\ gap' = (gap \/ HeldBack)
            /\ UNCHANGED <<fromHost, shown>>
       ELSE LET reply == hydration.replies[i]
                others == RemoveAt(hydration.replies, i)
            IN /\ hydration' = Hydration(hydration.cut, TRUE, others)
               /\ fromHost' = Append(fromHost, Answer(reply, Window(reply, log)))
               /\ shown' = (shown \/ host.subscribed)
               /\ UNCHANGED gap
  /\ UNCHANGED <<log, host, toHost, mux, lines, inbox, link, store, counts>>

Held == [i \in 1..(log - hydration.cut) |-> Event(hydration.cut + i)]

\* Mutant: the pending records go out although the windows hold them.
HydratedOutMutant(live) ==
  IF live THEN Held \o Replies(hydration.replies, log)
          ELSE Held \o Replies(hydration.replies, hydration.cut)

\* What a finished read sends: windows that hold the pending records where they
\* are out already, and else the windows and the pending records after them.
HydratedOut(live) ==
  IF live THEN Replies(hydration.replies, log)
          ELSE Replies(hydration.replies, hydration.cut) \o Held

\* Mutant: the hydration stays although the log is in memory.
HydrationEndsMutant == UNCHANGED hydration

HydrationEnds == hydration' = None

\* finish_hydration: everything that waited is served in the order of the rows,
\* and the log stays in memory if its thread is resident.
FinishHydration ==
  /\ hydration # None
  /\ \E indexed \in BOOLEAN :
       LET live == hydration.live \/ (indexed /\ hydration.replies # <<>>)
       IN /\ fromHost' = fromHost \o HydratedOut(live)
          /\ gap' = (gap \/ (live /\ HeldBack))
  /\ shown' = (shown \/ (host.subscribed /\ hydration.replies # <<>>))
  /\ host' = [host EXCEPT !.cached = host.place # "none"]
  /\ HydrationEnds
  /\ UNCHANGED <<log, toHost, mux, lines, inbox, link, store, counts>>

Failures(replies) ==
  [i \in DOMAIN replies |->
     Answer(replies[i], Message("failed", replies[i].request, 0, 0, 0))]

\* The log cannot be read: every request is told, and the pending records go.
FailHydration ==
  /\ hydration # None /\ Upset("misread")
  /\ fromHost' = fromHost \o Failures(hydration.replies)
  /\ gap' = (gap \/ HeldBack)
  /\ HydrationEnds
  /\ UNCHANGED <<log, host, shown, toHost, mux, lines, inbox, link, store, asks>>

\* load_background_session: a child's thread is brought back for its own work.
LoadBackground ==
  /\ host.place = "none" /\ Upset("load")
  /\ host' = [host EXCEPT !.place = "parked"]
  /\ hydration' = IF host.cached THEN hydration ELSE Hydrated
  /\ UNCHANGED <<log, shown, gap, toHost, fromHost, mux, lines, inbox, link, store, asks>>

\* A parked thread is idle for too long, or one too many.
Evict ==
  /\ host.place = "parked"
  /\ host' = [host EXCEPT !.place = "none"]
  /\ UNCHANGED <<log, hydration, shown, gap, toHost, fromHost, mux, lines, inbox, link,
                 store, counts>>

\* archive_session_ids drops a thread that somebody may have on screen.
Archive ==
  /\ host.place = "viewed" /\ Upset("archive")
  /\ host' = [host EXCEPT !.place = "none"]
  /\ UNCHANGED <<log, hydration, shown, gap, toHost, fromHost, mux, lines, inbox, link,
                 store, asks>>

\* release_stale_session_logs: every append of a log whose thread has left is
\* written, and the log leaves the memory.
ReleaseLog ==
  /\ host.cached /\ host.place = "none"
  /\ host' = [host EXCEPT !.cached = FALSE]
  /\ UNCHANGED <<log, hydration, shown, gap, toHost, fromHost, mux, lines, inbox, link,
                 store, counts>>

-------------------------------------------------------------------------------
(* The mux *)

\* release_subscription: the host is told that nobody wants the topic, now or when
\* the last pending subscription is answered.
Release(ts, waiting) ==
  IF ts # {} THEN deferred' = FALSE /\ UNCHANGED toHost
  ELSE IF waiting # {} THEN deferred' = TRUE /\ UNCHANGED toHost
  ELSE deferred' = FALSE /\ toHost' = Append(toHost, Unsubscribing)

Forward(conn, line) ==
  /\ LET request == [conn |-> conn, id |-> line.request]
     IN /\ pending' = pending \union {request}
        /\ toHost' = Append(toHost, Line("subscribe", request, line.after))
  /\ UNCHANGED <<topics, deferred>>

Others(conn) == {request \in pending : request.conn # conn}

\* Mutant: other connections' pending subscriptions are not looked at.
WithdrawMutant(conn) ==
  /\ topics' = topics \ {conn}
  /\ pending' = Others(conn)
  /\ IF topics' # {} THEN UNCHANGED <<toHost, deferred>> ELSE Release({}, {})

\* An unsubscribe goes on to the host if nobody else has the topic or waits for it;
\* while somebody waits, it is put off until the host answers.
Withdraw(conn) ==
  /\ topics' = topics \ {conn}
  /\ pending' = Others(conn)
  /\ IF topics' # {} THEN UNCHANGED <<toHost, deferred>> ELSE Release({}, pending')

\* Mutant: a subscription that waits for its answer does not count as the
\* connection's.
ClosedMutant(conn) ==
  /\ topics' = topics \ {conn}
  /\ pending' = Others(conn)
  /\ IF conn \in topics THEN Release(topics', pending') ELSE UNCHANGED <<toHost, deferred>>

\* A connection that ends gives up the topic it has or waits for.
Closed(conn) ==
  /\ topics' = topics \ {conn}
  /\ pending' = Others(conn)
  /\ IF conn \in topics \/ pending' # pending
       THEN Release(topics', pending')
       ELSE UNCHANGED <<toHost, deferred>>

Read(conn, line) ==
  \/ line.kind = "subscribe" /\ Forward(conn, line)
  \/ line.kind = "unsubscribe" /\ Withdraw(conn)

MuxTakesLine(c) ==
  /\ link[c].up /\ link[c].out # None
  /\ Read(Conn(c), link[c].out)
  /\ link' = [link EXCEPT ![c].out = None]
  /\ UNCHANGED <<log, served, fromHost, lines, inbox, store, counts>>

\* What is left of a connection that ended.
MuxTakesRest(conn) ==
  /\ lines[conn] # <<>>
  /\ LET line == Head(lines[conn])
     IN IF line.kind = "closed" THEN Closed(conn) ELSE Read(conn, line)
  /\ lines' = [lines EXCEPT ![conn] = Tail(@)]
  /\ UNCHANGED <<log, served, fromHost, inbox, link, store, counts>>

\* What the mux sends to a connection reaches the client while that one lasts.
Deliver(conns, message) ==
  inbox' = [c \in Clients |->
             IF link[c].up /\ Conn(c) \in conns THEN Append(inbox[c], message) ELSE inbox[c]]

Subscribed(request) ==
  /\ topics' = topics \union {request.conn}
  /\ pending' = pending \ {request}
  /\ deferred' = FALSE

\* An answer subscribes its connection, if that one still waits for it, and is for
\* that connection alone.
Answered(message) ==
  LET request == message.request
  IN /\ IF request \in pending THEN Subscribed(request) ELSE UNCHANGED mux
     /\ IF message.kind = "ack" THEN UNCHANGED inbox
        ELSE Deliver(topics' \intersect {request.conn}, [message EXCEPT !.request = request.id])
     /\ UNCHANGED toHost

\* A subscription refused may be the last that a release waited for.
Refused(message) ==
  LET request == message.request
  IN /\ pending' = pending \ {request}
     /\ IF request \in pending /\ deferred THEN Release(topics, pending')
                                           ELSE UNCHANGED <<toHost, deferred>>
     /\ Deliver({request.conn}, [message EXCEPT !.request = request.id])
     /\ UNCHANGED topics

MuxTakesMessage ==
  /\ fromHost # <<>>
  /\ fromHost' = Tail(fromHost)
  /\ LET message == Head(fromHost)
     IN \/ message.kind = "event" /\ Deliver(topics, message) /\ UNCHANGED <<mux, toHost>>
        \/ message.kind \in {"window", "failed", "ack"} /\ Answered(message)
        \/ message.kind = "refused" /\ Refused(message)
  /\ UNCHANGED <<log, served, lines, link, store, counts>>

-------------------------------------------------------------------------------
(* The client's link *)

\* send_subscription: outgoing keeps the newest unsent line of a topic.  A line sent
\* but not read counts as unsent: that the mux reads it at once is always possible
\* too.  No answer is current while there is no connection to send by.
SendSubscription(l, after) ==
  IF l.up THEN [l EXCEPT !.after = after, !.asked = @ + 1, !.awaits = l.asked + 1,
                         !.out = Line("subscribe", l.asked + 1, after)]
          ELSE [l EXCEPT !.after = after, !.awaits = None]

\* update_after and remember_after do nothing when the cursor is where it was.  The
\* request that remember_after puts in the current one's place is never sent, so no
\* answer is current from then on.
UpdateAfter(l, after) == IF l.after = after THEN l ELSE SendSubscription(l, after)
RememberAfter(l, after) ==
  IF l.after = after THEN l ELSE [l EXCEPT !.after = after, !.awaits = None]

\* Mutant: any answer will do while the thread is on screen.
IsCurrentMutant(l, message) == l.wants

\* subscription_reply_is_current: an answer to an older request, or to one whose
\* answer was applied, is not.
IsCurrent(l, message) == l.awaits # None /\ message.request = l.awaits

\* The connection ends.  The line on its way may still be read, be gone with the
\* backoff or, where a wake reconnects at once, wait for the next connection; of
\* the messages the store has not applied some have arrived.
Lose(c) ==
  /\ link[c].up /\ Upset("loss")
  /\ "lag" \in Upsets \/ \A i \in DOMAIN inbox[c] : inbox[c][i].kind # "scope"
  /\ \E out \in {link[c].out, None}, read \in {link[c].out, None} :
       /\ out = None \/ read = None
       /\ link' = [link EXCEPT ![c].up = FALSE, ![c].out = out]
       /\ lines' = [lines EXCEPT ![Conn(c)] =
                      Append(IF read = None THEN <<>> ELSE <<read>>,
                             Line("closed", None, None))]
  /\ \E n \in 0..Len(inbox[c]) : inbox' = [inbox EXCEPT ![c] = SubSeq(@, 1, n)]
  /\ UNCHANGED <<log, served, toHost, fromHost, mux, store, asks>>

\* Mutant: a new connection asks for nothing.
RestoredMutant(l) == [l EXCEPT !.up = TRUE, !.epoch = @ + 1]

\* set_connection_state: a new connection asks for all the link is subscribed to,
\* from its latest cursors.
Restored(l) ==
  LET up == [l EXCEPT !.up = TRUE, !.epoch = @ + 1]
  IN IF l.wants THEN SendSubscription(up, l.after) ELSE up

\* The scope is asked for first and answered at once, ahead of everything else.
\* Only where the store lags is something of an earlier connection before it.
Restore(c) ==
  /\ ~link[c].up /\ ("lag" \notin Upsets => inbox[c] = <<>>)
  /\ link' = [link EXCEPT ![c] = Restored(@)]
  /\ inbox' = [inbox EXCEPT ![c] = Append(@, Message("scope", link[c].epoch + 1, 0, 0, 0))]
  /\ UNCHANGED <<log, served, toHost, fromHost, mux, lines, store, counts>>

-------------------------------------------------------------------------------
(* The client's store *)

HeldEnd(held) == held.from + Len(held.rows)
Span(from, end) == [i \in 1..(end - from) |-> from + i]

\* select_session: the thread is asked for from where its replica ends, if there
\* is one from an earlier visit.
Select(c) ==
  /\ ~link[c].wants /\ store[c].scoped /\ Ask
  /\ LET held == store[c].held
         after == IF held = None THEN None ELSE HeldEnd(held)
     IN link' = [link EXCEPT ![c] = SendSubscription([@ EXCEPT !.wants = TRUE], after)]
  /\ UNCHANGED <<log, served, toHost, fromHost, mux, lines, inbox, store, upsets>>

\* leave_session: the replica is kept for the next visit.
Leave(c) ==
  /\ link[c].wants /\ Ask
  /\ LET l == link[c]
     IN link' = [link EXCEPT ![c] =
          [l EXCEPT !.wants = FALSE, !.awaits = None,
                    !.out = IF l.up THEN Unsubscribing ELSE @]]
  /\ store' = [store EXCEPT ![c].baseline = FALSE, ![c].catching = FALSE,
                             ![c].failed = FALSE]
  /\ UNCHANGED <<log, served, toHost, fromHost, mux, lines, inbox, upsets>>

\* release_left_threads: the thread was left too long ago.
Forget(c) ==
  /\ ~link[c].wants /\ store[c].held # None /\ Upset("forget")
  /\ store' = [store EXCEPT ![c].held = None]
  /\ UNCHANGED <<log, served, toHost, fromHost, mux, lines, inbox, link, asks>>

\* apply_connection_state: the store hears that the link went down, and forgets
\* its baselines unless the new connection's scope came first.
HearsOfLoss(c) ==
  /\ store[c].scoped
  /\ ~link[c].up \/ \E i \in DOMAIN inbox[c] : inbox[c][i].kind = "scope"
  /\ store' = [store EXCEPT ![c].scoped = FALSE, ![c].baseline = FALSE]
  /\ UNCHANGED <<log, served, toHost, fromHost, mux, lines, inbox, link, counts>>

ApplyScope(c, message) ==
  /\ store' = IF link[c].up /\ message.request = link[c].epoch
                THEN [store EXCEPT ![c].scoped = TRUE, ![c].baseline = FALSE]
                ELSE store
  /\ UNCHANGED link

\* A window continues the replica or replaces it.  While the log goes on after it,
\* the next one is asked for; the last one is the baseline that events follow.
ApplyWindow(c, message) ==
  LET held == store[c].held
      rows == Span(message.from, message.end)
      continues == held # None /\ link[c].after = message.from
                     /\ HeldEnd(held) = message.from
      next == IF continues THEN [held EXCEPT !.rows = @ \o rows]
                           ELSE [from |-> message.from, rows |-> rows]
      consumed == [link[c] EXCEPT !.awaits = None]
      catching == message.end < message.total
  IN /\ store' = [store EXCEPT ![c].held = next, ![c].catching = catching,
                               ![c].baseline = @ \/ ~catching]
     /\ link' = [link EXCEPT ![c] = IF catching THEN UpdateAfter(consumed, message.end)
                                                ELSE RememberAfter(consumed, message.end)]

\* A live event is the next row of a replica that has its baseline, and part of the
\* window to come otherwise.
ApplyEvent(c, message) ==
  IF store[c].baseline /\ ~store[c].catching
  THEN /\ store' = [store EXCEPT ![c].held.rows = Append(@, message.end)]
       /\ link' = [link EXCEPT ![c] = RememberAfter(@, HeldEnd(store[c].held) + 1)]
  ELSE UNCHANGED <<store, link>>

\* apply_domain_event, for the thread on screen.
Apply(c) ==
  /\ inbox[c] # <<>>
  /\ inbox' = [inbox EXCEPT ![c] = Tail(@)]
  /\ LET message == Head(inbox[c])
         current == IsCurrent(link[c], message)
     IN \/ message.kind = "scope" /\ ApplyScope(c, message)
        \/ message.kind = "event" /\ ApplyEvent(c, message)
        \/ message.kind = "window" /\ current /\ ApplyWindow(c, message)
        \/ /\ message.kind \in {"failed", "refused"} /\ current
           /\ store' = [store EXCEPT ![c].failed = TRUE]
           /\ UNCHANGED link
        \/ /\ message.kind \in {"window", "failed", "refused"} /\ ~current
           /\ UNCHANGED <<store, link>>
  /\ UNCHANGED <<log, served, toHost, fromHost, mux, lines, counts>>

-------------------------------------------------------------------------------
Init ==
  /\ log = 0
  /\ host = [place |-> "none", cached |-> FALSE, subscribed |-> FALSE]
  /\ hydration = None
  /\ toHost = <<>> /\ fromHost = <<>>
  /\ topics = {} /\ pending = {} /\ deferred = FALSE
  /\ lines = [conn \in Conns |-> <<>>] /\ inbox = [c \in Clients |-> <<>>]
  /\ link = [c \in Clients |-> [up |-> TRUE, epoch |-> 0, wants |-> FALSE, after |-> None,
                               awaits |-> None, asked |-> 0, out |-> None]]
  /\ store = [c \in Clients |-> [scoped |-> TRUE, held |-> None, baseline |-> FALSE,
                                catching |-> FALSE, failed |-> FALSE]]
  /\ shown = FALSE /\ gap = FALSE /\ asks = 0 /\ upsets = 0

Host ==
  \/ RecordEvent \/ HostTakes \/ TailRead
  \/ FinishHydration \/ FailHydration \/ LoadBackground \/ Evict \/ Archive \/ ReleaseLog

Mux ==
  \/ MuxTakesMessage
  \/ \E c \in Clients : MuxTakesLine(c)
  \/ \E conn \in Conns : MuxTakesRest(conn)

Client(c) ==
  \/ Lose(c) \/ Restore(c)
  \/ Select(c) \/ Leave(c) \/ Forget(c) \/ HearsOfLoss(c) \/ Apply(c)

Next == Host \/ Mux \/ \E c \in Clients : Client(c)

Spec == Init /\ [][Next]_vars

\* Every task runs whenever it can, reads of the log end, and a lost connection is
\* made anew; nobody need ask for anything.
Fairness ==
  /\ WF_vars(HostTakes) /\ WF_vars(FinishHydration) /\ WF_vars(Mux)
  /\ WF_vars(\E c \in Clients : Apply(c)) /\ WF_vars(\E c \in Clients : Restore(c))

FairSpec == Spec /\ Fairness

-------------------------------------------------------------------------------
(* Properties *)

\* Every variable has its type, and the log is never both in memory and being
\* read (Hydration, "none while its log is resident").
TypeOK ==
  /\ log \in Rows
  /\ host \in [place : {"none", "viewed", "parked"}, cached : BOOLEAN, subscribed : BOOLEAN]
  /\ hydration = None \/ hydration \in [cut : 0..log, live : BOOLEAN, replies : Seq(Asked)]
  /\ host.cached => hydration = None
  /\ ToSet(toHost) \subseteq Subscribing(Requests) \union {Unsubscribing}
  /\ \A i \in DOMAIN fromHost :
       /\ fromHost[i].kind \in {"event", "window", "ack", "refused", "failed"}
       /\ (fromHost[i].kind = "event") = (fromHost[i].request = None)
  /\ topics \subseteq Conns /\ deferred \in BOOLEAN
  /\ pending \subseteq Requests
  /\ \A c \in Clients :
       /\ link[c].up \in BOOLEAN /\ Conn(c) \in Conns /\ link[c].wants \in BOOLEAN
       /\ link[c].after \in Cursors
       /\ link[c].awaits # None => link[c].wants /\ link[c].awaits = link[c].asked
       /\ store[c].baseline => store[c].held # None /\ link[c].wants
  /\ asks \in 0..MaxAsks /\ upsets \in 0..MaxUpsets

\* Whatever the store shows or keeps of a thread is the log's rows from where it
\* starts, each once and in order, though live events name no row and the client
\* only counts them: no record is skipped, none is counted twice, whichever of
\* windows, held records and live events brought them.
ReplicaIsTheLog ==
  gap \/ \A c \in Clients : store[c].held # None =>
    /\ HeldEnd(store[c].held) <= log
    /\ store[c].held.rows = Span(store[c].held.from, HeldEnd(store[c].held))

\* While a replica has its baseline it only gains rows at its end: no answer to an
\* older request takes it back ("to avoid a stale tail resetting live records",
\* client/src/lib.rs).
ReplicaOnlyGrows ==
  [][\A c \in Clients : store[c].baseline /\ store'[c].baseline =>
       IsPrefix(store[c].held.rows, store'[c].held.rows)
         /\ store'[c].held.from = store[c].held.from]_vars

\* A connection that the mux sends the topic to is never left without a source: the
\* host sends it and is not on its way to stop, whatever other connections that
\* wait, leave, are refused or close ask for meanwhile.
SubscriberIsServed ==
  topics # {} => host.subscribed /\ \A i \in DOMAIN toHost : toHost[i].kind = "subscribe"

\* Once every line and answer has arrived, the host sends the topic only if some
\* connection has it: a release put off for a pending subscription is made up for.
NothingIsLeftOn ==
  toHost = <<>> /\ pending = {} => (host.subscribed => topics # {})

\* A client that stays on the thread ends up with all of its records, or with the
\* host's refusal or failure to read them ("A reconnect replays from that cursor
\* exactly", docs/remote.md).
Current(c) ==
  \/ ~link[c].wants \/ store[c].failed \/ gap
  \/ store[c].baseline /\ HeldEnd(store[c].held) = log

EveryoneCatchesUp == \A c \in Clients : []<>Current(c)

===============================================================================
