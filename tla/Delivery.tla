------------------------------- MODULE Delivery -------------------------------
(***************************************************************************)
(* How a device's writes reach the host it is attached to: the outbox of   *)
(* the client (src/crates/client/src/lib.rs), the reconnecting transport   *)
(* (src/crates/traverse/src/client.rs) and the host's cache of completed   *)
(* commands (src/crates/runtime/src/pipe.rs).                              *)
(*                                                                         *)
(* The link and the transport are tasks of their own: the transport        *)
(* publishes what its connection does, and the link hears of it some time  *)
(* later.  A write is its number, which stands for its delivery key.       *)
(***************************************************************************)
EXTENDS Naturals, Sequences, FiniteSets

CONSTANTS
  Slow,         \* the writes the host runs in a task of their own
  OutboxLimit,  \* outbox::MAX_ITEMS, 256 in the code
  QueueLimit,   \* outgoing::MAX_LINES, 256 in the code
  CacheLimit,   \* the completed commands a host keeps, 512 in the code
  Prompt,       \* TRUE: the link hears of the transport's news before it sends
  MaxWrites,    \* bound: the writes a device makes
  MaxFaults     \* bound: lost connections, failed dials, stalls, wakes,
                \*   relaunches and failed saves together

Writes == 1..MaxWrites

ASSUME WritesAssumption == MaxWrites \in Nat /\ Slow \subseteq Writes
ASSUME LimitsAssumption ==
  /\ OutboxLimit \in Nat \ {0} /\ QueueLimit \in Nat \ {0}
  /\ CacheLimit \in Nat \ {0} /\ MaxFaults \in Nat /\ Prompt \in BOOLEAN

VARIABLES
  outbox,   \* the link's retained writes, oldest first (Delivery.writes)
  stored,   \* the keys in the outbox's file
  link,     \* the connection state the link believes in: "up" or "down"
  flushing, \* a task has found the link up and goes on to send what it can
  news,     \* states the transport published and the link has not applied
  queue,    \* lines the link handed over and the transport has not written
  line,     \* the transport: "backoff", "dialing" or "relaying"
  wakes,    \* calls to reconnect the transport has not taken
  conn,     \* the number of the connection made last
  wire,     \* wire[c]: lines of connection c on their way into the host
  replies,  \* Acks on their way to the link
  cache,    \* keys of the commands the host remembers to have completed
  running,  \* commands the host runs in tasks, with the connection to answer
  used,     \* history: the uses of the cache: commands completed (fresh) or
            \*   answered from it, in order
  executed, \* history: the commands completed, in order
  issued,   \* history: the writes made so far are 1..issued
  acked,    \* history: the writes whose Ack the link has taken
  failed,   \* history: the writes reported as failed to the user
  faults    \* history: what has gone wrong so far

client == <<outbox, stored, link, flushing>>
transport == <<queue, line, wakes, conn>>
host == <<cache, running, used, executed>>
vars == <<client, news, transport, wire, replies, host, issued, acked, failed, faults>>

-------------------------------------------------------------------------------
Elements(s) == {s[i] : i \in DOMAIN s}
Keys(box) == [i \in DOMAIN box |-> box[i].key]
Without(s, i) == SubSeq(s, 1, i - 1) \o SubSeq(s, i + 1, Len(s))
Conns == 0..(MaxFaults + 1)

Fault == faults < MaxFaults /\ faults' = faults + 1

\* The writes at the head of the outbox that are sent and wait for their Acks.
SentCount(box) ==
  CHOOSE n \in 0..Len(box) :
    /\ \A i \in 1..n : box[i].sent
    /\ n < Len(box) => ~box[n + 1].sent

\* Mutant: the queue takes one line more than it has room for.
FlushCountMutant ==
  LET unsent == Len(outbox) - SentCount(outbox)
      room == QueueLimit + 1 - Len(queue)
  IN IF unsent < room THEN unsent ELSE room

\* flush_outbox sends what follows them, as far as the transport's queue takes it.
FlushCount ==
  LET unsent == Len(outbox) - SentCount(outbox)
      room == QueueLimit - Len(queue)
  IN IF unsent < room THEN unsent ELSE room

\* Mutant: only the oldest entry waits to be sent again.
UnsentMutant(box) == [i \in DOMAIN box |-> [box[i] EXCEPT !.sent = @ /\ i > 1]]

\* Every entry waits to be sent again once the connection is gone.
Unsent(box) == [i \in DOMAIN box |-> [box[i] EXCEPT !.sent = FALSE]]

-------------------------------------------------------------------------------
(* The link *)

Grown == Append(outbox, [key |-> issued + 1, sent |-> FALSE])

\* Mutant: the write that falls out is not reported.
AdmittedMutant ==
  LET kept == IF Len(Grown) > OutboxLimit THEN Tail(Grown) ELSE Grown
  IN /\ stored' = Keys(kept)
     /\ outbox' = kept
     /\ flushing' = (flushing \/ link = "up")
     /\ UNCHANGED <<failed, faults>>

\* A new write goes to the back of the outbox, and the oldest one falls out of a
\* full one and fails.
Admitted ==
  LET kept == IF Len(Grown) > OutboxLimit THEN Tail(Grown) ELSE Grown
  IN /\ stored' = Keys(kept)
     /\ failed' = failed \union (Elements(Keys(Grown)) \ Elements(Keys(kept)))
     /\ outbox' = kept
     /\ flushing' = (flushing \/ link = "up")
     /\ UNCHANGED faults

\* Mutant: the write stays in the outbox although it could not be saved.
RefusedMutant ==
  /\ Fault
  /\ failed' = failed \union {issued + 1}
  /\ Len(Grown) <= OutboxLimit /\ outbox' = Grown
  /\ UNCHANGED <<stored, flushing>>

\* The new snapshot could not be saved: the write fails and all is as before.
Refused ==
  /\ Fault
  /\ failed' = failed \union {issued + 1}
  /\ UNCHANGED <<outbox, stored, flushing>>

Enqueue ==
  /\ issued < MaxWrites
  /\ Admitted \/ Refused
  /\ issued' = issued + 1
  /\ UNCHANGED <<link, news, transport, wire, replies, host, acked>>

\* The pump takes an Ack.  The write it is for leaves the outbox, and a second Ack
\* for it finds nothing; a save that fails is only logged.
TakeAck ==
  /\ replies # <<>>
  /\ \/ /\ \A i \in DOMAIN outbox : outbox[i].key # Head(replies)
        /\ UNCHANGED <<outbox, stored, acked, faults>>
     \/ \E i \in DOMAIN outbox :
          /\ outbox[i].key = Head(replies)
          /\ outbox' = Without(outbox, i)
          /\ acked' = acked \union {Head(replies)}
          /\ \/ stored' = Keys(outbox') /\ UNCHANGED faults
             \/ Fault /\ UNCHANGED stored
  /\ replies' = Tail(replies)
  /\ flushing' = (flushing \/ link = "up")
  /\ UNCHANGED <<link, news, transport, wire, host, issued, failed>>

\* check_deadlines flushes what an earlier pass found no room for.
Tick ==
  /\ link = "up" /\ ~flushing /\ FlushCount > 0
  /\ flushing' = TRUE
  /\ UNCHANGED <<outbox, stored, link, news, transport, wire, replies, host,
                 issued, acked, failed, faults>>

\* flush_outbox looks at the link's state first and takes the outbox's lock then:
\* the state may be another one by the time it sends.
Flush ==
  /\ flushing /\ (Prompt => news = <<>>)
  /\ LET first == SentCount(outbox) + 1
         last == SentCount(outbox) + FlushCount
     IN /\ outbox' = [i \in DOMAIN outbox |->
                       [outbox[i] EXCEPT !.sent = @ \/ i \in first..last]]
        /\ queue' = queue \o SubSeq(Keys(outbox), first, last)
  /\ flushing' = FALSE
  /\ UNCHANGED <<stored, link, news, line, wakes, conn, wire, replies, host,
                 issued, acked, failed, faults>>

\* The oldest sent write has waited 30 seconds: the link hangs up by itself.
Stall ==
  /\ link = "up" /\ \E i \in DOMAIN outbox : outbox[i].sent
  /\ Fault
  /\ link' = "down"
  /\ outbox' = Unsent(outbox)
  /\ wakes' = wakes + 1
  /\ UNCHANGED <<stored, flushing, news, queue, line, conn, wire, replies, host,
                 issued, acked, failed>>

\* The app comes back to the foreground: the connection is made anew, and the
\* link is not told before the transport tells it.
Foreground ==
  /\ Fault
  /\ wakes' = wakes + 1
  /\ UNCHANGED <<client, news, queue, line, conn, wire, replies, host,
                 issued, acked, failed>>

\* Mutant: the writes sent over the lost connection still count as sent.
ApplyDownMutant ==
  /\ news # <<>> /\ Head(news) = "down"
  /\ link' = "down"
  /\ news' = Tail(news)
  /\ UNCHANGED <<outbox, stored, flushing, transport, wire, replies, host,
                 issued, acked, failed, faults>>

ApplyDown ==
  /\ news # <<>> /\ Head(news) = "down"
  /\ link' = "down"
  /\ outbox' = Unsent(outbox)
  /\ news' = Tail(news)
  /\ UNCHANGED <<stored, flushing, transport, wire, replies, host,
                 issued, acked, failed, faults>>

ApplyUp ==
  /\ news # <<>> /\ Head(news) = "up"
  /\ link' = "up"
  /\ flushing' = TRUE
  /\ news' = Tail(news)
  /\ UNCHANGED <<outbox, stored, transport, wire, replies, host,
                 issued, acked, failed, faults>>

-------------------------------------------------------------------------------
(* The transport *)

\* What is on its way when a connection ends: the host may still read some of
\* the lines, and some of the Acks may have been read already.
Cut ==
  /\ \E n \in 0..Len(wire[conn]) : wire' = [wire EXCEPT ![conn] = SubSeq(@, 1, n)]
  /\ \E n \in 0..Len(replies) : replies' = SubSeq(replies, 1, n)

HangUp == IF line = "relaying" THEN Cut ELSE UNCHANGED <<wire, replies>>

\* Mutant: the transport keeps the retained writes it still holds.
RedialMutant ==
  /\ line' = "dialing"
  /\ news' = Append(news, "down")
  /\ UNCHANGED queue

\* The head of connection_loop: the outbox owns the retained writes, so those the
\* transport still holds are dropped before it dials.
Redial ==
  /\ line' = "dialing"
  /\ queue' = <<>>
  /\ news' = Append(news, "down")

Lose ==
  /\ line = "relaying"
  /\ Fault
  /\ HangUp
  /\ line' = "backoff"
  /\ news' = Append(news, "down")
  /\ UNCHANGED <<client, queue, wakes, conn, host, issued, acked, failed>>

DialFails ==
  /\ line = "dialing"
  /\ Fault
  /\ line' = "backoff"
  /\ news' = Append(news, "down")
  /\ UNCHANGED <<client, queue, wakes, conn, wire, replies, host, issued, acked, failed>>

BackoffEnds ==
  /\ line = "backoff"
  /\ Redial
  /\ UNCHANGED <<client, wakes, conn, wire, replies, host, issued, acked, failed, faults>>

\* A call to reconnect ends a connection, a dial or a wait alike.
Reconnect ==
  /\ wakes > 0
  /\ wakes' = wakes - 1
  /\ HangUp
  /\ Redial
  /\ UNCHANGED <<client, conn, host, issued, acked, failed, faults>>

Established ==
  /\ line = "dialing"
  /\ line' = "relaying"
  /\ conn' = conn + 1
  /\ news' = Append(news, "up")
  /\ UNCHANGED <<client, queue, wakes, wire, replies, host, issued, acked, failed, faults>>

Relay ==
  /\ line = "relaying" /\ queue # <<>>
  /\ wire' = [wire EXCEPT ![conn] = Append(@, Head(queue))]
  /\ queue' = Tail(queue)
  /\ UNCHANGED <<client, news, line, wakes, conn, replies, host,
                 issued, acked, failed, faults>>

\* The client's process ends and a new one restores the outbox it finds.
Relaunch ==
  /\ Fault
  /\ outbox' = [i \in DOMAIN stored |-> [key |-> stored[i], sent |-> FALSE]]
  /\ link' = "down" /\ flushing' = FALSE
  /\ line' = "dialing" /\ queue' = <<>> /\ wakes' = 0
  /\ news' = <<"down">>
  /\ \E n \in 0..Len(wire[conn]) : wire' = [wire EXCEPT ![conn] = SubSeq(@, 1, n)]
  /\ replies' = <<>>
  /\ UNCHANGED <<stored, conn, host, issued, acked, failed>>

-------------------------------------------------------------------------------
(* The host *)

\* The Ack goes to the connection the command came by, if that one still is.
Answer(c, key) ==
  replies' = IF c = conn /\ line = "relaying" THEN Append(replies, key) ELSE replies

\* Mutant: a full cache drops the newest key.
RememberMutant(keys, key) == IF Len(keys) < CacheLimit THEN Append(keys, key) ELSE keys

\* The newest CacheLimit completed keys.
Remember(keys, key) ==
  LET grown == Append(keys, key)
  IN IF Len(grown) > CacheLimit THEN Tail(grown) ELSE grown

\* A key found moves to the back, as the one used last.
Refresh(keys, key) ==
  LET i == CHOOSE i \in DOMAIN keys :
             keys[i] = key /\ \A j \in 1..(i - 1) : keys[j] # key
  IN Append(Without(keys, i), key)

Complete(c, key) ==
  /\ cache' = Remember(cache, key)
  /\ used' = Append(used, [key |-> key, fresh |-> TRUE])
  /\ executed' = Append(executed, key)
  /\ Answer(c, key)

\* The host takes the next line of connection c: a command it has completed is
\* answered from the cache, one that needs no task is executed on the spot, and
\* any other is started.
Handle(c) ==
  /\ wire[c] # <<>>
  /\ wire' = [wire EXCEPT ![c] = Tail(@)]
  /\ LET key == Head(wire[c])
     IN \/ /\ key \in Elements(cache)
           /\ cache' = Refresh(cache, key)
           /\ used' = Append(used, [key |-> key, fresh |-> FALSE])
           /\ Answer(c, key)
           /\ UNCHANGED <<running, executed>>
        \/ /\ key \notin Elements(cache) \union Slow
           /\ Complete(c, key)
           /\ UNCHANGED running
        \/ /\ key \in Slow \ Elements(cache)
           /\ running' = Append(running, [key |-> key, conn |-> c])
           /\ UNCHANGED <<cache, used, executed, replies>>
  /\ UNCHANGED <<client, news, transport, issued, acked, failed, faults>>

Finish(i) ==
  /\ running' = Without(running, i)
  /\ Complete(running[i].conn, running[i].key)
  /\ UNCHANGED <<client, news, transport, wire, issued, acked, failed, faults>>

-------------------------------------------------------------------------------
Init ==
  /\ outbox = <<>> /\ stored = <<>> /\ link = "down" /\ flushing = FALSE
  /\ news = <<"down">>
  /\ queue = <<>> /\ line = "dialing" /\ wakes = 0 /\ conn = 0
  /\ wire = [c \in Conns |-> <<>>] /\ replies = <<>>
  /\ cache = <<>> /\ running = <<>> /\ used = <<>> /\ executed = <<>>
  /\ issued = 0 /\ acked = {} /\ failed = {} /\ faults = 0

Apply == ApplyDown \/ ApplyUp

Next ==
  \/ Enqueue \/ TakeAck \/ Tick \/ Flush \/ Stall \/ Foreground \/ ApplyDown \/ ApplyUp
  \/ Lose \/ DialFails \/ BackoffEnds \/ Reconnect \/ Established \/ Relay \/ Relaunch
  \/ \E c \in Conns : Handle(c)
  \/ \E i \in DOMAIN running : Finish(i)

Spec == Init /\ [][Next]_vars

\* The tasks of the client and the transport run whenever they can, a dial is
\* tried until it succeeds, and the host works off its queue and its tasks.
Fairness ==
  /\ WF_vars(TakeAck) /\ WF_vars(Tick) /\ WF_vars(Flush) /\ WF_vars(Apply)
  /\ WF_vars(BackoffEnds \/ Reconnect \/ Established) /\ WF_vars(Relay)
  /\ \A c \in Conns : WF_vars(Handle(c))
  /\ WF_vars(\E i \in DOMAIN running : Finish(i))

FairSpec == Spec /\ Fairness

-------------------------------------------------------------------------------
(* Properties *)

\* Every variable has its type, and outbox, queue and cache keep to their limits
\* (outbox::MAX_ITEMS, outgoing::MAX_LINES, the 512 keys of complete_command).
TypeOK ==
  /\ outbox \in Seq([key : Writes, sent : BOOLEAN]) /\ Len(outbox) <= OutboxLimit
  /\ stored \in Seq(Writes) /\ Len(stored) <= OutboxLimit
  /\ queue \in Seq(Writes) /\ Len(queue) <= QueueLimit
  /\ cache \in Seq(Writes) /\ Len(cache) <= CacheLimit
  /\ link \in {"up", "down"} /\ flushing \in BOOLEAN /\ news \in Seq({"up", "down"})
  /\ line \in {"backoff", "dialing", "relaying"} /\ wakes \in Nat /\ conn \in Conns
  /\ wire \in [Conns -> Seq(Writes)] /\ replies \in Seq(Writes)
  /\ running \in Seq([key : Slow, conn : Conns])
  /\ used \in Seq([key : Writes, fresh : BOOLEAN]) /\ executed \in Seq(Writes)
  /\ issued \in 0..MaxWrites /\ acked \subseteq Writes /\ failed \subseteq Writes
  /\ faults \in 0..MaxFaults

\* Sent writes form a prefix of the outbox, whatever of flushes, Acks, evictions,
\* hang-ups and failed saves came in between: flush_outbox skips the sent ones at
\* the head and would pass over an unsent one behind them otherwise for good.
SentIsPrefix ==
  \A i, j \in DOMAIN outbox : i < j /\ outbox[j].sent => outbox[i].sent

\* Whatever the link still owes the host would survive the client's end: each
\* write it retains is in the file, in the same order, though saves may fail both
\* when a write is made (enqueue rolls back) and when one is answered.
OutboxIsStored ==
  \E at \in [DOMAIN outbox -> DOMAIN stored] :
    /\ \A i \in DOMAIN outbox : outbox[i].key = stored[at[i]]
    /\ \A i, j \in DOMAIN outbox : i < j => at[i] < at[j]

\* A command that needs no task runs a second time only after the cache was used
\* as often as it has room since the command's last use: however often a write is
\* sent again, by reconnects, stalls or a new process, it runs once as long as it is
\* remembered (remote.md, "Exactly-once redelivery applies within that window").
OnceInWindow ==
  \A i, j \in DOMAIN used :
    i < j /\ used[i].key = used[j].key /\ used[j].fresh /\ used[j].key \notin Slow
      => j - i > CacheLimit

\* A write is never lost without a word: until its Ack is taken or it is reported
\* as failed, the outbox retains it, across reconnects and relaunches.
NothingIsLost == 1..issued \subseteq Elements(Keys(outbox)) \union acked \union failed

\* The host executes every write once and in the order they were made, but for
\* those given up, and no Ack comes before the execution: delivery implements
\* RetainedWrites.  This holds where the link is told that its connection is gone
\* before it sends again (Prompt) and no write outlives the cache's memory.
Promise == INSTANCE RetainedWrites
  WITH issued <- issued, executed <- executed, acked <- acked, failed <- failed
Refines == Promise!Spec

\* Every write the user makes comes to an end: the host answers it, or the user is
\* told that it failed.
EveryWriteSettles ==
  \A w \in Writes : w <= issued ~> w \in acked \union failed

===============================================================================
