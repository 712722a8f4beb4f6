------------------------- MODULE PullRequestWatchProofs -------------------------
(***************************************************************************)
(* The invariants of PullRequestWatch, proved for any threads and checks   *)
(* and for any limits and bounds.                                          *)
(*                                                                         *)
(* IInv says of each thread that it Fits:                                  *)
(* - Once: a news item is in one message of the thread's queue or was given*)
(*   since the last restart, not both, and in one of them once; what is    *)
(*   queued of the wake that waits is how its text begins (PendingOnce).   *)
(* - Knowing: what was given since the last restart, is queued or waits is *)
(*   no news to the watch again, whatever it will read.  Takes tells for   *)
(*   which items that stays true while the pull request changes: a remark  *)
(*   behind the watermark or told at it, a failure of an earlier run or one*)
(*   that the watch has noted and that lasts, checks that passed likewise. *)
(* - ToldFits: what the watch takes its agent to know was given or waits,  *)
(*   and so was the reason why a watch is at its end.                      *)
(* SavedFits says the same of what a restart would read back.  CacheFits   *)
(* is why a pass may skip the remarks: those that are still news came after*)
(* the fingerprint that is kept with the cached read, also while a pass is *)
(* under way (ReadingFits).  PassFits keeps the targets of a pass from     *)
(* ending twice.                                                           *)
(*                                                                         *)
(* Each operator on a thread has a lemma (DeliverFits, EvaluateFits,       *)
(* AcceptFits and so on) that it keeps Fits, and what it does to the       *)
(* watch: Keeps when it delivers, Follows when a pass went over it.  Moves *)
(* is what a change of the pull request does, Steady what people and       *)
(* providers do to what a pass relies on.                                  *)
(***************************************************************************)
EXTENDS PullRequestWatch, SequenceTheorems, FiniteSetTheorems, WellFoundedInduction, TLAPS

-------------------------------------------------------------------------------
(* The invariant *)

NewsTo(s) == {item \in News : item.gen \in 1..s}
Texts(s) == Seq((SUBSET NewsTo(s)) \ {{}})
WakesTo(s) == {wake \in Wakes : wake.id # 0 /\ wake.text \in Texts(s)}
Messages(s) == [id : Nat \ {0}, text : Texts(s)]
ThreadRecords(s) ==
  [watch : Watches \union {None}, paused : BOOLEAN, queue : Seq(Messages(s)), delivery : Nat,
   agent : Turns,
   given : [ever : SUBSET NewsTo(s), since : SUBSET NewsTo(s), twice : SUBSET NewsTo(s)]]
Caches(s) ==
  [print : Fingerprints \union {None}, watches : SUBSET (Threads \X (1..s)),
   running : BOOLEAN, complete : BOOLEAN]
Hosts(s) ==
  [threads : [Threads -> ThreadRecords(s)], refresh : SUBSET Threads,
   cache : Caches(s) \union {None}, failures : Nat, again : BOOLEAN]
PullRequests ==
  [state : {"open", "closed", "merged"}, clock : Nat, head : Nat,
   checks : [Checks -> {"pending", "failed", "passed"}], runs : [Checks -> Nat],
   remarks : Seq(Nat)]

Said(text) == UNION ToSet(text)
Apart(text) == \A i, j \in DOMAIN text : i # j => text[i] \intersect text[j] = {}

Ending == {"closed", "merged", "unreadable"}
AtEnd(w) == w.pending # None /\ w.pending.last

\* What the pull request p keeps to; b is the number of its changes.
PrFits(p, b) ==
  /\ p \in PullRequests /\ b \in Nat
  /\ \A c \in Checks : p.runs[c] <= b
  /\ \A i \in DOMAIN p.remarks : p.remarks[i] <= 2 * p.clock

\* A watch w of p, where s watches were started.
WatchFits(p, s, w) ==
  /\ w \in Watches
  /\ w.gen \in 1..s /\ w.head \in 0..p.head \union {None} /\ w.ids \subseteq DOMAIN p.remarks
  /\ w.wakes < WakeLimit
  /\ w.from <= w.through /\ (w.through = w.from \/ w.through <= 2 * p.clock)
  /\ w.pending # None => w.pending \in WakesTo(s) /\ Apart(w.pending.text)

\* The checks whose runs tell whether the checks passed.
Gate == IF Required = {} THEN Checks ELSE Required

TakesRemark(p, w, item) ==
  /\ item.of \in DOMAIN p.remarks /\ item.n = p.remarks[item.of]
  /\ item.of \notin Fresh(w, p.remarks)

TakesFailure(p, w, item) ==
  /\ item.of \in Checks /\ item.n <= p.runs[item.of]
  /\ item.n = p.runs[item.of] =>
       w.head = p.head /\ p.checks[item.of] = "failed" /\ item.of \in w.failed

TakesPass(p, w, item) ==
  /\ \E c \in Gate : item.n <= p.runs[c]
  /\ \/ \E c \in Gate : item.n < p.runs[c]
     \/ /\ w.head = p.head /\ w.passed /\ w.passedChecks = Gate
        /\ \A c \in Gate : p.checks[c] = "passed"

\* An item that w will not take for news again, as long as nothing undoes it.
Takes(p, w, item) ==
  /\ item.what \notin Ending
  /\ item.what = "remark" => TakesRemark(p, w, item)
  /\ item.what = "failed" => TakesFailure(p, w, item)
  /\ item.what = "passed" => TakesPass(p, w, item)

\* None of what was told is news to w again, unless w has told its last.
Knowing(p, w, told) == AtEnd(w) \/ \A item \in told : item.gen = w.gen => Takes(p, w, item)

KnownOf(p, w) ==
  {Item("remark", i, p.remarks[i], w.gen) :
     i \in {j \in DOMAIN p.remarks :
              /\ w.from < p.remarks[j]
              /\ p.remarks[j] < w.through \/ (p.remarks[j] = w.through /\ j \in w.ids)}}

Reason(w, told) ==
  \E item \in told :
    /\ item.gen = w.gen
    /\ item.what \in Ending \/ (item.what = "remark" /\ w.wakes + 1 >= WakeLimit)

\* What w takes its agent to know was told, and so was why w is at its end.
ToldFits(p, w, told) ==
  /\ KnownOf(p, w) \subseteq told
  /\ KnowsFailures(w, told)
  /\ AtEnd(w) => Reason(w, told)

Texted(queue) == UNION {Said(queue[i].text) : i \in DOMAIN queue}
QueueText(th) == Texted(th.queue)

\* What a thread holds of news is held once.
Once(th) ==
  /\ th.given.twice = {} /\ th.given.since \subseteq th.given.ever
  /\ \A i, j \in DOMAIN th.queue : i # j =>
       /\ th.queue[i].id # th.queue[j].id
       /\ Said(th.queue[i].text) \intersect Said(th.queue[j].text) = {}
  /\ \A i \in DOMAIN th.queue : Said(th.queue[i].text) \intersect th.given.since = {}

\* The wake that waits is what is queued under its id, with more behind it.
HeldOnce(th, pending) ==
  /\ Said(pending.text) \intersect th.given.since = {}
  /\ \A i \in DOMAIN th.queue :
       IF th.queue[i].id = pending.id THEN IsPrefix(th.queue[i].text, pending.text)
       ELSE Said(th.queue[i].text) \intersect Said(pending.text) = {}
PendingOnce(th) == HeldOnce(th, th.watch.pending)

\* Of the watch of a thread.
Watched(p, s, th) ==
  /\ WatchFits(p, s, th.watch)
  /\ th.watch.pending # None => PendingOnce(th)
  /\ Knowing(p, th.watch, th.given.since \union QueueText(th) \union Waiting(th.watch))
  /\ ToldFits(p, th.watch, th.given.ever \union Waiting(th.watch))

Fits(p, s, th) ==
  /\ th \in ThreadRecords(s)
  /\ th.delivery # 0 => th.queue # <<>> /\ th.delivery = Head(th.queue).id
  /\ Once(th)
  /\ th.watch # None => Watched(p, s, th)

SavedFits(p, s, saved, ever) ==
  /\ saved \in [watch : Watches \union {None}, paused : BOOLEAN]
  /\ saved.watch # None =>
       /\ WatchFits(p, s, saved.watch)
       /\ Knowing(p, saved.watch, Waiting(saved.watch))
       /\ ToldFits(p, saved.watch, ever \union Waiting(saved.watch))

\* No watch that the pass ps reads for has told its last.
PassFits(s, h, ps) ==
  ps # None =>
    /\ ps \in Passes /\ ps.targets \subseteq Threads \X (1..s)
    /\ \A t \in Threads :
         h.threads[t].watch # None /\ <<t, h.threads[t].watch.gen>> \in ps.targets
           => ~AtEnd(h.threads[t].watch)

\* The cached read tells what t was compared with, up to its fingerprint.
Read(h, t) ==
  /\ h.threads[t].watch # None /\ ~AtEnd(h.threads[t].watch)
  /\ ~h.threads[t].paused /\ t \notin h.refresh
  /\ <<t, h.threads[t].watch.gen>> \in h.cache.watches

CacheFits(p, h, ps) ==
  h.cache # None =>
    /\ h.cache.print # None => h.cache.print.remarks <= Len(p.remarks)
    /\ h.cache.print # None /\ h.cache.complete /\ (ps = None \/ ps.step = "asked" \/ ~ps.activity)
         => \A t \in Threads : Read(h, t) =>
              \A i \in Fresh(h.threads[t].watch, p.remarks) : h.cache.print.remarks < i

\* A read that skips the remarks relies on the read that is cached.
ReadingFits(p, h, ps) ==
  ps # None /\ ps.step = "reading" =>
    /\ ps.print # None => ps.print.remarks <= Len(p.remarks)
    /\ ~ps.activity => h.cache # None /\ ps.targets \subseteq h.cache.watches
         /\ (ps.print # None => h.cache.print # None /\ h.cache.print.remarks = ps.print.remarks)

HostFits(p, s, h) ==
  /\ h \in Hosts(s)
  /\ \A t \in Threads : Fits(p, s, h.threads[t])

IInv ==
  /\ PrFits(pr, changes)
  /\ HostFits(pr, starts, host)
  /\ PassFits(starts, host, pass)
  /\ CacheFits(pr, host, pass) /\ ReadingFits(pr, host, pass)
  /\ disk \in [Threads -> [watch : Watches \union {None}, paused : BOOLEAN]]
  /\ \A t \in Threads : SavedFits(pr, starts, disk[t], host.threads[t].given.ever)
  /\ starts \in 0..MaxChanges /\ changes \in 0..MaxChanges /\ upsets \in 0..MaxUpsets

-------------------------------------------------------------------------------
(* Helpers on numbers and sequences *)

Less == {pair \in Nat \X Nat : pair[1] < pair[2]}

LEMMA LeastNatural ==
  ASSUME NEW S \in SUBSET Nat, S # {}
  PROVE  \E least \in S : \A n \in S : least <= n
<1>1. IsWellFoundedOn(Less, Nat)
  BY NatLessThanWellFounded DEF OpToRel, Less
<1>2. PICK least \in S : \A n \in S : <<n, least>> \notin Less
  BY <1>1, WFMin
<1>3. \A n \in S : ~(n < least)
  BY <1>2 DEF Less
<1>4. \A n \in S : least <= n
  BY <1>3
<1> QED BY <1>4

LEMMA MaxOfBounded ==
  ASSUME NEW S \in SUBSET Nat, S # {}, NEW b \in Nat, \A n \in S : n <= b
  PROVE  Max(S) \in S /\ \A n \in S : n <= Max(S)
<1> DEFINE below == {b - n : n \in S}
<1>1. below \in SUBSET Nat /\ below # {}
  <2>1. \A n \in S : b - n \in Nat
    OBVIOUS
  <2> QED BY <2>1
<1>2. PICK least \in below : \A m \in below : least <= m
  BY <1>1, LeastNatural
<1>3. PICK n \in S : least = b - n
  BY <1>2
<1>4. \A m \in S : n >= m
  <2> SUFFICES ASSUME NEW m \in S PROVE n >= m
    OBVIOUS
  <2>1. b - m \in below
    OBVIOUS
  <2>2. b - n <= b - m
    BY <1>2, <1>3, <2>1
  <2> QED BY <2>2
<1>5. Max(S) \in S /\ \A m \in S : Max(S) >= m
  BY <1>4 DEF Max
<1> QED BY <1>5

LEMMA SequenceElements ==
  ASSUME NEW S, NEW s \in Seq(S)
  PROVE  /\ Len(s) \in Nat /\ DOMAIN s = 1..Len(s)
         /\ \A i \in DOMAIN s : s[i] \in S
BY LenProperties, ElementOfSeq

LEMMA AppendElements ==
  ASSUME NEW S, NEW s \in Seq(S), NEW e \in S
  PROVE  /\ Append(s, e) \in Seq(S) /\ Append(s, e) # <<>>
         /\ Len(Append(s, e)) = Len(s) + 1
         /\ DOMAIN Append(s, e) = 1..(Len(s) + 1)
         /\ \A i \in DOMAIN s : Append(s, e)[i] = s[i]
         /\ Append(s, e)[Len(s) + 1] = e
<1>1. DOMAIN s = 1..Len(s)
  BY SequenceElements
<1> QED BY <1>1, AppendProperties, LenProperties

LEMMA TailElements ==
  ASSUME NEW S, NEW s \in Seq(S), s # <<>>
  PROVE  /\ Tail(s) \in Seq(S) /\ DOMAIN s = 1..Len(s) /\ Len(s) \in Nat \ {0}
         /\ DOMAIN Tail(s) = 1..(Len(s) - 1)
         /\ \A i \in 1..(Len(s) - 1) : Tail(s)[i] = s[i + 1]
         /\ Head(s) = s[1] /\ Head(s) \in S
<1>1. Len(s) \in Nat \ {0}
  BY EmptySeq
<1>2. /\ Tail(s) \in Seq(S) /\ Len(Tail(s)) = Len(s) - 1 /\ Head(s) \in S
      /\ \A i \in 1..Len(Tail(s)) : Tail(s)[i] = s[i + 1]
  BY HeadTailProperties
<1>3. DOMAIN s = 1..Len(s) /\ DOMAIN Tail(s) = 1..Len(Tail(s))
  BY <1>2, LenProperties
<1>4. Head(s) = s[1]
  OBVIOUS
<1> QED BY <1>1, <1>2, <1>3, <1>4

LEMMA WiderSequences ==
  ASSUME NEW S, NEW T, S \subseteq T
  PROVE  Seq(S) \subseteq Seq(T)
BY SeqMonotonic

-------------------------------------------------------------------------------
(* The texts of wakes *)

LEMMA TextSaid ==
  ASSUME NEW s, NEW text \in Texts(s)
  PROVE  /\ Said(text) \subseteq NewsTo(s)
         /\ \A i \in DOMAIN text : text[i] \subseteq Said(text) /\ text[i] # {}
         /\ text \in Seq(SUBSET NewsTo(s))
<1>1. \A i \in DOMAIN text : text[i] \in (SUBSET NewsTo(s)) \ {{}}
  BY SequenceElements DEF Texts
<1>2. text \in Seq(SUBSET NewsTo(s))
  BY WiderSequences DEF Texts
<1>3. \A i \in DOMAIN text : text[i] \subseteq NewsTo(s) /\ text[i] # {}
  BY <1>1
<1>4. Said(text) \subseteq NewsTo(s)
  BY <1>3 DEF Said, ToSet
<1>5. \A i \in DOMAIN text : text[i] \subseteq Said(text)
  BY DEF Said, ToSet
<1> QED BY <1>2, <1>3, <1>4, <1>5

LEMMA SaidOnce ==
  ASSUME NEW items
  PROVE  Said(<<items>>) = items /\ Apart(<<items>>)
BY DEF Said, ToSet, Apart

\* What joins a text is said with it.
LEMMA SaidMore ==
  ASSUME NEW s, NEW text \in Texts(s), NEW items \in (SUBSET NewsTo(s)) \ {{}}
  PROVE  /\ Append(text, items) \in Texts(s)
         /\ Said(Append(text, items)) = Said(text) \union items
         /\ Apart(text) /\ Said(text) \intersect items = {} => Apart(Append(text, items))
<1> DEFINE S == (SUBSET NewsTo(s)) \ {{}}
           more == Append(text, items)
           n == Len(text)
<1>0. text \in Seq(S) /\ items \in S
  BY DEF Texts
<1> HIDE DEF S
<1>1. /\ more \in Seq(S) /\ DOMAIN more = 1..(n + 1) /\ more[n + 1] = items
      /\ \A i \in DOMAIN text : more[i] = text[i]
  BY <1>0, AppendElements
<1>2. n \in Nat /\ DOMAIN text = 1..n
  BY <1>0, SequenceElements
<1> HIDE DEF more, n
<1>3. Said(more) = Said(text) \union items
  <2>1. \A x : x \in Said(more) <=> \E i \in 1..(n + 1) : x \in more[i]
    BY <1>1 DEF Said, ToSet
  <2>2. \A x : x \in Said(text) <=> \E i \in 1..n : x \in text[i]
    BY <1>2 DEF Said, ToSet
  <2>3. \A x : (\E i \in 1..(n + 1) : x \in more[i])
                 <=> (\E i \in 1..n : x \in text[i]) \/ x \in items
    <3>1. \A i \in 1..(n + 1) : i \in 1..n \/ i = n + 1
      BY <1>2
    <3>2. n + 1 \in 1..(n + 1) /\ \A i \in 1..n : i \in 1..(n + 1)
      BY <1>2
    <3> QED BY <1>1, <1>2, <3>1, <3>2
  <2> QED BY <2>1, <2>2, <2>3
<1>4. ASSUME Apart(text), Said(text) \intersect items = {} PROVE Apart(more)
  <2> SUFFICES ASSUME NEW i \in 1..(n + 1), NEW j \in 1..(n + 1), i # j
               PROVE  more[i] \intersect more[j] = {}
    BY <1>1 DEF Apart
  <2>1. \A k \in 1..n : text[k] \subseteq Said(text) /\ more[k] = text[k]
    BY <1>1, <1>2 DEF Said, ToSet
  <2>2. CASE i \in 1..n /\ j \in 1..n
    BY <1>2, <1>4, <2>1, <2>2 DEF Apart
  <2>3. CASE i = n + 1
    <3>1. j \in 1..n
      BY <1>2, <2>3
    <3> QED BY <1>1, <1>4, <2>1, <2>3, <3>1
  <2>4. CASE j = n + 1
    <3>1. i \in 1..n
      BY <1>2, <2>4
    <3> QED BY <1>1, <1>4, <2>1, <2>4, <3>1
  <2> QED BY <1>2, <2>2, <2>3, <2>4
<1> QED BY <1>1, <1>3, <1>4 DEF more, S, Texts

\* What is queued of a text that grows is still how the text begins.
LEMMA StillPrefix ==
  ASSUME NEW s, NEW text \in Texts(s), NEW items \in (SUBSET NewsTo(s)) \ {{}},
         NEW first \in Texts(s), IsPrefix(first, text)
  PROVE  IsPrefix(first, Append(text, items))
<1> DEFINE S == (SUBSET NewsTo(s)) \ {{}}
           more == Append(text, items)
           n == Len(first)
<1>0. text \in Seq(S) /\ items \in S /\ first \in Seq(S)
  BY DEF Texts
<1> HIDE DEF S
<1>1. /\ more \in Seq(S) /\ Len(more) = Len(text) + 1
      /\ \A i \in DOMAIN text : more[i] = text[i]
  BY <1>0, AppendElements
<1>2. /\ Len(text) \in Nat /\ DOMAIN text = 1..Len(text) /\ n \in Nat
      /\ \A i \in DOMAIN text : text[i] \in S
  BY <1>0, SequenceElements
<1>3. n <= Len(text) /\ SubSeq(first, 1, n) = SubSeq(text, 1, n)
  BY DEF IsPrefix
<1> HIDE DEF more, n
<1>4. \A i \in 1..n : i \in DOMAIN text
  BY <1>2, <1>3
<1>5. SubSeq(more, 1, n) = SubSeq(text, 1, n)
  <2>1. /\ SubSeq(more, 1, n) \in Seq(S) /\ Len(SubSeq(more, 1, n)) = n
        /\ \A i \in 1..n : SubSeq(more, 1, n)[i] = more[i]
    BY <1>1, <1>2, <1>4, SubSeqProperties
  <2>2. /\ SubSeq(text, 1, n) \in Seq(S) /\ Len(SubSeq(text, 1, n)) = n
        /\ \A i \in 1..n : SubSeq(text, 1, n)[i] = text[i]
    BY <1>2, <1>4, SubSeqProperties
  <2> QED BY <1>1, <1>4, <2>1, <2>2, SeqEqual
<1>6. n <= Len(more)
  BY <1>1, <1>2, <1>3
<1> QED BY <1>3, <1>5, <1>6 DEF IsPrefix, more, n

\* A text is how it begins and the rest, which say nothing twice.
Rest(text, first) == SubSeq(text, Len(first) + 1, Len(text))
Splits(s, text, first, rest) ==
  /\ rest \in Texts(s) /\ Apart(rest)
  /\ Said(text) = Said(first) \union Said(rest)
  /\ Said(first) \intersect Said(rest) = {}

LEMMA PrefixAndRest ==
  ASSUME NEW s, NEW text \in Texts(s), NEW first \in Texts(s), IsPrefix(first, text),
         Apart(text), NEW rest, rest = Rest(text, first)
  PROVE  Splits(s, text, first, rest)
<1> DEFINE S == (SUBSET NewsTo(s)) \ {{}}
           n == Len(first)
           m == Len(text)
<1>0. text \in Seq(S) /\ first \in Seq(S)
  BY DEF Texts
<1> HIDE DEF S
<1>1. /\ m \in Nat /\ DOMAIN text = 1..m /\ n \in Nat /\ DOMAIN first = 1..n
      /\ \A i \in 1..m : text[i] \in S
      /\ \A i \in 1..n : first[i] \in S
  BY <1>0, SequenceElements
<1>2. n <= m /\ SubSeq(first, 1, n) = SubSeq(text, 1, n)
  BY DEF IsPrefix
<1> HIDE DEF n, m
<1>3. \A i \in 1..n : first[i] = text[i] /\ i \in 1..m
  <2>1. \A i \in 1..n : SubSeq(first, 1, n)[i] = first[i]
    BY <1>1, SubSeqProperties
  <2>2. \A i \in 1..n : i \in 1..m
    BY <1>1, <1>2
  <2>3. \A i \in 1..n : SubSeq(text, 1, n)[i] = text[i]
    BY <1>1, <2>2, SubSeqProperties
  <2> QED BY <1>2, <2>1, <2>2, <2>3
<1>4. /\ rest \in Seq(S) /\ Len(rest) = m - n
      /\ \A i \in 1..(m - n) : rest[i] = text[n + i]
  <2>1. \A i \in (n + 1)..m : text[i] \in S
    BY <1>1
  <2>2. /\ rest \in Seq(S) /\ Len(rest) = IF n + 1 <= m THEN m - (n + 1) + 1 ELSE 0
        /\ \A i \in 1..(m - (n + 1) + 1) : rest[i] = text[(n + 1) + i - 1]
    BY <1>1, <2>1, SubSeqProperties DEF m, n, Rest
  <2>3. \A i \in 1..(m - n) : i \in 1..(m - (n + 1) + 1) /\ (n + 1) + i - 1 = n + i
    BY <1>1
  <2>4. Len(rest) = m - n
    <3>1. m \in Nat /\ n \in Nat /\ n <= m
      BY <1>1, <1>2
    <3>2. Len(rest) = IF n + 1 <= m THEN m - (n + 1) + 1 ELSE 0
      BY <2>2
    <3>3. (IF n + 1 <= m THEN m - (n + 1) + 1 ELSE 0) = m - n
      BY <3>1
    <3> QED BY <3>2, <3>3, Zenon
  <2> QED BY <2>2, <2>3, <2>4
<1>5. DOMAIN rest = 1..(m - n)
  BY <1>4, SequenceElements
<1>6. \A i \in 1..(m - n) : n + i \in 1..m /\ n + i \notin 1..n
  BY <1>1, <1>2
<1>7. \A i \in 1..m : i \in 1..n \/ (i - n \in 1..(m - n) /\ n + (i - n) = i)
  BY <1>1, <1>2
<1>8. Said(text) = Said(first) \union Said(rest)
  <2>1. \A x : x \in Said(text) <=> \E i \in 1..m : x \in text[i]
    BY <1>1 DEF Said, ToSet
  <2>2. \A x : x \in Said(first) <=> \E i \in 1..n : x \in first[i]
    BY <1>1 DEF Said, ToSet
  <2>3. \A x : x \in Said(rest) <=> \E i \in 1..(m - n) : x \in rest[i]
    BY <1>5 DEF Said, ToSet
  <2>4. \A x : x \in Said(text) => x \in Said(first) \/ x \in Said(rest)
    <3> SUFFICES ASSUME NEW i \in 1..m, NEW x \in text[i]
                 PROVE  x \in Said(first) \/ x \in Said(rest)
      BY <2>1
    <3>1. CASE i \in 1..n
      BY <1>3, <2>2, <3>1
    <3>2. CASE i - n \in 1..(m - n) /\ n + (i - n) = i
      <4>1. rest[i - n] = text[i]
        BY <1>4, <3>2
      <4> QED BY <2>3, <3>2, <4>1
    <3> QED BY <1>7, <3>1, <3>2
  <2>5. \A x : x \in Said(first) \/ x \in Said(rest) => x \in Said(text)
    BY <1>3, <1>4, <1>6, <2>1, <2>2, <2>3
  <2> QED BY <2>4, <2>5
<1>9. Said(first) \intersect Said(rest) = {}
  <2>1. \A i \in 1..n, j \in 1..(m - n) : first[i] \intersect rest[j] = {}
    BY ZenonT(60), <1>1, <1>3, <1>4, <1>6 DEF Apart
  <2>2. \A x : x \in Said(first) <=> \E i \in 1..n : x \in first[i]
    BY <1>1 DEF Said, ToSet
  <2>3. \A x : x \in Said(rest) <=> \E i \in 1..(m - n) : x \in rest[i]
    BY <1>5 DEF Said, ToSet
  <2> QED BY <2>1, <2>2, <2>3
<1>10. Apart(rest)
  <2> SUFFICES ASSUME NEW i \in 1..(m - n), NEW j \in 1..(m - n), i # j
               PROVE  rest[i] \intersect rest[j] = {}
    BY <1>5 DEF Apart
  <2>1. n + i # n + j /\ n + i \in 1..m /\ n + j \in 1..m
    BY <1>1, <1>6
  <2> QED BY <1>1, <1>4, <2>1 DEF Apart
<1> QED BY <1>4, <1>8, <1>9, <1>10 DEF S, Texts, Splits

-------------------------------------------------------------------------------
(* A watch and what its agent was told *)

HeldOf(th) == IF th.watch = None THEN {} ELSE Waiting(th.watch)

LEMMA NotNone ==
  /\ \A w \in Watches : w # None
  /\ \A wake \in Wakes : wake # None
  /\ \A ps \in Passes : ps # None
BY NoneAssumption

\* A watch is the same to the news whatever it has pending.
LEMMA SameWatch ==
  ASSUME NEW p, NEW w \in Watches, NEW x \in Wakes \union {None}, NEW w2,
         w2 = [w EXCEPT !.pending = x]
  PROVE  /\ w2 \in Watches /\ w2 # None /\ w2.pending = x
         /\ w2.gen = w.gen /\ w2.head = w.head /\ w2.failed = w.failed /\ w2.passed = w.passed
         /\ w2.passedChecks = w.passedChecks /\ w2.from = w.from /\ w2.through = w.through
         /\ w2.ids = w.ids /\ w2.wakes = w.wakes
         /\ \A at : Fresh(w2, at) = Fresh(w, at)
         /\ \A item : Takes(p, w2, item) <=> Takes(p, w, item)
         /\ KnownOf(p, w2) = KnownOf(p, w)
         /\ \A told : KnowsFailures(w2, told) <=> KnowsFailures(w, told)
         /\ \A told : Reason(w2, told) <=> Reason(w, told)
<1>1. w2 \in Watches /\ w2.pending = x
  BY DEF Watches
<1>2. /\ w2.gen = w.gen /\ w2.head = w.head /\ w2.failed = w.failed /\ w2.passed = w.passed
      /\ w2.passedChecks = w.passedChecks /\ w2.from = w.from /\ w2.through = w.through
      /\ w2.ids = w.ids /\ w2.wakes = w.wakes
  BY DEF Watches
<1>3. w2 # None
  BY <1>1, NotNone
<1>4. \A at : Fresh(w2, at) = Fresh(w, at)
  BY <1>2, Zenon DEF Fresh
<1>5. \A item : Takes(p, w2, item) <=> Takes(p, w, item)
  BY ZenonT(60), <1>2, <1>4 DEF Takes, TakesRemark, TakesFailure, TakesPass
<1>6. KnownOf(p, w2) = KnownOf(p, w)
  BY <1>2, Zenon DEF KnownOf
<1>7. \A told : KnowsFailures(w2, told) <=> KnowsFailures(w, told)
  <2>1. w2.failed = w.failed /\ w2.gen = w.gen
    BY <1>2
  <2> QED BY <2>1 DEF KnowsFailures
<1>8. \A told : Reason(w2, told) <=> Reason(w, told)
  BY <1>2, Zenon DEF Reason
<1> QED BY <1>1, <1>2, <1>3, <1>4, <1>5, <1>6, <1>7, <1>8

\* So it fits as long as what it has pending does.
LEMMA SameWatchFits ==
  ASSUME NEW p, NEW s, NEW w, NEW x \in WakesTo(s) \union {None}, NEW w2,
         WatchFits(p, s, w), w2 = [w EXCEPT !.pending = x],
         x # None => Apart(x.text)
  PROVE  WatchFits(p, s, w2)
<1>1. w \in Watches /\ x \in Wakes \union {None}
  BY DEF WatchFits, WakesTo
<1>2. /\ w2 \in Watches /\ w2.pending = x
      /\ w2.gen = w.gen /\ w2.head = w.head /\ w2.from = w.from /\ w2.through = w.through
      /\ w2.ids = w.ids /\ w2.wakes = w.wakes
  BY <1>1, SameWatch
<1> QED BY <1>2 DEF WatchFits

LEMMA KnowingLess ==
  ASSUME NEW p, NEW w, NEW told, NEW less, Knowing(p, w, told), less \subseteq told
  PROVE  Knowing(p, w, less)
BY DEF Knowing

LEMMA ToldMore ==
  ASSUME NEW p, NEW w, NEW told, NEW more, ToldFits(p, w, told), told \subseteq more
  PROVE  ToldFits(p, w, more)
<1>1. KnowsFailures(w, more)
  BY DEF ToldFits, KnowsFailures
<1>2. AtEnd(w) => Reason(w, more)
  BY DEF ToldFits, Reason
<1> QED BY <1>1, <1>2 DEF ToldFits

LEMMA WaitingIs ==
  ASSUME NEW w, NEW s
  PROVE  /\ w.pending = None => Waiting(w) = {}
         /\ w.pending # None => Waiting(w) = Said(w.pending.text)
BY DEF Waiting, Said

-------------------------------------------------------------------------------
(* The queue of a thread *)

LEMMA FreshIdIsFree ==
  ASSUME NEW s, NEW th, th.queue \in Seq(Messages(s))
  PROVE  FreshId(th) \in Nat \ {0} /\ \A i \in DOMAIN th.queue : th.queue[i].id # FreshId(th)
<1> DEFINE n == Len(th.queue)
           used == {th.queue[i].id : i \in DOMAIN th.queue}
           free == (1..(n + 1)) \ used
           place == [m \in 1..(n + 1) |-> CHOOSE i \in 1..n : th.queue[i].id = m]
<1>1. n \in Nat /\ DOMAIN th.queue = 1..n
  BY SequenceElements
<1> HIDE DEF n
<1>2. free # {}
  <2> SUFFICES ASSUME free = {} PROVE FALSE
    OBVIOUS
  <2>1. \A m \in 1..(n + 1) : \E i \in 1..n : th.queue[i].id = m
    BY <1>1
  <2>2. \A m \in 1..(n + 1) : place[m] \in 1..n /\ th.queue[place[m]].id = m
    BY <2>1
  <2>3. place \in [1..(n + 1) -> 1..n]
    BY <2>2
  <2> HIDE DEF place
  <2>4. /\ IsFiniteSet(1..n) /\ Cardinality(1..n) = n
        /\ IsFiniteSet(1..(n + 1)) /\ Cardinality(1..(n + 1)) = n + 1
    BY <1>1, FS_Interval
  <2>5. Cardinality(1..n) < Cardinality(1..(n + 1))
    <3>1. n < n + 1
      BY <1>1
    <3>2. Cardinality(1..n) = n /\ Cardinality(1..(n + 1)) = n + 1
      BY <2>4
    <3> QED BY <3>1, <3>2, Zenon
  <2>6. \E a, b \in 1..(n + 1) : a # b /\ place[a] = place[b]
    <3>1. IsFiniteSet(1..n) /\ IsFiniteSet(1..(n + 1))
      BY <2>4
    <3> DEFINE S == 1..(n + 1)
               T == 1..n
    <3>2. /\ IsFiniteSet(S) /\ IsFiniteSet(T) /\ Cardinality(T) < Cardinality(S)
          /\ place \in [S -> T]
      BY <2>3, <2>5, <3>1
    <3> HIDE DEF S, T
    <3>3. \E a, b \in S : a # b /\ place[a] = place[b]
      BY <3>2, FS_PigeonHole
    <3> QED BY <3>3 DEF S
  <2> QED BY <2>2, <2>6
<1>3. free \in SUBSET Nat
  BY <1>1
<1>4. PICK least \in free : \A m \in free : least <= m
  BY <1>2, <1>3, LeastNatural
<1>5. least \in 1..(n + 1) /\ least \notin used
  BY <1>4
<1>6. \A m \in 1..(least - 1) : m \in used
  <2> SUFFICES ASSUME NEW m \in 1..(least - 1), m \notin used PROVE FALSE
    OBVIOUS
  <2>1. m \in 1..(n + 1) /\ ~(least <= m)
    BY <1>1, <1>5
  <2> QED BY <1>4, <2>1
<1>7. FreshId(th) = CHOOSE m \in 1..(n + 1) :
                      m \notin used /\ \A k \in 1..(m - 1) : k \in used
  BY DEF FreshId, n
<1> HIDE DEF used
<1>8. FreshId(th) \in 1..(n + 1) /\ FreshId(th) \notin used
  BY <1>5, <1>6, <1>7
<1>9. FreshId(th) \in Nat \ {0}
  BY <1>1, <1>8
<1> QED BY <1>8, <1>9 DEF used

LEMMA QueuedMessage ==
  ASSUME NEW s, NEW th \in ThreadRecords(s)
  PROVE  /\ th.queue \in Seq(Messages(s))
         /\ \A i \in DOMAIN th.queue :
              /\ th.queue[i] \in Messages(s)
              /\ th.queue[i].text \in Texts(s) /\ th.queue[i].id \in Nat \ {0}
              /\ Said(th.queue[i].text) \subseteq QueueText(th)
<1>1. th.queue \in Seq(Messages(s))
  BY DEF ThreadRecords
<1>2. \A i \in DOMAIN th.queue : th.queue[i] \in Messages(s)
  BY <1>1, SequenceElements
<1>3. \A m \in Messages(s) : m.text \in Texts(s) /\ m.id \in Nat \ {0}
  BY DEF Messages
<1>4. \A i \in DOMAIN th.queue : Said(th.queue[i].text) \subseteq QueueText(th)
  BY DEF QueueText, Texted
<1> QED BY <1>1, <1>2, <1>3, <1>4

\* The queue q is th's with m behind it.
Joined(s, th, m, q) ==
  /\ q \in Seq(Messages(s)) /\ q # <<>>
  /\ th.queue # <<>> => Head(q) = Head(th.queue)
  /\ \A i \in DOMAIN th.queue : q[i] = th.queue[i]
  /\ \A i \in DOMAIN q : (i \in DOMAIN th.queue /\ q[i] = th.queue[i]) \/ q[i] = m
  /\ \A i, j \in DOMAIN q : i # j => i \in DOMAIN th.queue \/ j \in DOMAIN th.queue
  /\ Texted(q) \subseteq Texted(th.queue) \union Said(m.text)

\* A message that joins a queue.
LEMMA QueueGrows ==
  ASSUME NEW s, NEW th \in ThreadRecords(s), NEW m \in Messages(s), NEW q,
         q = Append(th.queue, m)
  PROVE  Joined(s, th, m, q)
<1> DEFINE n == Len(th.queue)
<1>1. /\ th.queue \in Seq(Messages(s)) /\ n \in Nat /\ DOMAIN th.queue = 1..n
  BY QueuedMessage, SequenceElements
<1>2. /\ q \in Seq(Messages(s)) /\ q # <<>> /\ DOMAIN q = 1..(n + 1) /\ q[n + 1] = m
      /\ \A i \in DOMAIN th.queue : q[i] = th.queue[i]
  BY <1>1, AppendElements
<1> HIDE DEF n
<1>3. \A i \in 1..(n + 1) : i \in 1..n \/ i = n + 1
  BY <1>1
<1>4. n + 1 \in 1..(n + 1) /\ \A i \in 1..n : i \in 1..(n + 1)
  BY <1>1
<1>5. th.queue # <<>> => Head(q) = Head(th.queue)
  <2> SUFFICES ASSUME th.queue # <<>> PROVE Head(q) = Head(th.queue)
    OBVIOUS
  <2>1. Head(th.queue) = th.queue[1] /\ n \in Nat \ {0}
    BY <1>1, TailElements DEF n
  <2>2. Head(q) = q[1]
    BY <1>2, TailElements
  <2>3. 1 \in DOMAIN th.queue
    BY <1>1, <2>1
  <2> QED BY <1>2, <2>1, <2>2, <2>3
<1>6. \A i \in DOMAIN q : (i \in DOMAIN th.queue /\ q[i] = th.queue[i]) \/ q[i] = m
  BY <1>1, <1>2, <1>3
<1>7. \A i, j \in DOMAIN q : i # j => i \in DOMAIN th.queue \/ j \in DOMAIN th.queue
  BY <1>1, <1>2, <1>3
<1>8. Texted(q) \subseteq Texted(th.queue) \union Said(m.text)
  <2>1. \A x : x \in Texted(q) <=> \E i \in 1..(n + 1) : x \in Said(q[i].text)
    BY <1>2 DEF Texted
  <2>2. \A x : x \in Texted(th.queue) <=> \E i \in 1..n : x \in Said(th.queue[i].text)
    BY <1>1 DEF Texted
  <2> QED BY <1>1, <1>2, <1>3, <1>4, <2>1, <2>2
<1> QED BY <1>2, <1>5, <1>6, <1>7, <1>8 DEF Joined

-------------------------------------------------------------------------------
(* Delivery *)

\* The watch of a thread stays what it is to the news, and tells what it has pending
\* before it is gone.
Keeps(th, th2) ==
  /\ th2.paused = th.paused /\ th.given.ever \subseteq th2.given.ever
  /\ HeldOf(th) \subseteq th2.given.ever \union HeldOf(th2)
  /\ th.watch = None => th2.watch = None
  /\ th.watch # None /\ th2.watch = None => AtEnd(th.watch)
  /\ th.watch # None /\ th2.watch # None =>
       /\ th2.watch = [th.watch EXCEPT !.pending = th2.watch.pending]
       /\ th2.watch.pending \in Wakes \union {None}
       /\ AtEnd(th2.watch) <=> AtEnd(th.watch)

LEMMA KeepsNothing ==
  ASSUME NEW s, NEW th \in ThreadRecords(s)
  PROVE  Keeps(th, th)
<1>1. ASSUME th.watch # None
      PROVE  /\ th.watch = [th.watch EXCEPT !.pending = th.watch.pending]
             /\ th.watch.pending \in Wakes \union {None}
  <2>1. th.watch \in Watches
    BY <1>1 DEF ThreadRecords
  <2> QED BY <2>1 DEF Watches
<1> QED BY <1>1 DEF Keeps

LEMMA KeepsOn ==
  ASSUME NEW s, NEW th \in ThreadRecords(s), NEW th1 \in ThreadRecords(s),
         NEW th2 \in ThreadRecords(s), Keeps(th, th1), Keeps(th1, th2)
  PROVE  Keeps(th, th2)
<1>1. /\ th2.paused = th.paused /\ th.given.ever \subseteq th2.given.ever
      /\ HeldOf(th) \subseteq th2.given.ever \union HeldOf(th2)
      /\ th.watch = None => th2.watch = None
      /\ th.watch # None /\ th2.watch = None => AtEnd(th.watch)
  BY DEF Keeps
<1>2. ASSUME th.watch # None, th2.watch # None
      PROVE  /\ th2.watch = [th.watch EXCEPT !.pending = th2.watch.pending]
             /\ th2.watch.pending \in Wakes \union {None}
             /\ AtEnd(th2.watch) <=> AtEnd(th.watch)
  <2>1. th1.watch # None
    BY <1>2 DEF Keeps
  <2>2. th.watch \in Watches
    BY <1>2 DEF ThreadRecords
  <2>3. /\ th1.watch = [th.watch EXCEPT !.pending = th1.watch.pending]
        /\ th1.watch.pending \in Wakes \union {None}
        /\ th2.watch = [th1.watch EXCEPT !.pending = th2.watch.pending]
        /\ th2.watch.pending \in Wakes \union {None}
        /\ AtEnd(th2.watch) <=> AtEnd(th.watch)
    BY <1>2, <2>1 DEF Keeps
  <2>4. \A w \in Watches, x, y \in Wakes \union {None} :
          [[w EXCEPT !.pending = x] EXCEPT !.pending = y] = [w EXCEPT !.pending = y]
    BY DEF Watches
  <2> QED BY <2>2, <2>3, <2>4
<1> QED BY <1>1, <1>2 DEF Keeps

LEMMA PendingText ==
  ASSUME NEW p, NEW s, NEW th, Fits(p, s, th), th.watch # None, th.watch.pending # None
  PROVE  /\ th \in ThreadRecords(s) /\ th.watch \in Watches /\ WatchFits(p, s, th.watch)
         /\ th.watch.pending \in Wakes /\ th.watch.pending.text \in Texts(s)
         /\ th.watch.pending.id \in Nat \ {0} /\ Apart(th.watch.pending.text)
         /\ Said(th.watch.pending.text) \subseteq NewsTo(s)
         /\ Waiting(th.watch) = Said(th.watch.pending.text)
         /\ PendingOnce(th)
<1>1. /\ th \in ThreadRecords(s) /\ WatchFits(p, s, th.watch) /\ PendingOnce(th)
  BY DEF Fits, Watched
<1>2. /\ th.watch \in Watches /\ th.watch.pending \in WakesTo(s)
      /\ Apart(th.watch.pending.text)
  BY <1>1 DEF WatchFits
<1>3. /\ th.watch.pending \in Wakes /\ th.watch.pending.text \in Texts(s)
      /\ th.watch.pending.id \in Nat \ {0}
  BY <1>2 DEF WakesTo, Wakes
<1>4. Said(th.watch.pending.text) \subseteq NewsTo(s)
  BY <1>3, TextSaid
<1> QED BY <1>1, <1>2, <1>3, <1>4, WaitingIs

\* The wake that waits is queued.
LEMMA QueuesPending ==
  ASSUME NEW p, NEW s, NEW th, Fits(p, s, th), th.watch # None, th.watch.pending # None,
         ~Queued(th), NEW m \in Messages(s),
         m.id = th.watch.pending.id, m.text = th.watch.pending.text,
         NEW q, q = Append(th.queue, m)
  PROVE  Fits(p, s, [th EXCEPT !.queue = q]) /\ Keeps(th, [th EXCEPT !.queue = q])
<1> DEFINE pending == th.watch.pending
           th2 == [th EXCEPT !.queue = q]
<1>1. /\ th \in ThreadRecords(s) /\ WatchFits(p, s, th.watch)
      /\ pending.text \in Texts(s) /\ pending.id \in Nat \ {0}
      /\ Waiting(th.watch) = Said(pending.text) /\ PendingOnce(th) /\ Once(th)
  BY PendingText DEF Fits
<1>2. m.id = pending.id /\ m.text = pending.text
  OBVIOUS
<1>3. \A i \in DOMAIN th.queue : th.queue[i].id # m.id
  BY <1>2 DEF Queued
<1>4. /\ q \in Seq(Messages(s)) /\ q # <<>>
      /\ th.queue # <<>> => Head(q) = Head(th.queue)
      /\ \A i \in DOMAIN th.queue : q[i] = th.queue[i]
      /\ \A i \in DOMAIN q : (i \in DOMAIN th.queue /\ q[i] = th.queue[i]) \/ q[i] = m
      /\ \A i, j \in DOMAIN q : i # j => i \in DOMAIN th.queue \/ j \in DOMAIN th.queue
      /\ Texted(q) \subseteq Texted(th.queue) \union Said(m.text)
  <2>1. th \in ThreadRecords(s)
    BY <1>1
  <2>2. Joined(s, th, m, q)
    BY <2>1, QueueGrows
  <2> QED BY <2>2 DEF Joined
<1>6. /\ th2 \in ThreadRecords(s) /\ th2.queue = q /\ th2.watch = th.watch
      /\ th2.paused = th.paused /\ th2.delivery = th.delivery /\ th2.given = th.given
  BY <1>1, <1>4 DEF ThreadRecords
<1> HIDE DEF th2
<1>7. \A i \in DOMAIN th.queue : Said(th.queue[i].text) \intersect Said(m.text) = {}
  BY <1>1, <1>2, <1>3 DEF PendingOnce, HeldOnce
<1>8. Said(m.text) \intersect th.given.since = {}
  BY <1>1, <1>2 DEF PendingOnce, HeldOnce
<1>9. Once(th2)
  <2>1. ASSUME NEW i \in DOMAIN q, NEW j \in DOMAIN q, i # j
        PROVE  q[i].id # q[j].id /\ Said(q[i].text) \intersect Said(q[j].text) = {}
    <3>1. CASE i \in DOMAIN th.queue /\ q[i] = th.queue[i]
               /\ j \in DOMAIN th.queue /\ q[j] = th.queue[j]
      BY <1>1, <2>1, <3>1 DEF Once
    <3>2. CASE i \in DOMAIN th.queue /\ q[i] = th.queue[i] /\ q[j] = m
      BY <1>3, <1>7, <3>2
    <3>3. CASE q[i] = m /\ j \in DOMAIN th.queue /\ q[j] = th.queue[j]
      BY <1>3, <1>7, <3>3
    <3>4. /\ (i \in DOMAIN th.queue /\ q[i] = th.queue[i]) \/ q[i] = m
          /\ (j \in DOMAIN th.queue /\ q[j] = th.queue[j]) \/ q[j] = m
      BY <1>4
    <3>5. \/ i \in DOMAIN th.queue /\ q[i] = th.queue[i]
          \/ j \in DOMAIN th.queue /\ q[j] = th.queue[j]
      BY <1>4, <2>1
    <3> QED BY <3>1, <3>2, <3>3, <3>4, <3>5
  <2>2. ASSUME NEW i \in DOMAIN q PROVE Said(q[i].text) \intersect th.given.since = {}
    BY <1>1, <1>4, <1>8 DEF Once
  <2>3. th.given.twice = {} /\ th.given.since \subseteq th.given.ever
    BY <1>1 DEF Once
  <2> QED BY ZenonT(60), <1>6, <2>1, <2>2, <2>3 DEF Once
<1>10. PendingOnce(th2)
  <2>1. IsPrefix(pending.text, pending.text)
    BY DEF IsPrefix
  <2>2. ASSUME NEW i \in DOMAIN q
        PROVE  IF q[i].id = pending.id THEN IsPrefix(q[i].text, pending.text)
               ELSE Said(q[i].text) \intersect Said(pending.text) = {}
    <3>1. (i \in DOMAIN th.queue /\ q[i] = th.queue[i]) \/ q[i] = m
      BY <1>4
    <3>2. CASE q[i] = m
      BY <1>2, <2>1, <3>2
    <3>3. CASE i \in DOMAIN th.queue /\ q[i] = th.queue[i]
      BY <1>1, <3>3 DEF PendingOnce, HeldOnce
    <3> QED BY <3>1, <3>2, <3>3
  <2> QED BY <1>2, <1>6, <1>8, <2>2 DEF PendingOnce, HeldOnce
<1>11. Watched(p, s, th2)
  <2>1. QueueText(th2) \subseteq QueueText(th) \union Said(pending.text)
    BY <1>2, <1>4, <1>6 DEF QueueText
  <2>2. th2.given.since \union QueueText(th2) \union Waiting(th2.watch)
          \subseteq th.given.since \union QueueText(th) \union Waiting(th.watch)
    BY <1>1, <1>6, <2>1
  <2>3. Watched(p, s, th)
    BY DEF Fits
  <2>4. Knowing(p, th2.watch, th2.given.since \union QueueText(th2) \union Waiting(th2.watch))
    BY <1>6, <2>2, <2>3, KnowingLess DEF Watched
  <2> QED BY <1>6, <1>10, <2>3, <2>4 DEF Watched
<1>12. th2.delivery # 0 => th2.queue # <<>> /\ th2.delivery = Head(th2.queue).id
  BY <1>4, <1>6 DEF Fits
<1>13. Fits(p, s, th2)
  BY <1>6, <1>9, <1>11, <1>12 DEF Fits
<1>14. Keeps(th, th2)
  <2>1. Keeps(th, th)
    BY <1>1, KeepsNothing
  <2> QED BY <1>6, <2>1 DEF Keeps, HeldOf
<1> QED BY <1>13, <1>14 DEF th2

\* What a text that is given changes of what was given.
LEMMA GivesText ==
  ASSUME NEW s, NEW th \in ThreadRecords(s), NEW text \in Texts(s), NEW th2,
         th2 = Gives(th, text)
  PROVE  /\ th2 \in ThreadRecords(s)
         /\ th2.watch = th.watch /\ th2.paused = th.paused /\ th2.queue = th.queue
         /\ th2.delivery = th.delivery /\ th2.agent = th.agent
         /\ th2.given.ever = th.given.ever \union Said(text)
         /\ th2.given.since = th.given.since \union Said(text)
         /\ th2.given.twice = th.given.twice \union (Said(text) \intersect th.given.since)
<1> DEFINE given2 == [ever |-> th.given.ever \union Said(text),
                      since |-> th.given.since \union Said(text),
                      twice |-> th.given.twice \union (Said(text) \intersect th.given.since)]
<1>1. th2 = [th EXCEPT !.given = given2]
  BY DEF Gives, Said
<1>2. Said(text) \subseteq NewsTo(s)
  BY TextSaid
<1>3. given2 \in [ever : SUBSET NewsTo(s), since : SUBSET NewsTo(s), twice : SUBSET NewsTo(s)]
  BY <1>2 DEF ThreadRecords
<1>4. /\ given2.ever = th.given.ever \union Said(text)
      /\ given2.since = th.given.since \union Said(text)
      /\ given2.twice = th.given.twice \union (Said(text) \intersect th.given.since)
  OBVIOUS
<1> HIDE DEF given2
<1>5. /\ th2 \in ThreadRecords(s)
      /\ th2.watch = th.watch /\ th2.paused = th.paused /\ th2.queue = th.queue
      /\ th2.delivery = th.delivery /\ th2.agent = th.agent /\ th2.given = given2
  BY <1>1, <1>3 DEF ThreadRecords
<1> QED BY <1>4, <1>5

\* What taking the wake that waits makes of the watch.
LEMMA DeliveredWatch ==
  ASSUME NEW s, NEW th \in ThreadRecords(s), th.watch # None, th.watch.pending # None, NEW th2,
         th2 = Delivered(th)
  PROVE  /\ th2 \in ThreadRecords(s)
         /\ th2.paused = th.paused /\ th2.queue = th.queue /\ th2.delivery = th.delivery
         /\ th2.agent = th.agent /\ th2.given = th.given
         /\ AtEnd(th.watch) => th2.watch = None
         /\ ~AtEnd(th.watch) => th2.watch = [th.watch EXCEPT !.pending = None]
<1>1. th.watch \in Watches
  BY DEF ThreadRecords
<1>2. [th.watch EXCEPT !.pending = None] \in Watches
  BY <1>1 DEF Watches
<1>3. \A w \in Watches \union {None} : [th EXCEPT !.watch = w] \in ThreadRecords(s)
  BY DEF ThreadRecords
<1>4. \A w \in Watches \union {None} :
        LET r == [th EXCEPT !.watch = w]
        IN /\ r.paused = th.paused /\ r.queue = th.queue /\ r.delivery = th.delivery
           /\ r.agent = th.agent /\ r.given = th.given /\ r.watch = w
  BY DEF ThreadRecords
<1>5. CASE th.watch.pending.last
  <2>1. th2 = [th EXCEPT !.watch = None]
    BY <1>5 DEF Delivered
  <2> QED BY <1>3, <1>4, <1>5, <2>1 DEF AtEnd
<1>6. CASE ~th.watch.pending.last
  <2>1. th2 = [th EXCEPT !.watch = [th.watch EXCEPT !.pending = None]]
    BY <1>6 DEF Delivered
  <2> QED BY <1>2, <1>3, <1>4, <1>6, <2>1 DEF AtEnd
<1> QED BY <1>5, <1>6

\* The wake that waits is given to the running turn.
LEMMA GivesPending ==
  ASSUME NEW p, NEW s, NEW th, Fits(p, s, th), th.watch # None, th.watch.pending # None,
         ~Queued(th)
  PROVE  LET th2 == Delivered(Gives(th, th.watch.pending.text))
         IN  Fits(p, s, th2) /\ Keeps(th, th2)
<1> DEFINE text == th.watch.pending.text
           th1 == Gives(th, text)
           th2 == Delivered(th1)
<1>1. /\ th \in ThreadRecords(s) /\ WatchFits(p, s, th.watch) /\ th.watch \in Watches
      /\ text \in Texts(s) /\ Waiting(th.watch) = Said(text)
      /\ PendingOnce(th) /\ Once(th) /\ Watched(p, s, th)
  BY PendingText DEF Fits
<1> HIDE DEF text
<1>2. /\ th1 \in ThreadRecords(s)
      /\ th1.watch = th.watch /\ th1.paused = th.paused /\ th1.queue = th.queue
      /\ th1.delivery = th.delivery /\ th1.agent = th.agent
      /\ th1.given.ever = th.given.ever \union Said(text)
      /\ th1.given.since = th.given.since \union Said(text)
      /\ th1.given.twice = th.given.twice \union (Said(text) \intersect th.given.since)
  BY <1>1, GivesText
<1> HIDE DEF th1
<1>3. /\ th2 \in ThreadRecords(s)
      /\ th2.paused = th.paused /\ th2.queue = th.queue /\ th2.delivery = th.delivery
      /\ th2.given = th1.given
      /\ AtEnd(th.watch) => th2.watch = None
      /\ ~AtEnd(th.watch) => th2.watch = [th.watch EXCEPT !.pending = None]
  <2>1. th1.watch # None /\ th1.watch.pending # None
    BY <1>2
  <2> QED BY <1>2, <2>1, DeliveredWatch
<1> HIDE DEF th2
<1>4. \A i \in DOMAIN th.queue : Said(th.queue[i].text) \intersect Said(text) = {}
  BY <1>1 DEF PendingOnce, HeldOnce, Queued, text
<1>5. Once(th2)
  <2>1. th2.given.twice = {} /\ th2.given.since \subseteq th2.given.ever
    BY <1>1, <1>2, <1>3 DEF Once, PendingOnce, HeldOnce, text
  <2>2. \A i, j \in DOMAIN th.queue : i # j =>
          /\ th.queue[i].id # th.queue[j].id
          /\ Said(th.queue[i].text) \intersect Said(th.queue[j].text) = {}
    BY <1>1 DEF Once
  <2>3. \A i \in DOMAIN th.queue : Said(th.queue[i].text) \intersect th2.given.since = {}
    <3>1. \A i \in DOMAIN th.queue : Said(th.queue[i].text) \intersect th.given.since = {}
      BY <1>1 DEF Once
    <3>2. th2.given.since = th.given.since \union Said(text)
      BY <1>2, <1>3
    <3> QED BY <1>4, <3>1, <3>2
  <2> QED BY <1>3, <2>1, <2>2, <2>3 DEF Once
<1>6. ASSUME th2.watch # None PROVE Watched(p, s, th2)
  <2>1. th2.watch = [th.watch EXCEPT !.pending = None]
    BY <1>3, <1>6
  <2>2. /\ WatchFits(p, s, th2.watch) /\ th2.watch.pending = None
    BY <1>1, <2>1, SameWatchFits, SameWatch
  <2>3. /\ th2.watch.gen = th.watch.gen
        /\ \A item : Takes(p, th2.watch, item) <=> Takes(p, th.watch, item)
        /\ KnownOf(p, th2.watch) = KnownOf(p, th.watch)
        /\ \A told : KnowsFailures(th2.watch, told) <=> KnowsFailures(th.watch, told)
    BY <1>1, <2>1, SameWatch
  <2>4. Waiting(th2.watch) = {} /\ ~AtEnd(th2.watch) /\ ~AtEnd(th.watch)
    BY <1>3, <1>6, <2>2, WaitingIs DEF AtEnd
  <2>5. Knowing(p, th2.watch, th2.given.since \union QueueText(th2) \union Waiting(th2.watch))
    <3>1. th2.given.since \union QueueText(th2) \union Waiting(th2.watch)
            = th.given.since \union QueueText(th) \union Waiting(th.watch)
      BY <1>1, <1>2, <1>3, <2>4 DEF QueueText
    <3>2. \A item \in th.given.since \union QueueText(th) \union Waiting(th.watch) :
            item.gen = th.watch.gen => Takes(p, th.watch, item)
      BY <1>1, <2>4 DEF Watched, Knowing
    <3> QED BY <2>3, <3>1, <3>2 DEF Knowing
  <2>6. ToldFits(p, th2.watch, th2.given.ever \union Waiting(th2.watch))
    <3>1. th2.given.ever \union Waiting(th2.watch) = th.given.ever \union Waiting(th.watch)
      BY <1>1, <1>2, <1>3, <2>4
    <3>2. ToldFits(p, th.watch, th.given.ever \union Waiting(th.watch))
      BY <1>1 DEF Watched
    <3> QED BY <2>3, <2>4, <3>1, <3>2 DEF ToldFits
  <2> QED BY <2>2, <2>5, <2>6 DEF Watched
<1>7. th2.delivery # 0 => th2.queue # <<>> /\ th2.delivery = Head(th2.queue).id
  BY <1>3 DEF Fits
<1>8. Fits(p, s, th2)
  BY <1>3, <1>5, <1>6, <1>7 DEF Fits
<1>9. Keeps(th, th2)
  <2>1. th.given.ever \subseteq th2.given.ever /\ Said(text) \subseteq th2.given.ever
    BY <1>2, <1>3
  <2>2. HeldOf(th) = Said(text)
    BY <1>1 DEF HeldOf
  <2>3. ASSUME th2.watch # None
        PROVE  /\ th2.watch = [th.watch EXCEPT !.pending = th2.watch.pending]
               /\ th2.watch.pending \in Wakes \union {None}
               /\ AtEnd(th2.watch) <=> AtEnd(th.watch)
    <3>1. th2.watch = [th.watch EXCEPT !.pending = None] /\ ~AtEnd(th.watch)
      BY <1>3, <2>3
    <3>2. th2.watch.pending = None
      BY <1>1, <3>1, SameWatch
    <3> QED BY <3>1, <3>2 DEF AtEnd
  <2>4. th2.watch = None => AtEnd(th.watch)
    <3>1. [th.watch EXCEPT !.pending = None] # None
      BY <1>1, SameWatch
    <3> QED BY <1>3, <3>1
  <2> QED BY <1>3, <2>1, <2>2, <2>3, <2>4 DEF Keeps
<1> QED BY <1>8, <1>9 DEF th1, th2, text

\* deliver_pull_request_wake keeps a thread fit.
LEMMA DeliverFits ==
  ASSUME NEW p, NEW s, NEW th, Fits(p, s, th), th.watch # None, th.watch.pending # None
  PROVE  Fits(p, s, Deliver(th)) /\ Keeps(th, Deliver(th))
<1>1. CASE th.paused \/ Queued(th)
  <2>1. Deliver(th) = th /\ th \in ThreadRecords(s)
    BY <1>1 DEF Deliver, Fits
  <2> QED BY <2>1, KeepsNothing
<1>2. CASE ~(th.paused \/ Queued(th)) /\ th.agent = "steerable"
  <2>1. Deliver(th) = Delivered(Gives(th, th.watch.pending.text))
    BY <1>2 DEF Deliver
  <2> QED BY <1>2, <2>1, GivesPending
<1>3. CASE ~(th.paused \/ Queued(th)) /\ th.agent # "steerable"
  <2> DEFINE m == [id |-> th.watch.pending.id, text |-> th.watch.pending.text]
             q == Append(th.queue, m)
  <2>1. Deliver(th) = [th EXCEPT !.queue = q]
    BY <1>3 DEF Deliver
  <2>2. m \in Messages(s) /\ m.id = th.watch.pending.id /\ m.text = th.watch.pending.text
    BY PendingText DEF Messages
  <2> HIDE DEF m
  <2>3. q = Append(th.queue, m)
    OBVIOUS
  <2> HIDE DEF q
  <2>4. Fits(p, s, [th EXCEPT !.queue = q]) /\ Keeps(th, [th EXCEPT !.queue = q])
    BY <1>3, <2>2, <2>3, QueuesPending, Zenon
  <2> QED BY <2>1, <2>4
<1> QED BY <1>1, <1>2, <1>3

LEMMA RedeliverFits ==
  ASSUME NEW p, NEW s, NEW th, Fits(p, s, th)
  PROVE  Fits(p, s, Redeliver(th)) /\ Keeps(th, Redeliver(th))
<1>1. CASE th.watch # None /\ th.watch.pending # None
  BY <1>1, DeliverFits DEF Redeliver
<1>2. CASE ~(th.watch # None /\ th.watch.pending # None)
  <2>1. Redeliver(th) = th /\ th \in ThreadRecords(s)
    BY <1>2 DEF Redeliver, Fits
  <2> QED BY <2>1, KeepsNothing
<1> QED BY <1>1, <1>2

-------------------------------------------------------------------------------
(* News becomes a wake *)

Holds(th) == th.given.since \union QueueText(th) \union HeldOf(th)
ToldTo(th) == th.given.ever \union HeldOf(th)

\* A thread after a step of a pass: its watch is gone, or at its end, only where it was at
\* its end before or was told the reason since.
Follows(th, th2) ==
  /\ th2.paused = th.paused /\ th.given.ever \subseteq th2.given.ever
  /\ HeldOf(th) \subseteq ToldTo(th2)
  /\ th.watch = None => th2.watch = None
  /\ th.watch # None /\ th2.watch # None => th2.watch.gen = th.watch.gen
  /\ th.watch # None /\ (th2.watch = None \/ AtEnd(th2.watch)) =>
       AtEnd(th.watch) \/ Reason(th.watch, ToldTo(th2))

LEMMA KeepsFollows ==
  ASSUME NEW s, NEW th \in ThreadRecords(s), NEW th2, Keeps(th, th2)
  PROVE  Follows(th, th2)
<1>1. ASSUME th.watch # None, th2.watch # None
      PROVE  th2.watch.gen = th.watch.gen
  <2>1. /\ th.watch \in Watches
        /\ th2.watch = [th.watch EXCEPT !.pending = th2.watch.pending]
    BY <1>1 DEF ThreadRecords, Keeps
  <2> QED BY <2>1 DEF Watches
<1> QED BY <1>1 DEF Keeps, Follows, ToldTo

\* What a delivery adds to a step of a pass.
LEMMA FollowsKeeps ==
  ASSUME NEW s, NEW th, NEW th1 \in ThreadRecords(s), NEW th2,
         Follows(th, th1), Keeps(th1, th2)
  PROVE  Follows(th, th2)
<1>1. Follows(th1, th2)
  BY KeepsFollows
<1>2. /\ th2.paused = th.paused /\ th.given.ever \subseteq th2.given.ever
      /\ HeldOf(th) \subseteq ToldTo(th2) /\ ToldTo(th1) \subseteq ToldTo(th2)
      /\ th.watch = None => th2.watch = None
      /\ th.watch # None /\ th2.watch # None => th2.watch.gen = th.watch.gen
  BY <1>1 DEF Follows, ToldTo
<1>3. ASSUME th.watch # None, th2.watch = None \/ AtEnd(th2.watch)
      PROVE  AtEnd(th.watch) \/ Reason(th.watch, ToldTo(th2))
  <2>1. th1.watch = None \/ AtEnd(th1.watch)
    BY <1>3 DEF Keeps
  <2>2. AtEnd(th.watch) \/ Reason(th.watch, ToldTo(th1))
    BY <1>3, <2>1 DEF Follows
  <2> QED BY <1>2, <2>2 DEF Reason
<1> QED BY <1>2, <1>3 DEF Follows

SameNews(w, w2) == w.through = w2.through /\ w.ids = w2.ids

\* The wake that news makes: what was pending with the news behind it.
WakeWith(th, items, last) ==
  IF th.watch.pending = None THEN [id |-> FreshId(th), text |-> <<items>>, last |-> last]
  ELSE [id |-> th.watch.pending.id, text |-> Append(th.watch.pending.text, items),
        last |-> last]

LEMMA WakeOfNews ==
  ASSUME NEW p, NEW s, NEW th, Fits(p, s, th), th.watch # None,
         NEW items \in (SUBSET NewsTo(s)) \ {{}}, items \intersect Holds(th) = {},
         NEW last \in BOOLEAN, NEW wake, wake = WakeWith(th, items, last)
  PROVE  /\ wake \in WakesTo(s) /\ Apart(wake.text) /\ wake.last = last
         /\ Said(wake.text) \subseteq HeldOf(th) \union items
         /\ HeldOf(th) \subseteq Said(wake.text) /\ items \subseteq Said(wake.text)
         /\ HeldOnce(th, wake)
<1>1. th \in ThreadRecords(s) /\ Once(th)
  BY DEF Fits
<1>2. /\ th.queue \in Seq(Messages(s))
      /\ \A i \in DOMAIN th.queue :
           th.queue[i].text \in Texts(s) /\ Said(th.queue[i].text) \intersect items = {}
  <2>1. \A i \in DOMAIN th.queue :
          th.queue[i].text \in Texts(s) /\ Said(th.queue[i].text) \subseteq QueueText(th)
    BY <1>1, QueuedMessage
  <2> QED BY <1>1, <2>1, QueuedMessage DEF Holds
<1>3. items \intersect th.given.since = {} /\ items \intersect HeldOf(th) = {}
  BY DEF Holds
<1>4. CASE th.watch.pending = None
  <2>1. /\ FreshId(th) \in Nat \ {0}
        /\ \A i \in DOMAIN th.queue : th.queue[i].id # FreshId(th)
    BY <1>2, FreshIdIsFree
  <2>2. wake.id = FreshId(th) /\ wake.text = <<items>> /\ wake.last = last
        /\ wake = [id |-> FreshId(th), text |-> <<items>>, last |-> last]
    BY <1>4 DEF WakeWith
  <2>3. <<items>> \in Texts(s) /\ <<items>> \in Seq(SUBSET News)
    <3>1. items \in SUBSET News
      BY DEF NewsTo
    <3> QED BY <3>1 DEF Texts
  <2>4. wake \in WakesTo(s)
    BY <2>1, <2>2, <2>3 DEF WakesTo, Wakes
  <2>5. Said(wake.text) = items /\ Apart(wake.text)
    BY <2>2, SaidOnce
  <2>6. HeldOf(th) = {}
    BY <1>4, WaitingIs DEF HeldOf
  <2>7. \A i \in DOMAIN th.queue :
          IF th.queue[i].id = wake.id THEN IsPrefix(th.queue[i].text, wake.text)
          ELSE Said(th.queue[i].text) \intersect Said(wake.text) = {}
    BY <1>2, <2>1, <2>2, <2>5
  <2>8. HeldOnce(th, wake)
    BY <1>3, <2>5, <2>7 DEF HeldOnce
  <2> QED BY <2>2, <2>4, <2>5, <2>6, <2>8
<1>5. CASE th.watch.pending # None
  <2> DEFINE pending == th.watch.pending
             text == Append(pending.text, items)
  <2>1. /\ pending.text \in Texts(s) /\ pending.id \in Nat \ {0} /\ Apart(pending.text)
        /\ Waiting(th.watch) = Said(pending.text) /\ PendingOnce(th)
    BY <1>5, PendingText
  <2>2. HeldOf(th) = Said(pending.text)
    BY <2>1 DEF HeldOf
  <2>3. /\ text \in Texts(s) /\ Said(text) = Said(pending.text) \union items /\ Apart(text)
    BY <1>3, <2>1, <2>2, SaidMore
  <2>4. \A i \in DOMAIN th.queue :
          IsPrefix(th.queue[i].text, pending.text) => IsPrefix(th.queue[i].text, text)
    BY <1>2, <2>1, StillPrefix
  <2> HIDE DEF text
  <2>5. text \in Seq(SUBSET News)
    <3>1. text \in Seq(SUBSET NewsTo(s)) /\ SUBSET NewsTo(s) \subseteq SUBSET News
      BY <2>3, TextSaid DEF NewsTo
    <3> QED BY <3>1, WiderSequences
  <2>6. wake = [id |-> pending.id, text |-> text, last |-> last]
    BY <1>5 DEF text, WakeWith
  <2>7. wake.id = pending.id /\ wake.text = text /\ wake.last = last
    BY <2>6
  <2>8. wake \in WakesTo(s)
    <3>1. wake \in Wakes
      BY <2>1, <2>5, <2>6 DEF Wakes
    <3> QED BY <2>1, <2>3, <2>7, <3>1 DEF WakesTo
  <2>9. \A i \in DOMAIN th.queue :
          IF th.queue[i].id = wake.id THEN IsPrefix(th.queue[i].text, wake.text)
          ELSE Said(th.queue[i].text) \intersect Said(wake.text) = {}
    <3> SUFFICES ASSUME NEW i \in DOMAIN th.queue
                 PROVE  IF th.queue[i].id = pending.id THEN IsPrefix(th.queue[i].text, text)
                        ELSE Said(th.queue[i].text) \intersect Said(text) = {}
      BY <2>7
    <3>1. IF th.queue[i].id = pending.id THEN IsPrefix(th.queue[i].text, pending.text)
          ELSE Said(th.queue[i].text) \intersect Said(pending.text) = {}
      BY <2>1 DEF PendingOnce, HeldOnce
    <3>2. Said(th.queue[i].text) \intersect items = {}
      BY <1>2
    <3> QED BY <2>3, <2>4, <3>1, <3>2
  <2>10. Said(pending.text) \intersect th.given.since = {}
    BY <2>1 DEF PendingOnce, HeldOnce
  <2>11. HeldOnce(th, wake)
    BY <1>3, <2>3, <2>7, <2>9, <2>10 DEF HeldOnce
  <2> QED BY <2>2, <2>3, <2>7, <2>8, <2>11
<1> QED BY <1>4, <1>5

\* record_pull_request_watch keeps a thread fit, if what is taken as news is news, and next
\* is what the watch knows with it.
LEMMA WakeFits ==
  ASSUME NEW p, NEW s, NEW th, Fits(p, s, th), th.watch # None,
         NEW items \in (SUBSET NewsTo(s)) \ {{}}, items \intersect Holds(th) = {},
         NEW last \in BOOLEAN,
         NEW next, WatchFits(p, s, next), next.gen = th.watch.gen,
         last \/ \A item \in Holds(th) \union items : item.gen = next.gen => Takes(p, next, item),
         KnownOf(p, next) \subseteq ToldTo(th) \union items,
         KnowsFailures(next, ToldTo(th) \union items),
         last => Reason(next, items) /\ next.wakes = th.watch.wakes
  PROVE  LET th2 == Wake(th, next, items, last)
         IN  /\ Fits(p, s, th2) /\ Follows(th, th2) /\ items \subseteq ToldTo(th2)
             /\ th2.watch # None => SameNews(th2.watch, next) /\ (AtEnd(th2.watch) <=> last)
<1> DEFINE wake == WakeWith(th, items, last)
           w2 == [next EXCEPT !.pending = wake]
           th1 == [th EXCEPT !.watch = w2]
<1>1. Wake(th, next, items, last) = Deliver(th1)
  BY DEF Wake, WakeWith
<1>2. /\ wake \in WakesTo(s) /\ Apart(wake.text) /\ wake.last = last
      /\ Said(wake.text) = HeldOf(th) \union items
      /\ HeldOnce(th, wake)
  <2>0. wake = WakeWith(th, items, last)
    OBVIOUS
  <2> HIDE DEF wake
  <2>1. wake \in WakesTo(s) /\ Apart(wake.text) /\ wake.last = last
    BY <2>0, WakeOfNews
  <2>2. Said(wake.text) \subseteq HeldOf(th) \union items
    BY <2>0, WakeOfNews
  <2>3. HeldOf(th) \subseteq Said(wake.text) /\ items \subseteq Said(wake.text)
    BY SMTT(60), <2>0, WakeOfNews
  <2>4. HeldOnce(th, wake)
    BY <2>0, WakeOfNews
  <2> QED BY <2>1, <2>2, <2>3, <2>4
<1> HIDE DEF wake
<1>3. wake \in Wakes /\ wake # None /\ next \in Watches
  BY <1>2, NotNone DEF WakesTo, WatchFits
<1>4. /\ w2 \in Watches /\ w2 # None /\ w2.pending = wake /\ w2.gen = next.gen
      /\ w2.wakes = next.wakes /\ w2.through = next.through /\ w2.ids = next.ids
      /\ \A item : Takes(p, w2, item) <=> Takes(p, next, item)
      /\ KnownOf(p, w2) = KnownOf(p, next)
      /\ \A told : KnowsFailures(w2, told) <=> KnowsFailures(next, told)
      /\ \A told : Reason(w2, told) <=> Reason(next, told)
  BY <1>3, SameWatch
<1>5. WatchFits(p, s, w2)
  BY <1>2, SameWatchFits
<1> HIDE DEF w2
<1>6. /\ th1 \in ThreadRecords(s) /\ th1.watch = w2 /\ th1.paused = th.paused
      /\ th1.queue = th.queue /\ th1.delivery = th.delivery /\ th1.given = th.given
  BY <1>4 DEF ThreadRecords, Fits
<1> HIDE DEF th1
<1>7. Waiting(w2) = HeldOf(th) \union items /\ HeldOf(th1) = HeldOf(th) \union items
  BY <1>2, <1>3, <1>4, <1>6, WaitingIs DEF HeldOf
<1>8. AtEnd(w2) <=> last
  BY <1>2, <1>3, <1>4 DEF AtEnd
<1>9. Watched(p, s, th1)
  <2>1. PendingOnce(th1)
    BY <1>2, <1>4, <1>6 DEF PendingOnce, HeldOnce
  <2>2. Knowing(p, w2, th.given.since \union QueueText(th1) \union Waiting(w2))
    <3>1. th.given.since \union QueueText(th1) \union Waiting(w2) = Holds(th) \union items
      BY <1>6, <1>7 DEF Holds, QueueText
    <3> QED BY <1>4, <1>8, <3>1 DEF Knowing
  <2>3. ToldFits(p, w2, th.given.ever \union Waiting(w2))
    <3>1. th.given.ever \union Waiting(w2) = ToldTo(th) \union items
      BY <1>7 DEF ToldTo
    <3>2. last => Reason(w2, ToldTo(th) \union items)
      <4>1. last => Reason(w2, items)
        BY <1>4
      <4> QED BY <4>1 DEF Reason
    <3> QED BY <1>4, <1>8, <3>1, <3>2 DEF ToldFits
  <2> QED BY <1>5, <1>6, <2>1, <2>2, <2>3 DEF Watched
<1>10. Fits(p, s, th1)
  <2>1. Once(th1)
    BY ZenonT(60), <1>6 DEF Fits, Once
  <2> QED BY <1>6, <1>9, <2>1 DEF Fits
<1>11. Fits(p, s, Deliver(th1)) /\ Keeps(th1, Deliver(th1))
  BY <1>3, <1>4, <1>6, <1>10, DeliverFits
<1>12. /\ Follows(th, Deliver(th1)) /\ items \subseteq ToldTo(Deliver(th1))
       /\ Deliver(th1).watch # None =>
            SameNews(Deliver(th1).watch, next) /\ (AtEnd(Deliver(th1).watch) <=> last)
  <2> DEFINE th2 == Deliver(th1)
  <2>1. /\ th2.paused = th.paused /\ th.given.ever \subseteq th2.given.ever
        /\ HeldOf(th) \union items \subseteq th2.given.ever \union HeldOf(th2)
        /\ th2.watch = None => AtEnd(w2)
        /\ th2.watch # None => th2.watch = [w2 EXCEPT !.pending = th2.watch.pending]
                               /\ (AtEnd(th2.watch) <=> AtEnd(w2))
    BY <1>4, <1>6, <1>7, <1>11 DEF Keeps
  <2> HIDE DEF th2
  <2>2. ASSUME th2.watch = None \/ AtEnd(th2.watch) PROVE Reason(th.watch, ToldTo(th2))
    <3>1. last /\ items \subseteq ToldTo(th2)
      BY <1>8, <2>1, <2>2 DEF ToldTo
    <3>2. Reason(next, items) /\ next.wakes = th.watch.wakes
      BY <3>1
    <3> QED BY <3>1, <3>2 DEF Reason
  <2>3. ASSUME th2.watch # None PROVE th2.watch.gen = th.watch.gen
    <3>1. th2.watch.gen = w2.gen
      BY <1>4, <2>1, <2>3 DEF Watches
    <3> QED BY <1>4, <3>1
  <2>5. ASSUME th2.watch # None
        PROVE  SameNews(th2.watch, next) /\ (AtEnd(th2.watch) <=> last)
    <3>1. SameNews(th2.watch, w2)
      BY <1>4, <2>1, <2>5 DEF Watches, SameNews
    <3> QED BY <1>4, <1>8, <2>1, <2>5, <3>1 DEF SameNews
  <2>4. HeldOf(th) \subseteq ToldTo(th2) /\ items \subseteq ToldTo(th2)
    BY <2>1 DEF ToldTo
  <2> QED BY <2>1, <2>2, <2>3, <2>4, <2>5 DEF Follows, th2
<1> QED BY <1>1, <1>11, <1>12

LEMMA WatchedHolds ==
  ASSUME NEW p, NEW s, NEW th, Fits(p, s, th), th.watch # None
  PROVE  /\ th \in ThreadRecords(s) /\ th.watch \in Watches /\ WatchFits(p, s, th.watch)
         /\ Knowing(p, th.watch, Holds(th))
         /\ ToldFits(p, th.watch, ToldTo(th))
<1>1. th \in ThreadRecords(s) /\ Watched(p, s, th)
  BY DEF Fits
<1>2. /\ Holds(th) = th.given.since \union QueueText(th) \union Waiting(th.watch)
      /\ ToldTo(th) = th.given.ever \union Waiting(th.watch)
  BY DEF Holds, ToldTo, HeldOf
<1> QED BY <1>1, <1>2 DEF Watched, WatchFits

\* The agent was told that its watch is over.
IsOver(w, told) == \E item \in told : item.gen = w.gen /\ item.what \in Ending

LEMMA EndFits ==
  ASSUME NEW p, NEW s, NEW th, Fits(p, s, th), th.watch # None, ~AtEnd(th.watch),
         NEW why \in Ending
  PROVE  LET th2 == End(th, why)
         IN  /\ Fits(p, s, th2) /\ Follows(th, th2) /\ IsOver(th.watch, ToldTo(th2))
             /\ th2.watch # None => AtEnd(th2.watch)
<1> DEFINE item == Item(why, None, 0, th.watch.gen)
           items == {item}
<1>1. /\ th \in ThreadRecords(s) /\ th.watch \in Watches /\ WatchFits(p, s, th.watch)
      /\ Knowing(p, th.watch, Holds(th)) /\ ToldFits(p, th.watch, ToldTo(th))
  BY WatchedHolds
<1>2. item \in NewsTo(s) /\ item.what = why /\ item.gen = th.watch.gen
  <2>1. th.watch.gen \in 1..s /\ th.watch.gen \in Nat
    BY <1>1 DEF WatchFits, Watches
  <2>2. why \in Kinds
    BY DEF Ending, Kinds
  <2> QED BY <2>1, <2>2 DEF Item, News, NewsTo
<1> HIDE DEF item
<1>3. items \in (SUBSET NewsTo(s)) \ {{}}
  BY <1>2
<1>4. items \intersect Holds(th) = {}
  <2>1. ASSUME item \in Holds(th) PROVE FALSE
    <3>1. Takes(p, th.watch, item)
      BY <1>1, <1>2, <2>1 DEF Knowing
    <3> QED BY <1>2, <3>1 DEF Takes
  <2> QED BY <2>1
<1>5. KnownOf(p, th.watch) \subseteq ToldTo(th) \union items
  BY <1>1 DEF ToldFits
<1>6. KnowsFailures(th.watch, ToldTo(th) \union items)
  BY <1>1 DEF ToldFits, KnowsFailures
<1>7. Reason(th.watch, items)
  BY <1>2 DEF Reason
<1>8. End(th, why) = Wake(th, th.watch, items, TRUE)
  BY DEF End, item
<1> HIDE DEF items
<1>9. /\ Fits(p, s, Wake(th, th.watch, items, TRUE))
      /\ Follows(th, Wake(th, th.watch, items, TRUE))
      /\ items \subseteq ToldTo(Wake(th, th.watch, items, TRUE))
      /\ Wake(th, th.watch, items, TRUE).watch # None =>
           AtEnd(Wake(th, th.watch, items, TRUE).watch)
  <2> DEFINE next == th.watch
             last == TRUE
  <2>1. /\ WatchFits(p, s, next) /\ next.gen = th.watch.gen /\ last \in BOOLEAN /\ last
        /\ KnownOf(p, next) \subseteq ToldTo(th) \union items
        /\ KnowsFailures(next, ToldTo(th) \union items)
        /\ Reason(next, items) /\ next.wakes = th.watch.wakes
    BY <1>1, <1>5, <1>6, <1>7
  <2> QED BY <1>3, <1>4, <2>1, WakeFits
<1>10. IsOver(th.watch, ToldTo(Wake(th, th.watch, items, TRUE)))
  <2>1. item \in ToldTo(Wake(th, th.watch, items, TRUE))
    BY <1>9 DEF items
  <2> QED BY <1>2, <2>1 DEF IsOver
<1> QED BY <1>8, <1>9, <1>10

\* An end that a step of a pass adds.
LEMMA FollowsEnd ==
  ASSUME NEW th, NEW th1, NEW th2, Follows(th, th1), Follows(th1, th2),
         th1.watch # None, IsOver(th1.watch, ToldTo(th2))
  PROVE  Follows(th, th2)
<1>1. /\ th2.paused = th.paused /\ th.given.ever \subseteq th2.given.ever
      /\ HeldOf(th) \subseteq ToldTo(th2)
      /\ th.watch = None => th2.watch = None
      /\ th.watch # None /\ th2.watch # None => th2.watch.gen = th.watch.gen
  BY DEF Follows, ToldTo
<1>2. ASSUME th.watch # None PROVE Reason(th.watch, ToldTo(th2))
  <2>1. th1.watch.gen = th.watch.gen
    BY <1>2 DEF Follows
  <2> QED BY <2>1 DEF Reason, IsOver
<1> QED BY <1>1, <1>2 DEF Follows

-------------------------------------------------------------------------------
(* A queue that shrinks, and a wake that is accepted *)

\* The messages of q are some of those of queue, each at most once.
Selects(q, queue) ==
  \E place \in [DOMAIN q -> DOMAIN queue] :
    /\ \A i, j \in DOMAIN q : i # j => place[i] # place[j]
    /\ \A i \in DOMAIN q : q[i] = queue[place[i]]

LEMMA FewerQueued ==
  ASSUME NEW p, NEW s, NEW th, Fits(p, s, th), NEW th2 \in ThreadRecords(s),
         Selects(th2.queue, th.queue), th2.given = th.given, th2.watch \in {th.watch, None},
         th2.delivery # 0 => th2.queue # <<>> /\ th2.delivery = Head(th2.queue).id
  PROVE  Fits(p, s, th2) /\ QueueText(th2) \subseteq QueueText(th)
<1> DEFINE q == th2.queue
<1>1. PICK place \in [DOMAIN q -> DOMAIN th.queue] :
        /\ \A i, j \in DOMAIN q : i # j => place[i] # place[j]
        /\ \A i \in DOMAIN q : q[i] = th.queue[place[i]]
  BY DEF Selects
<1>2. \A i \in DOMAIN q : place[i] \in DOMAIN th.queue
  BY <1>1
<1>3. th \in ThreadRecords(s) /\ Once(th)
  BY DEF Fits
<1>4. QueueText(th2) \subseteq QueueText(th)
  BY <1>1, <1>2 DEF QueueText, Texted
<1> HIDE DEF q
<1>5. Once(th2)
  <2>1. \A i, j \in DOMAIN q : i # j =>
          /\ q[i].id # q[j].id /\ Said(q[i].text) \intersect Said(q[j].text) = {}
    <3> SUFFICES ASSUME NEW i \in DOMAIN q, NEW j \in DOMAIN q, i # j
                 PROVE  /\ q[i].id # q[j].id
                        /\ Said(q[i].text) \intersect Said(q[j].text) = {}
      OBVIOUS
    <3>1. /\ q[i] = th.queue[place[i]] /\ place[i] \in DOMAIN th.queue
          /\ q[j] = th.queue[place[j]] /\ place[j] \in DOMAIN th.queue
          /\ place[i] # place[j]
      BY <1>1, <1>2
    <3> QED BY ZenonT(60), <1>3, <3>1 DEF Once
  <2>2. \A i \in DOMAIN q : Said(q[i].text) \intersect th.given.since = {}
    <3> SUFFICES ASSUME NEW i \in DOMAIN q
                 PROVE  Said(q[i].text) \intersect th.given.since = {}
      OBVIOUS
    <3>1. q[i] = th.queue[place[i]] /\ place[i] \in DOMAIN th.queue
      BY <1>1, <1>2
    <3> QED BY <1>3, <3>1 DEF Once
  <2> QED BY <1>3, <2>1, <2>2 DEF Once, q
<1>6. ASSUME th2.watch # None PROVE Watched(p, s, th2)
  <2>1. th2.watch = th.watch /\ Watched(p, s, th)
    BY <1>6 DEF Fits
  <2>2. ASSUME th.watch.pending # None PROVE PendingOnce(th2)
    <3>1. HeldOnce(th, th.watch.pending)
      BY <2>1, <2>2 DEF Watched, PendingOnce
    <3>2. \A i \in DOMAIN q :
            IF q[i].id = th.watch.pending.id THEN IsPrefix(q[i].text, th.watch.pending.text)
            ELSE Said(q[i].text) \intersect Said(th.watch.pending.text) = {}
      BY <1>1, <1>2, <3>1 DEF HeldOnce
    <3> QED BY <2>1, <3>1, <3>2 DEF PendingOnce, HeldOnce, q
  <2>3. Knowing(p, th2.watch, th2.given.since \union QueueText(th2) \union Waiting(th2.watch))
    <3>1. th2.given.since \union QueueText(th2) \union Waiting(th2.watch)
            \subseteq th.given.since \union QueueText(th) \union Waiting(th.watch)
      BY <1>4, <2>1
    <3> QED BY <2>1, <3>1, KnowingLess DEF Watched
  <2> QED BY <2>1, <2>2, <2>3 DEF Watched
<1> QED BY <1>4, <1>5, <1>6 DEF Fits, q

LEMMA SelectsNothing ==
  ASSUME NEW queue
  PROVE  Selects(<<>>, queue)
<1>1. DOMAIN <<>> = {}
  OBVIOUS
<1>2. [i \in {} |-> i] \in [DOMAIN <<>> -> DOMAIN queue]
  BY <1>1
<1> QED BY <1>1, <1>2 DEF Selects

LEMMA SelectsOne ==
  ASSUME NEW queue, NEW i \in DOMAIN queue
  PROVE  Selects(<<queue[i]>>, queue)
<1> DEFINE q == <<queue[i]>>
           place == [j \in {1} |-> i]
<1>1. DOMAIN q = {1} /\ q[1] = queue[i]
  OBVIOUS
<1>2. place \in [{1} -> DOMAIN queue] /\ place[1] = i
  OBVIOUS
<1> HIDE DEF q, place
<1> QED BY <1>1, <1>2 DEF Selects, q

LEMMA SelectsTail ==
  ASSUME NEW S, NEW queue \in Seq(S), queue # <<>>
  PROVE  Selects(Tail(queue), queue)
<1> DEFINE n == Len(queue)
           q == Tail(queue)
           place == [i \in 1..(n - 1) |-> i + 1]
<1>1. /\ n \in Nat /\ DOMAIN queue = 1..n /\ DOMAIN q = 1..(n - 1)
      /\ \A i \in 1..(n - 1) : q[i] = queue[i + 1]
  BY TailElements
<1> HIDE DEF n, q
<1>2. place \in [1..(n - 1) -> 1..n]
  <2>1. \A i \in 1..(n - 1) : i + 1 \in 1..n
    BY <1>1
  <2> QED BY <2>1
<1>3. \A i \in 1..(n - 1) : place[i] = i + 1
  OBVIOUS
<1> HIDE DEF place
<1>4. \A i, j \in 1..(n - 1) : i # j => place[i] # place[j]
  BY <1>1, <1>3
<1>5. \A i \in 1..(n - 1) : q[i] = queue[place[i]]
  BY <1>1, <1>3
<1>6. place \in [DOMAIN q -> DOMAIN queue]
  BY <1>1, <1>2
<1>7. Selects(q, queue)
  BY SMTT(60), <1>1, <1>4, <1>5, <1>6 DEF Selects
<1> QED BY <1>7 DEF q

\* discard_pull_request_wakes keeps a thread fit.
LEMMA DiscardFits ==
  ASSUME NEW p, NEW s, NEW th, Fits(p, s, th)
  PROVE  /\ Fits(p, s, Discard(th))
         /\ Discard(th) \in ThreadRecords(s) /\ Discard(th).watch = th.watch
         /\ Discard(th).given = th.given /\ Discard(th).paused = th.paused
<1> DEFINE kept == {i \in DOMAIN th.queue : th.queue[i].id = th.delivery}
           q == IF kept = {} THEN <<>> ELSE <<th.queue[CHOOSE i \in kept : TRUE]>>
           th2 == [th EXCEPT !.queue = q]
<1>1. th \in ThreadRecords(s) /\ th.queue \in Seq(Messages(s)) /\ th.delivery \in Nat
  BY DEF Fits, ThreadRecords
<1>2. \A i \in DOMAIN th.queue : th.queue[i] \in Messages(s) /\ th.queue[i].id \in Nat \ {0}
  BY <1>1, QueuedMessage
<1>3. /\ q \in Seq(Messages(s)) /\ Selects(q, th.queue)
      /\ th.delivery # 0 => q # <<>> /\ th.delivery = Head(q).id
  <2>1. CASE kept = {}
    <3>1. q = <<>>
      BY <2>1
    <3>2. th.delivery = 0
      <4> SUFFICES ASSUME th.delivery # 0 PROVE FALSE
        OBVIOUS
      <4>1. th.queue # <<>> /\ th.delivery = Head(th.queue).id
        BY DEF Fits
      <4>2. Head(th.queue) = th.queue[1] /\ 1 \in DOMAIN th.queue
        BY <1>1, <4>1, TailElements
      <4> QED BY <2>1, <4>1, <4>2
    <3>4. Selects(<<>>, th.queue)
      BY SelectsNothing
    <3>5. <<>> \in Seq(Messages(s))
      OBVIOUS
    <3> HIDE DEF q
    <3>3. Selects(q, th.queue) /\ q \in Seq(Messages(s))
      BY <3>1, <3>4, <3>5
    <3> QED BY <3>1, <3>2, <3>3
  <2>2. CASE kept # {}
    <3> DEFINE k == CHOOSE i \in kept : TRUE
    <3>1. k \in DOMAIN th.queue /\ th.queue[k].id = th.delivery
      BY <2>2
    <3>2. q = <<th.queue[k]>>
      BY <2>2
    <3> HIDE DEF k, q
    <3>3. q \in Seq(Messages(s)) /\ q # <<>> /\ Head(q) = th.queue[k]
      BY <1>2, <3>1, <3>2
    <3>4. Selects(q, th.queue)
      BY <3>1, <3>2, SelectsOne
    <3> QED BY <3>1, <3>3, <3>4
  <2> QED BY <2>1, <2>2
<1>4. Discard(th) = th2
  BY DEF Discard
<1> HIDE DEF q
<1>5. /\ th2 \in ThreadRecords(s) /\ th2.queue = q /\ th2.watch = th.watch
      /\ th2.given = th.given /\ th2.delivery = th.delivery /\ th2.paused = th.paused
  BY <1>1, <1>3 DEF ThreadRecords
<1> HIDE DEF th2
<1>6. Fits(p, s, th2)
  BY <1>3, <1>5, FewerQueued
<1> QED BY <1>4, <1>5, <1>6

\* The watch is taken off a thread, or its wakes with it.
LEMMA UnwatchedFits ==
  ASSUME NEW p, NEW s, NEW th, Fits(p, s, th), NEW th2 \in ThreadRecords(s),
         th2.queue = th.queue, th2.given = th.given, th2.watch = None,
         th2.delivery = th.delivery
  PROVE  Fits(p, s, th2)
BY DEF Fits, Once

\* A watch knows the same, and was told the same, whatever it has pending.
LEMMA SameWatchKnows ==
  ASSUME NEW p, NEW w \in Watches, NEW x \in Wakes \union {None}, NEW w2,
         w2 = [w EXCEPT !.pending = x], AtEnd(w2) <=> AtEnd(w), NEW told
  PROVE  /\ Knowing(p, w, told) => Knowing(p, w2, told)
         /\ ToldFits(p, w, told) => ToldFits(p, w2, told)
<1>1. /\ w2.gen = w.gen
      /\ \A item : Takes(p, w2, item) <=> Takes(p, w, item)
      /\ KnownOf(p, w2) = KnownOf(p, w)
      /\ KnowsFailures(w2, told) <=> KnowsFailures(w, told)
      /\ Reason(w2, told) <=> Reason(w, told)
  BY SameWatch
<1> QED BY <1>1 DEF Knowing, ToldFits

\* What the acceptance of the head of the queue makes of a thread, but for its watch.
Took(s, th, th1) ==
  LET next == Head(th.queue)
  IN  /\ th1 \in ThreadRecords(s) /\ Once(th1)
      /\ th1.watch = th.watch /\ th1.paused = th.paused /\ th1.delivery = 0
      /\ th1.given.ever = th.given.ever \union Said(next.text)
      /\ th1.given.since = th.given.since \union Said(next.text)
      /\ next.text \in Texts(s) /\ next.id \in Nat \ {0}
      /\ Said(next.text) \subseteq QueueText(th)
      /\ QueueText(th1) \subseteq QueueText(th)
      /\ 1 \in DOMAIN th.queue /\ th.queue[1] = next
      /\ \A i \in DOMAIN th1.queue :
           i + 1 \in DOMAIN th.queue /\ th1.queue[i] = th.queue[i + 1]
           /\ th1.queue[i].id # next.id

\* The acceptance of the head of the queue, by an agent that is then at the given turn: its
\* texts are given and the queue begins at the next.
HeadGiven(th, agent) ==
  Gives([th EXCEPT !.queue = Tail(@), !.delivery = 0, !.agent = agent], Head(th.queue).text)

\* So it does, of any thread that fits.
LEMMA AcceptedText ==
  ASSUME NEW p, NEW s, NEW th, Fits(p, s, th), th.delivery # 0, NEW agent \in Turns
  PROVE  Took(s, th, HeadGiven(th, agent))
<1> DEFINE th1 == HeadGiven(th, agent)
           next == Head(th.queue)
           q == Tail(th.queue)
           th0 == [th EXCEPT !.queue = q, !.delivery = 0, !.agent = agent]
           n == Len(th.queue)
<1>1. th \in ThreadRecords(s) /\ th.queue # <<>> /\ th.queue \in Seq(Messages(s)) /\ Once(th)
  BY DEF Fits, ThreadRecords
<1>2. /\ q \in Seq(Messages(s)) /\ n \in Nat \ {0} /\ DOMAIN th.queue = 1..n
      /\ DOMAIN q = 1..(n - 1) /\ \A i \in 1..(n - 1) : q[i] = th.queue[i + 1]
      /\ next = th.queue[1]
  BY <1>1, TailElements
<1>3. Selects(q, th.queue)
  BY <1>1, SelectsTail
<1> HIDE DEF q, n, next
<1>4. /\ th0 \in ThreadRecords(s) /\ th0.queue = q /\ th0.watch = th.watch
      /\ th0.paused = th.paused /\ th0.delivery = 0 /\ th0.given = th.given
  BY <1>1, <1>2 DEF ThreadRecords
<1>5. th1 = Gives(th0, next.text)
  BY DEF next, q, HeadGiven
<1> HIDE DEF th0, th1
<1>6. Fits(p, s, th0) /\ QueueText(th0) \subseteq QueueText(th)
  BY <1>3, <1>4, FewerQueued
<1>7. 1 \in DOMAIN th.queue
  BY <1>2
<1>8. /\ next.text \in Texts(s) /\ next.id \in Nat \ {0}
      /\ Said(next.text) \subseteq QueueText(th)
  BY <1>1, <1>2, <1>7, QueuedMessage
<1>9. /\ th1 \in ThreadRecords(s)
      /\ th1.watch = th.watch /\ th1.paused = th.paused /\ th1.queue = q
      /\ th1.delivery = 0
      /\ th1.given.ever = th.given.ever \union Said(next.text)
      /\ th1.given.since = th.given.since \union Said(next.text)
      /\ th1.given.twice = th.given.twice \union (Said(next.text) \intersect th.given.since)
  BY <1>4, <1>5, <1>8, GivesText
<1>10. \A i \in DOMAIN q :
         /\ i + 1 \in DOMAIN th.queue /\ q[i] = th.queue[i + 1]
         /\ q[i].id # next.id /\ Said(q[i].text) \intersect Said(next.text) = {}
  <2> SUFFICES ASSUME NEW i \in 1..(n - 1)
               PROVE  /\ i + 1 \in DOMAIN th.queue /\ q[i] = th.queue[i + 1]
                      /\ q[i].id # next.id /\ Said(q[i].text) \intersect Said(next.text) = {}
    BY <1>2
  <2>1. i + 1 \in DOMAIN th.queue /\ i + 1 # 1
    BY <1>2
  <2>2. q[i] = th.queue[i + 1]
    BY <1>2
  <2> QED BY ZenonT(60), <1>1, <1>2, <1>7, <2>1, <2>2 DEF Once
<1>11. Once(th1)
  <2>1. Once(th0)
    BY <1>6 DEF Fits
  <2>2. th1.given.twice = {}
    BY <1>1, <1>2, <1>7, <1>9 DEF Once
  <2>3. th1.given.since \subseteq th1.given.ever
    BY <1>1, <1>9 DEF Once
  <2>4. \A i \in DOMAIN q : Said(q[i].text) \intersect th1.given.since = {}
    <3>1. \A i \in DOMAIN q : Said(q[i].text) \intersect th.given.since = {}
      BY <1>4, <2>1 DEF Once
    <3> QED BY <1>9, <1>10, <3>1
  <2>5. \A i, j \in DOMAIN q : i # j =>
          /\ q[i].id # q[j].id /\ Said(q[i].text) \intersect Said(q[j].text) = {}
    BY <1>4, <2>1 DEF Once
  <2>6. /\ \A i \in DOMAIN th1.queue : Said(th1.queue[i].text) \intersect th1.given.since = {}
        /\ \A i, j \in DOMAIN th1.queue : i # j =>
             /\ th1.queue[i].id # th1.queue[j].id
             /\ Said(th1.queue[i].text) \intersect Said(th1.queue[j].text) = {}
    <3>1. th1.queue = q
      BY <1>9
    <3> QED BY <2>4, <2>5, <3>1
  <2> QED BY <2>2, <2>3, <2>6 DEF Once
<1>12. QueueText(th1) \subseteq QueueText(th)
  BY <1>4, <1>6, <1>9 DEF QueueText
<1>13. /\ 1 \in DOMAIN th.queue /\ th.queue[1] = next
       /\ \A i \in DOMAIN th1.queue :
            i + 1 \in DOMAIN th.queue /\ th1.queue[i] = th.queue[i + 1]
            /\ th1.queue[i].id # next.id
  BY <1>2, <1>7, <1>9, <1>10
<1>14. Took(s, th, th1)
  BY <1>8, <1>9, <1>11, <1>12, <1>13 DEF next, Took
<1> QED BY <1>14 DEF th1

\* The thread's watch waits for nothing that was accepted.
LEMMA AcceptOther ==
  ASSUME NEW p, NEW s, NEW th, Fits(p, s, th), NEW th1, Took(s, th, th1),
         th.watch # None /\ th.watch.pending # None
           => th.watch.pending.id # Head(th.queue).id
  PROVE  Fits(p, s, th1) /\ Keeps(th, th1)
<1> DEFINE next == Head(th.queue)
<1>1. /\ th1 \in ThreadRecords(s) /\ Once(th1)
      /\ th1.watch = th.watch /\ th1.paused = th.paused /\ th1.delivery = 0
      /\ th1.given.ever = th.given.ever \union Said(next.text)
      /\ th1.given.since = th.given.since \union Said(next.text)
      /\ Said(next.text) \subseteq QueueText(th) /\ QueueText(th1) \subseteq QueueText(th)
      /\ 1 \in DOMAIN th.queue /\ th.queue[1] = next
      /\ \A i \in DOMAIN th1.queue :
           i + 1 \in DOMAIN th.queue /\ th1.queue[i] = th.queue[i + 1]
  BY DEF Took
<1> HIDE DEF next
<1>2. ASSUME th.watch # None PROVE Watched(p, s, th1)
  <2>1. Watched(p, s, th)
    BY <1>2 DEF Fits
  <2>2. ASSUME th.watch.pending # None PROVE PendingOnce(th1)
    <3> DEFINE pending == th.watch.pending
    <3>1. HeldOnce(th, pending) /\ pending.id # next.id
      BY <1>2, <2>1, <2>2 DEF Watched, PendingOnce, next
    <3>2. Said(next.text) \intersect Said(pending.text) = {}
      BY <1>1, <3>1 DEF HeldOnce
    <3>3. Said(pending.text) \intersect th1.given.since = {}
      BY <1>1, <3>1, <3>2 DEF HeldOnce
    <3>4. \A i \in DOMAIN th1.queue :
            IF th1.queue[i].id = pending.id THEN IsPrefix(th1.queue[i].text, pending.text)
            ELSE Said(th1.queue[i].text) \intersect Said(pending.text) = {}
      BY <1>1, <3>1 DEF HeldOnce
    <3> QED BY <1>1, <3>3, <3>4 DEF PendingOnce, HeldOnce
  <2>3. Knowing(p, th1.watch, th1.given.since \union QueueText(th1) \union Waiting(th1.watch))
    <3>1. th1.given.since \union QueueText(th1) \union Waiting(th1.watch)
            \subseteq th.given.since \union QueueText(th) \union Waiting(th.watch)
      BY <1>1
    <3> QED BY <1>1, <2>1, <3>1, KnowingLess DEF Watched
  <2>4. ToldFits(p, th1.watch, th1.given.ever \union Waiting(th1.watch))
    <3>1. th.given.ever \union Waiting(th.watch)
            \subseteq th1.given.ever \union Waiting(th1.watch)
      BY <1>1
    <3> QED BY <1>1, <2>1, <3>1, ToldMore DEF Watched
  <2> QED BY <1>1, <2>1, <2>2, <2>3, <2>4 DEF Watched
<1>3. Fits(p, s, th1)
  BY <1>1, <1>2 DEF Fits
<1>4. Keeps(th, th1)
  <2>1. Keeps(th1, th1)
    BY <1>1, KeepsNothing
  <2>2. HeldOf(th1) = HeldOf(th) /\ th.given.ever \subseteq th1.given.ever
    BY <1>1 DEF HeldOf
  <2> QED BY <1>1, <2>1, <2>2 DEF Keeps
<1> QED BY <1>3, <1>4

\* What was accepted is how the wake that waits begins: the rest of it waits on.
RestWake(th, first) ==
  [id |-> FreshId(th), text |-> Rest(th.watch.pending.text, first), last |-> th.watch.pending.last]
RestWaits(th, first) == [th EXCEPT !.watch = [@ EXCEPT !.pending = RestWake(th, first)]]

LEMMA AcceptRest ==
  ASSUME NEW p, NEW s, NEW th, Fits(p, s, th), NEW th1, Took(s, th, th1),
         th.watch # None, th.watch.pending # None, th.watch.pending.id = Head(th.queue).id
  PROVE  LET th2 == RestWaits(th1, Head(th.queue).text)
         IN  Fits(p, s, th2) /\ Keeps(th, th2) /\ th2.watch # None /\ th2.watch.pending # None
<1> DEFINE next == Head(th.queue)
           pending == th.watch.pending
           rest == Rest(pending.text, next.text)
           wake == RestWake(th1, next.text)
           w2 == [th.watch EXCEPT !.pending = wake]
           th2 == RestWaits(th1, next.text)
<1> HIDE DEF next, th2, wake
<1>1. /\ th1 \in ThreadRecords(s) /\ Once(th1)
      /\ th1.watch = th.watch /\ th1.paused = th.paused /\ th1.delivery = 0
      /\ th1.given.ever = th.given.ever \union Said(next.text)
      /\ th1.given.since = th.given.since \union Said(next.text)
      /\ next.text \in Texts(s)
      /\ Said(next.text) \subseteq QueueText(th) /\ QueueText(th1) \subseteq QueueText(th)
      /\ 1 \in DOMAIN th.queue /\ th.queue[1] = next
      /\ \A i \in DOMAIN th1.queue :
           /\ i + 1 \in DOMAIN th.queue /\ th1.queue[i] = th.queue[i + 1]
           /\ th1.queue[i].id # next.id
  BY DEF Took, next
<1>0. pending.id = next.id
  BY DEF next
<1>2. /\ th.watch \in Watches /\ WatchFits(p, s, th.watch) /\ pending \in Wakes
      /\ pending.text \in Texts(s) /\ Apart(pending.text)
      /\ Waiting(th.watch) = Said(pending.text) /\ HeldOnce(th, pending) /\ Watched(p, s, th)
  <2>1. /\ th.watch \in Watches /\ WatchFits(p, s, th.watch) /\ pending \in Wakes
        /\ pending.text \in Texts(s) /\ Apart(pending.text)
        /\ Waiting(th.watch) = Said(pending.text) /\ PendingOnce(th)
    BY PendingText
  <2> QED BY <2>1 DEF Fits, PendingOnce
<1>3. IsPrefix(next.text, pending.text)
  BY <1>0, <1>1, <1>2 DEF HeldOnce
<1>4. /\ rest \in Texts(s) /\ Apart(rest)
      /\ Said(pending.text) = Said(next.text) \union Said(rest)
      /\ Said(next.text) \intersect Said(rest) = {}
  <2> DEFINE first == next.text
             text == pending.text
  <2>1. /\ text \in Texts(s) /\ first \in Texts(s) /\ IsPrefix(first, text) /\ Apart(text)
        /\ rest = Rest(text, first)
    BY <1>1, <1>2, <1>3
  <2> HIDE DEF first, text, rest
  <2>2. Splits(s, text, first, rest)
    BY <2>1, PrefixAndRest
  <2> QED BY <2>2 DEF first, text, rest, Splits
<1> HIDE DEF rest
<1>5. /\ FreshId(th1) \in Nat \ {0}
      /\ \A i \in DOMAIN th1.queue : th1.queue[i].id # FreshId(th1)
  <2>1. th1.queue \in Seq(Messages(s))
    BY <1>1 DEF ThreadRecords
  <2> QED BY <2>1, FreshIdIsFree
<1>6. /\ wake \in WakesTo(s) /\ wake.id = FreshId(th1) /\ wake.text = rest
      /\ wake.last = pending.last
  <2>1. rest \in Seq(SUBSET News)
    <3>1. rest \in Seq(SUBSET NewsTo(s)) /\ SUBSET NewsTo(s) \subseteq SUBSET News
      BY <1>4, TextSaid DEF NewsTo
    <3> QED BY <3>1, WiderSequences
  <2>2. pending.last \in BOOLEAN
    BY <1>2 DEF Wakes
  <2>3. wake = [id |-> FreshId(th1), text |-> rest, last |-> pending.last]
    BY <1>1 DEF wake, RestWake, rest
  <2>4. wake \in Wakes
    BY <1>5, <2>1, <2>2, <2>3 DEF Wakes
  <2> QED BY <1>4, <1>5, <2>3, <2>4 DEF WakesTo
<1>7. wake \in Wakes /\ wake # None
  BY <1>6, NotNone DEF WakesTo
<1>8. /\ w2 \in Watches /\ w2 # None /\ w2.pending = wake
  BY <1>2, <1>7, SameWatch
<1>9. WatchFits(p, s, w2)
  BY <1>2, <1>4, <1>6, SameWatchFits
<1>10. AtEnd(w2) <=> AtEnd(th.watch)
  BY <1>6, <1>7, <1>8 DEF AtEnd
<1>11. \A told : /\ Knowing(p, th.watch, told) => Knowing(p, w2, told)
                 /\ ToldFits(p, th.watch, told) => ToldFits(p, w2, told)
  BY <1>2, <1>7, <1>10, SameWatchKnows
<1>12. w2 = [th.watch EXCEPT !.pending = wake]
  OBVIOUS
<1>13. th2 = [th1 EXCEPT !.watch = w2]
  BY <1>1 DEF th2, RestWaits, wake
<1> HIDE DEF w2
<1>14. /\ th2 \in ThreadRecords(s) /\ th2.watch = w2 /\ th2.paused = th.paused
       /\ th2.queue = th1.queue /\ th2.delivery = 0 /\ th2.given = th1.given
  BY <1>1, <1>8, <1>13 DEF ThreadRecords
<1>15. Waiting(w2) = Said(rest)
  BY <1>6, <1>7, <1>8, WaitingIs
<1>16. HeldOnce(th2, wake)
  <2>1. Said(rest) \intersect th1.given.since = {}
    BY <1>1, <1>2, <1>4 DEF HeldOnce
  <2>2. \A i \in DOMAIN th1.queue : Said(th1.queue[i].text) \intersect Said(rest) = {}
    <3> SUFFICES ASSUME NEW i \in DOMAIN th1.queue
                 PROVE  Said(th1.queue[i].text) \intersect Said(rest) = {}
      OBVIOUS
    <3>1. i + 1 \in DOMAIN th.queue /\ th1.queue[i] = th.queue[i + 1]
          /\ th1.queue[i].id # next.id
      BY <1>1
    <3>2. Said(th.queue[i + 1].text) \intersect Said(pending.text) = {}
      BY <1>0, <1>2, <3>1 DEF HeldOnce
    <3> QED BY <1>4, <3>1, <3>2
  <2> QED BY <1>5, <1>6, <1>14, <2>1, <2>2 DEF HeldOnce
<1>17. Watched(p, s, th2)
  <2>1. Knowing(p, w2, th2.given.since \union QueueText(th2) \union Waiting(w2))
    <3>1. th2.given.since \union QueueText(th2) \union Waiting(w2)
            \subseteq th.given.since \union QueueText(th) \union Waiting(th.watch)
      BY <1>1, <1>2, <1>4, <1>14, <1>15 DEF QueueText
    <3>2. Knowing(p, th.watch, th2.given.since \union QueueText(th2) \union Waiting(w2))
      BY <1>2, <3>1, KnowingLess DEF Watched
    <3> QED BY <1>11, <3>2
  <2>2. ToldFits(p, w2, th2.given.ever \union Waiting(w2))
    <3>1. th.given.ever \union Waiting(th.watch) \subseteq th2.given.ever \union Waiting(w2)
      BY <1>1, <1>2, <1>4, <1>14, <1>15
    <3>2. ToldFits(p, th.watch, th2.given.ever \union Waiting(w2))
      BY <1>2, <3>1, ToldMore DEF Watched
    <3> QED BY <1>11, <3>2
  <2> QED BY <1>8, <1>9, <1>14, <1>16, <2>1, <2>2 DEF Watched, PendingOnce
<1>18. Fits(p, s, th2)
  <2>1. Once(th2)
    BY SMTT(60), <1>1, <1>14 DEF Once
  <2> QED BY <1>14, <1>17, <2>1 DEF Fits
<1>19. Keeps(th, th2)
  <2>1. HeldOf(th) \subseteq th2.given.ever \union HeldOf(th2)
    BY <1>1, <1>2, <1>4, <1>8, <1>14, <1>15 DEF HeldOf
  <2>2. th.given.ever \subseteq th2.given.ever
    BY <1>1, <1>14
  <2> QED BY <1>7, <1>8, <1>10, <1>12, <1>14, <2>1, <2>2 DEF Keeps
<1> QED BY <1>7, <1>8, <1>14, <1>18, <1>19 DEF th2, next

\* What was accepted is the whole wake that waits.
LEMMA AcceptWhole ==
  ASSUME NEW p, NEW s, NEW th, Fits(p, s, th), NEW th1, Took(s, th, th1),
         th.watch # None, th.watch.pending # None, th.watch.pending.id = Head(th.queue).id,
         th.watch.pending.text = Head(th.queue).text
  PROVE  Fits(p, s, Delivered(th1)) /\ Keeps(th, Delivered(th1))
<1> DEFINE next == Head(th.queue)
           th2 == Delivered(th1)
<1>1. /\ th1 \in ThreadRecords(s) /\ Once(th1)
      /\ th1.watch = th.watch /\ th1.paused = th.paused /\ th1.delivery = 0
      /\ th1.given.ever = th.given.ever \union Said(next.text)
      /\ th1.given.since = th.given.since \union Said(next.text)
      /\ Said(next.text) \subseteq QueueText(th) /\ QueueText(th1) \subseteq QueueText(th)
  BY DEF Took
<1>2. /\ th.watch \in Watches /\ WatchFits(p, s, th.watch)
      /\ Waiting(th.watch) = Said(next.text) /\ Watched(p, s, th)
  BY PendingText DEF Fits
<1>3. /\ th2 \in ThreadRecords(s)
      /\ th2.paused = th.paused /\ th2.queue = th1.queue /\ th2.delivery = 0
      /\ th2.given = th1.given
      /\ AtEnd(th.watch) => th2.watch = None
      /\ ~AtEnd(th.watch) => th2.watch = [th.watch EXCEPT !.pending = None]
  <2>1. th1.watch # None /\ th1.watch.pending # None /\ th2 = Delivered(th1)
    BY <1>1
  <2> HIDE DEF th2
  <2>2. /\ th2 \in ThreadRecords(s)
        /\ th2.paused = th1.paused /\ th2.queue = th1.queue /\ th2.delivery = th1.delivery
        /\ th2.given = th1.given
        /\ AtEnd(th1.watch) => th2.watch = None
        /\ ~AtEnd(th1.watch) => th2.watch = [th1.watch EXCEPT !.pending = None]
    BY <1>1, <2>1, DeliveredWatch
  <2> QED BY <1>1, <2>2
<1> HIDE DEF th2, next
<1>4. [th.watch EXCEPT !.pending = None] # None
  BY <1>2, SameWatch
<1>5. ASSUME th2.watch # None
      PROVE  /\ th2.watch = [th.watch EXCEPT !.pending = None] /\ th2.watch.pending = None
             /\ ~AtEnd(th2.watch) /\ ~AtEnd(th.watch) /\ Waiting(th2.watch) = {}
  <2>1. th2.watch = [th.watch EXCEPT !.pending = None] /\ ~AtEnd(th.watch)
    BY <1>3, <1>5
  <2>2. th2.watch.pending = None
    BY <1>2, <2>1, SameWatch
  <2> QED BY <2>1, <2>2, WaitingIs DEF AtEnd
<1>6. ASSUME th2.watch # None PROVE Watched(p, s, th2)
  <2> DEFINE w2 == th2.watch
  <2>1. /\ w2 = [th.watch EXCEPT !.pending = None] /\ w2.pending = None
        /\ ~AtEnd(w2) /\ ~AtEnd(th.watch) /\ Waiting(w2) = {}
    BY <1>5, <1>6
  <2> HIDE DEF w2
  <2>2. WatchFits(p, s, w2)
    BY <1>2, <2>1, SameWatchFits
  <2>3. \A told : /\ Knowing(p, th.watch, told) => Knowing(p, w2, told)
                  /\ ToldFits(p, th.watch, told) => ToldFits(p, w2, told)
    BY <1>2, <2>1, SameWatchKnows
  <2>4. Knowing(p, w2, th2.given.since \union QueueText(th2) \union Waiting(w2))
    <3>1. th2.given.since \union QueueText(th2) \union Waiting(w2)
            \subseteq th.given.since \union QueueText(th) \union Waiting(th.watch)
      BY <1>1, <1>2, <1>3, <2>1 DEF QueueText
    <3>2. Knowing(p, th.watch, th2.given.since \union QueueText(th2) \union Waiting(w2))
      BY <1>2, <3>1, KnowingLess DEF Watched
    <3> QED BY <2>3, <3>2
  <2>5. ToldFits(p, w2, th2.given.ever \union Waiting(w2))
    <3>1. th.given.ever \union Waiting(th.watch) \subseteq th2.given.ever \union Waiting(w2)
      BY <1>1, <1>2, <1>3, <2>1
    <3>2. ToldFits(p, th.watch, th2.given.ever \union Waiting(w2))
      BY <1>2, <3>1, ToldMore DEF Watched
    <3> QED BY <2>3, <3>2
  <2> QED BY <2>1, <2>2, <2>4, <2>5 DEF Watched, w2
<1>7. Fits(p, s, th2)
  <2>1. Once(th2)
    BY SMTT(60), <1>1, <1>3 DEF Once
  <2> QED BY <1>3, <1>6, <2>1 DEF Fits
<1>8. Keeps(th, th2)
  <2>1. HeldOf(th) \subseteq th2.given.ever /\ th.given.ever \subseteq th2.given.ever
    BY <1>1, <1>2, <1>3 DEF HeldOf
  <2>2. th2.watch = None => AtEnd(th.watch)
    BY <1>3, <1>4
  <2> QED BY <1>3, <1>5, <2>1, <2>2 DEF Keeps
<1> QED BY <1>7, <1>8 DEF th2

\* acknowledge_pull_request_wake, of what was just given, keeps a thread fit.
LEMMA AcceptFits ==
  ASSUME NEW p, NEW s, NEW th, Fits(p, s, th), th.delivery # 0, NEW agent \in Turns
  PROVE  LET next == Head(th.queue)
             th2 == Acknowledge(
               Gives([th EXCEPT !.queue = Tail(@), !.delivery = 0, !.agent = agent], next.text),
               next.id, next.text)
         IN  Fits(p, s, th2) /\ Keeps(th, th2)
<1> DEFINE next == Head(th.queue)
           th1 == HeadGiven(th, agent)
           th2 == Acknowledge(th1, next.id, next.text)
           pending == th.watch.pending
<1>1. Took(s, th, th1)
  BY AcceptedText
<1> HIDE DEF th1
<1>2. th1.watch = th.watch /\ th1 \in ThreadRecords(s)
  BY <1>1 DEF Took
<1>3. ASSUME th.watch = None \/ pending = None \/ pending.id # next.id
      PROVE  Fits(p, s, th2) /\ Keeps(th, th2)
  <2>1. th2 = th1
    BY <1>2, <1>3 DEF Acknowledge
  <2>2. Fits(p, s, th1) /\ Keeps(th, th1)
    BY <1>1, <1>3, AcceptOther
  <2> QED BY <2>1, <2>2
<1>4. ASSUME th.watch # None, pending # None, pending.id = next.id, pending.text = next.text
      PROVE  Fits(p, s, th2) /\ Keeps(th, th2)
  <2>1. th2 = Delivered(th1)
    <3>1. IsPrefix(next.text, pending.text) /\ ~IsStrictPrefix(next.text, pending.text)
      BY <1>4 DEF IsPrefix, IsStrictPrefix
    <3> QED BY <1>2, <1>4, <3>1 DEF Acknowledge
  <2>2. Fits(p, s, Delivered(th1)) /\ Keeps(th, Delivered(th1))
    BY <1>1, <1>4, AcceptWhole
  <2> QED BY <2>1, <2>2
<1>5. ASSUME th.watch # None, pending # None, pending.id = next.id, pending.text # next.text
      PROVE  Fits(p, s, th2) /\ Keeps(th, th2)
  <2> DEFINE th3 == RestWaits(th1, next.text)
  <2>1. IsStrictPrefix(next.text, pending.text)
    <3>1. HeldOnce(th, pending) /\ 1 \in DOMAIN th.queue /\ th.queue[1] = next
      BY <1>1, <1>5, PendingText DEF PendingOnce, Took
    <3>2. IsPrefix(next.text, pending.text)
      BY <1>5, <3>1 DEF HeldOnce
    <3> QED BY <1>5, <3>2 DEF IsStrictPrefix
  <2>2. th2 = Deliver([th1 EXCEPT !.watch.pending = RestWake(th1, next.text)])
    <3>1. IsPrefix(next.text, pending.text)
      BY <2>1 DEF IsStrictPrefix
    <3> QED BY <1>2, <1>5, <2>1, <3>1 DEF Acknowledge, RestWake, Rest
  <2>3. [th1 EXCEPT !.watch.pending = RestWake(th1, next.text)] = th3
    BY DEF RestWaits
  <2>4. Fits(p, s, th3) /\ Keeps(th, th3) /\ th3.watch # None /\ th3.watch.pending # None
    BY <1>1, <1>5, AcceptRest
  <2> HIDE DEF th3, th2
  <2>5. Fits(p, s, Deliver(th3)) /\ Keeps(th3, Deliver(th3))
    BY <2>4, DeliverFits
  <2>6. Keeps(th, Deliver(th3))
    <3>1. th \in ThreadRecords(s) /\ th3 \in ThreadRecords(s) /\ Deliver(th3) \in ThreadRecords(s)
      BY <2>4, <2>5 DEF Fits
    <3> QED BY <2>4, <2>5, <3>1, KeepsOn
  <2> QED BY <2>2, <2>3, <2>5, <2>6 DEF th2
<1>6. Fits(p, s, th2) /\ Keeps(th, th2)
  BY <1>3, <1>4, <1>5
<1>7. th2 = Acknowledge(
              Gives([th EXCEPT !.queue = Tail(@), !.delivery = 0, !.agent = agent], next.text),
              next.id, next.text)
  BY DEF th1, HeadGiven
<1> HIDE DEF th2
<1> QED BY <1>6, <1>7

-------------------------------------------------------------------------------
(* What a watch takes from a read *)

\* A read shows the pull request as it is, but for checks and remarks it may leave out.
Shows(p, read) ==
  /\ read.head = p.head /\ read.runs = p.runs
  /\ \E shown \in {Checks, {}} : read.checks = [c \in shown |-> p.checks[c]]
  /\ read.remarks = None \/ read.remarks = p.remarks

TakesCheck(p, w, item) ==
  /\ item.what = "failed" => TakesFailure(p, w, item)
  /\ item.what = "passed" => TakesPass(p, w, item)

\* What CheckNews must make of w, where told was told: what is new was not, and none of it
\* is new again.
CheckNewsFits(p, s, w, told, news) ==
  /\ news.failed \subseteq Checks /\ news.passed \in BOOLEAN /\ news.passedChecks \subseteq Checks
  /\ \A item \in news.items :
       /\ item \in NewsTo(s) /\ item.gen = w.gen /\ item.what \in {"failed", "passed"}
       /\ item \notin told
  /\ \A w2 :
       /\ w2.head = p.head /\ w2.failed = news.failed
       /\ w2.passed = news.passed /\ w2.passedChecks = news.passedChecks
       => \A item \in told \union news.items : item.gen = w.gen => TakesCheck(p, w2, item)
  /\ \A c \in news.failed \ w.failed :
       \E item \in news.items : item.what = "failed" /\ item.of = c /\ item.gen = w.gen

\* The forge shows no checks.
LEMMA NoCheckNews ==
  ASSUME NEW p, NEW s, NEW w, WatchFits(p, s, w), NEW read, Shows(p, read),
         DOMAIN read.checks = {},
         NEW told, \A item \in told : item.gen = w.gen => TakesCheck(p, w, item)
  PROVE  CheckNewsFits(p, s, w, told, CheckNews(w, read))
<1> DEFINE moved == read.head # w.head
           news == CheckNews(w, read)
<1>1. w \in Watches /\ read.head = p.head
  BY DEF WatchFits, Shows
<1>2. /\ w.failed \subseteq Checks /\ w.passed \in BOOLEAN /\ w.passedChecks \subseteq Checks
  BY <1>1 DEF Watches
<1>3. /\ news.failed = IF moved THEN {} ELSE w.failed
      /\ news.passed = (w.passed /\ ~moved)
      /\ news.passedChecks = IF moved THEN {} ELSE w.passedChecks
      /\ news.items = {}
  BY DEF CheckNews
<1> HIDE DEF news
<1>4. ASSUME NEW w2, w2.head = p.head, w2.failed = news.failed, w2.passed = news.passed,
             w2.passedChecks = news.passedChecks, NEW item \in told, item.gen = w.gen
      PROVE  TakesCheck(p, w2, item)
  <2>1. TakesCheck(p, w, item)
    BY <1>4
  <2>2. ASSUME item.what = "failed" PROVE TakesFailure(p, w2, item)
    BY <1>1, <1>3, <1>4, <2>1, <2>2 DEF TakesCheck, TakesFailure
  <2>3. ASSUME item.what = "passed" PROVE TakesPass(p, w2, item)
    BY <1>1, <1>2, <1>3, <1>4, <2>1, <2>3 DEF TakesCheck, TakesPass
  <2> QED BY <2>2, <2>3 DEF TakesCheck
<1> QED BY <1>2, <1>3, <1>4 DEF CheckNewsFits, news

\* It shows some.
LEMMA SomeCheckNews ==
  ASSUME NEW p, NEW b, PrFits(p, b), NEW s, NEW w, WatchFits(p, s, w),
         NEW read, Shows(p, read), DOMAIN read.checks # {},
         NEW told, \A item \in told : item.gen = w.gen => TakesCheck(p, w, item)
  PROVE  CheckNewsFits(p, s, w, told, CheckNews(w, read))
<1> DEFINE moved == read.head # w.head
           known == IF moved THEN {} ELSE w.failed
           failing == {c \in Checks : p.checks[c] = "failed"}
           passing == \A c \in Gate : p.checks[c] = "passed"
           grew == Required # {} /\ ~moved /\ ~(Gate \subseteq w.passedChecks)
           tells == passing /\ (moved \/ ~w.passed \/ grew)
           latest == Max({p.runs[c] : c \in Gate})
           failures == {Item("failed", c, p.runs[c], w.gen) : c \in failing \ known}
           passes == {Item("passed", None, n, w.gen) : n \in IF tells THEN {latest} ELSE {}}
           news == CheckNews(w, read)
<1>1. /\ w \in Watches /\ read.head = p.head /\ read.runs = p.runs
      /\ w.gen \in 1..s /\ w.gen \in Nat /\ w.failed \subseteq Checks /\ w.passed \in BOOLEAN
  BY DEF WatchFits, Shows, Watches
<1>2. /\ DOMAIN read.checks = Checks /\ Checks # {}
      /\ \A c \in Checks : read.checks[c] = p.checks[c]
  BY DEF Shows
<1>3. Gate \subseteq Checks /\ Gate # {} /\ Required \intersect Checks = Required
  BY <1>2, ChecksAssumption DEF Gate
<1>4. /\ \A c \in Checks : p.runs[c] \in Nat /\ p.runs[c] <= b
      /\ b \in Nat
  BY DEF PrFits, PullRequests
<1>5. /\ news.failed = failing /\ news.passed = passing
      /\ news.passedChecks = IF passing THEN Gate ELSE {}
      /\ news.items = failures \union passes
  <2> DEFINE demanded == Required \intersect DOMAIN read.checks
             gate == IF demanded = {} THEN DOMAIN read.checks ELSE demanded
             failing2 == {c \in DOMAIN read.checks : read.checks[c] = "failed"}
             passing2 == \A c \in gate : read.checks[c] = "passed"
             grew2 == demanded # {} /\ ~moved /\ ~(gate \subseteq w.passedChecks)
             told2 == passing2 /\ (moved \/ ~w.passed \/ grew2)
             items2 ==
               {Item("failed", c, read.runs[c], w.gen) : c \in failing2 \ known}
                 \union {Item("passed", None, n, w.gen) :
                           n \in IF told2 THEN {Max({read.runs[c] : c \in gate})} ELSE {}}
  <2>1. demanded = Required /\ gate = Gate
    BY <1>2, <1>3 DEF Gate
  <2>2. failing2 = failing
    BY <1>2
  <2>3. passing2 = passing
    BY <1>2, <1>3, <2>1
  <2>4. news = [failed |-> failing2, passed |-> passing2,
                passedChecks |-> IF passing2 THEN gate ELSE {}, items |-> items2]
    BY <1>2 DEF CheckNews
  <2>5. /\ news.failed = failing2 /\ news.passed = passing2
        /\ news.passedChecks = IF passing2 THEN gate ELSE {}
        /\ news.items = items2
    BY <2>4
  <2>6. told2 = tells
    BY <2>1, <2>3
  <2> HIDE DEF gate, failing2, passing2, told2, tells, passing, failing, news
  <2>7. items2 = failures \union passes
    BY <1>1, <2>1, <2>2, <2>6
  <2> HIDE DEF items2
  <2> QED BY <2>1, <2>2, <2>3, <2>5, <2>7
<1>6. latest \in {p.runs[c] : c \in Gate} /\ \A c \in Gate : p.runs[c] <= latest
  <2> DEFINE S == {p.runs[c] : c \in Gate}
  <2>1. S \in SUBSET Nat /\ S # {} /\ \A n \in S : n <= b
    BY <1>3, <1>4
  <2>2. \A c \in Gate : p.runs[c] \in S
    OBVIOUS
  <2> HIDE DEF S
  <2>3. Max(S) \in S /\ \A n \in S : n <= Max(S)
    BY <1>4, <2>1, MaxOfBounded
  <2> QED BY <2>2, <2>3 DEF S
<1>7. latest \in Nat
  BY <1>3, <1>4, <1>6
<1> HIDE DEF news, latest
<1>8. ASSUME NEW item \in failures
      PROVE  /\ item \in NewsTo(s) /\ item.gen = w.gen /\ item.what = "failed"
             /\ item.of \in failing \ known /\ item.n = p.runs[item.of]
  <2>1. PICK c \in failing \ known : item = Item("failed", c, p.runs[c], w.gen)
    OBVIOUS
  <2>2. c \in Checks /\ p.runs[c] \in Nat
    BY <1>4
  <2>3. /\ item.gen = w.gen /\ item.what = "failed" /\ item.of = c /\ item.n = p.runs[c]
    BY <2>1 DEF Item
  <2>4. item \in News
    BY <1>1, <2>1, <2>2 DEF Item, News, Kinds
  <2> QED BY <1>1, <2>3, <2>4 DEF NewsTo
<1>9. ASSUME NEW item \in passes
      PROVE  /\ item \in NewsTo(s) /\ item.gen = w.gen /\ item.what = "passed"
             /\ item.n = latest /\ tells
  <2>1. tells /\ item = Item("passed", None, latest, w.gen)
    OBVIOUS
  <2>2. item.gen = w.gen /\ item.what = "passed" /\ item.n = latest
    BY <2>1 DEF Item
  <2>3. item \in News
    BY <1>1, <1>7, <2>1 DEF Item, News, Kinds
  <2> QED BY <1>1, <2>1, <2>2, <2>3 DEF NewsTo
<1>10. ASSUME NEW item \in failures, item \in told PROVE FALSE
  <2>1. TakesFailure(p, w, item)
    BY <1>8, <1>10 DEF TakesCheck
  <2> QED BY <1>1, <1>8, <2>1 DEF TakesFailure
<1>11. ASSUME NEW item \in passes, item \in told PROVE FALSE
  <2>1. TakesPass(p, w, item) /\ item.n = latest /\ tells
    BY <1>9, <1>11 DEF TakesCheck
  <2>2. ~ \E c \in Gate : item.n < p.runs[c]
    BY <1>3, <1>4, <1>6, <1>7, <2>1
  <2>3. w.head = p.head /\ w.passed /\ w.passedChecks = Gate
    BY <2>1, <2>2 DEF TakesPass
  <2> QED BY <1>1, <2>1, <2>3
<1>12. ASSUME NEW w2, w2.head = p.head, w2.failed = news.failed, w2.passed = news.passed,
              w2.passedChecks = news.passedChecks,
              NEW item \in told \union news.items, item.gen = w.gen
       PROVE  TakesCheck(p, w2, item)
  <2>1. CASE item \in failures
    <3>1. TakesFailure(p, w2, item)
      BY <1>4, <1>5, <1>8, <1>12, <2>1 DEF TakesFailure
    <3> QED BY <1>8, <2>1, <3>1 DEF TakesCheck
  <2>2. CASE item \in passes
    <3>1. /\ item.n = latest /\ passing
      BY <1>9, <2>2
    <3>2. \E c \in Gate : item.n <= p.runs[c]
      BY <1>6, <1>7, <3>1
    <3>3. w2.head = p.head /\ w2.passed /\ w2.passedChecks = Gate
      BY <1>5, <1>12, <3>1
    <3>4. TakesPass(p, w2, item)
      BY <3>1, <3>2, <3>3 DEF TakesPass
    <3> QED BY <1>9, <2>2, <3>4 DEF TakesCheck
  <2>3. CASE item \in told
    <3>1. TakesCheck(p, w, item)
      BY <1>12, <2>3
    <3>2. ASSUME item.what = "failed" PROVE TakesFailure(p, w2, item)
      BY <1>5, <1>12, <3>1, <3>2 DEF TakesCheck, TakesFailure
    <3>3. ASSUME item.what = "passed" PROVE TakesPass(p, w2, item)
      BY <1>5, <1>12, <3>1, <3>3 DEF TakesCheck, TakesPass
    <3> QED BY <3>2, <3>3 DEF TakesCheck
  <2> QED BY <1>5, <2>1, <2>2, <2>3
<1>13. ASSUME NEW c \in news.failed \ w.failed
       PROVE  \E item \in news.items : item.what = "failed" /\ item.of = c /\ item.gen = w.gen
  <2> DEFINE item == Item("failed", c, p.runs[c], w.gen)
  <2>1. c \in failing \ known
    BY <1>5, <1>13
  <2>2. item \in failures
    BY <2>1
  <2>3. item.what = "failed" /\ item.of = c /\ item.gen = w.gen
    BY DEF Item
  <2> QED BY <1>5, <2>2, <2>3
<1>14. /\ news.failed \subseteq Checks /\ news.passed \in BOOLEAN
       /\ news.passedChecks \subseteq Checks
  BY <1>3, <1>5
<1>15. \A item \in news.items :
         /\ item \in NewsTo(s) /\ item.gen = w.gen /\ item.what \in {"failed", "passed"}
         /\ item \notin told
  BY <1>5, <1>8, <1>9, <1>10, <1>11
<1> QED BY <1>12, <1>13, <1>14, <1>15 DEF CheckNewsFits, news

\* The remarks that are taken from the list at, and what the watermark then is.
Latest(w, at) == Max({w.through} \union {at[i] : i \in Fresh(w, at)})
Newest(w, at) == {i \in Fresh(w, at) : at[i] = Latest(w, at)}
NextIds(w, at) == IF Latest(w, at) = w.through THEN w.ids \union Newest(w, at) ELSE Newest(w, at)

RemarksFit(p, w, at, w2) ==
  /\ w2.through \in Nat /\ w.through <= w2.through
  /\ w2.through = w.through \/ w2.through <= 2 * p.clock
  /\ w2.ids \subseteq DOMAIN p.remarks
  /\ \A i \in Fresh(w, at) :
       i \in Fresh(w, p.remarks) /\ i \notin Fresh(w2, p.remarks) /\ at[i] = p.remarks[i]
  /\ \A i \in Fresh(w2, p.remarks) : i \in Fresh(w, p.remarks)
  /\ \A item \in KnownOf(p, w2) :
       item \in KnownOf(p, w) \/ \E i \in Fresh(w, at) : item = Item("remark", i, at[i], w.gen)

LEMMA LatestFits ==
  ASSUME NEW p, NEW b, PrFits(p, b), NEW s, NEW w, WatchFits(p, s, w),
         NEW at \in {<<>>, p.remarks}
  PROVE  /\ Latest(w, at) \in Nat /\ w.through <= Latest(w, at)
         /\ Latest(w, at) = w.through \/ Latest(w, at) <= 2 * p.clock
         /\ \A i \in Fresh(w, at) :
              /\ i \in DOMAIN p.remarks /\ at[i] = p.remarks[i] /\ at[i] <= Latest(w, at)
              /\ i \in Fresh(w, p.remarks)
         /\ at = p.remarks \/ (Fresh(w, at) = {} /\ Latest(w, at) = w.through)
<1> DEFINE fresh == Fresh(w, at)
           S == {w.through} \union {at[i] : i \in fresh}
           bound == w.through + 2 * p.clock
<1>1. /\ w.through \in Nat /\ p.clock \in Nat /\ p.remarks \in Seq(Nat)
      /\ \A i \in DOMAIN p.remarks : p.remarks[i] <= 2 * p.clock
  BY DEF WatchFits, Watches, PrFits, PullRequests
<1>2. \A i \in DOMAIN p.remarks : p.remarks[i] \in Nat
  BY <1>1, SequenceElements
<1>3. \A i \in fresh : i \in DOMAIN p.remarks /\ at[i] = p.remarks[i] /\ i \in Fresh(w, p.remarks)
  <2>1. CASE at = <<>>
    BY <2>1 DEF Fresh
  <2>2. CASE at = p.remarks
    BY <2>2 DEF Fresh
  <2> QED BY <2>1, <2>2
<1> HIDE DEF fresh
<1>4. S \in SUBSET Nat /\ S # {} /\ \A n \in S : n <= bound
  <2>1. \A i \in fresh : at[i] \in Nat /\ at[i] <= 2 * p.clock
    BY <1>1, <1>2, <1>3
  <2> QED BY SMTT(60), <1>1, <2>1
<1>5. bound \in Nat
  BY <1>1
<1>6. w.through \in S /\ \A i \in fresh : at[i] \in S
  OBVIOUS
<1>7. \A n \in S : n = w.through \/ \E i \in fresh : n = at[i]
  OBVIOUS
<1>8. fresh = {} => S = {w.through}
  OBVIOUS
<1>9. Latest(w, at) = Max(S)
  BY DEF Latest, fresh
<1> HIDE DEF S, bound
<1>10. Max(S) \in S /\ \A n \in S : n <= Max(S)
  BY <1>4, <1>5, MaxOfBounded
<1>11. Max(S) \in Nat /\ w.through <= Max(S) /\ \A i \in fresh : at[i] <= Max(S)
  BY <1>4, <1>6, <1>10
<1>12. Max(S) = w.through \/ Max(S) <= 2 * p.clock
  BY <1>1, <1>3, <1>7, <1>10
<1>13. at = p.remarks \/ (fresh = {} /\ Max(S) = w.through)
  <2>1. CASE at = <<>>
    <3>1. fresh = {}
      BY <2>1 DEF Fresh, fresh
    <3> QED BY <1>8, <1>10, <3>1
  <2> QED BY <2>1
<1> QED BY <1>3, <1>9, <1>11, <1>12, <1>13 DEF fresh

LEMMA RemarksAreTaken ==
  ASSUME NEW p, NEW b, PrFits(p, b), NEW s, NEW w, WatchFits(p, s, w),
         NEW at \in {<<>>, p.remarks},
         NEW w2, w2.through = Latest(w, at), w2.ids = NextIds(w, at),
         w2.from = w.from, w2.gen = w.gen
  PROVE  RemarksFit(p, w, at, w2)
<1> DEFINE latest == Latest(w, at)
           fresh == Fresh(w, at)
<1>1. /\ w.through \in Nat /\ w.ids \subseteq DOMAIN p.remarks /\ p.remarks \in Seq(Nat)
  BY DEF WatchFits, Watches, PrFits, PullRequests
<1>2. \A i \in DOMAIN p.remarks : p.remarks[i] \in Nat
  BY <1>1, SequenceElements
<1>3. /\ latest \in Nat /\ w.through <= latest
      /\ latest = w.through \/ latest <= 2 * p.clock
      /\ \A i \in fresh :
           /\ i \in DOMAIN p.remarks /\ at[i] = p.remarks[i] /\ at[i] <= latest
           /\ i \in Fresh(w, p.remarks)
  BY LatestFits
<1>4. at = p.remarks \/ (fresh = {} /\ latest = w.through)
  BY LatestFits
<1>5. /\ \A i \in fresh : at[i] = latest => i \in w2.ids
      /\ latest = w.through => w.ids \subseteq w2.ids
      /\ w2.ids \subseteq DOMAIN p.remarks
      /\ \A i \in w2.ids : i \in fresh \/ (i \in w.ids /\ latest = w.through)
  BY <1>1, <1>3 DEF NextIds, Newest
<1>6. w2.through = latest
  OBVIOUS
<1> HIDE DEF latest, fresh
<1>7. \A i : i \in Fresh(w, p.remarks) <=>
        i \in DOMAIN p.remarks
          /\ (p.remarks[i] > w.through \/ (p.remarks[i] = w.through /\ i \notin w.ids))
  BY DEF Fresh
<1>8. \A i : i \in Fresh(w2, p.remarks) <=>
        i \in DOMAIN p.remarks
          /\ (p.remarks[i] > latest \/ (p.remarks[i] = latest /\ i \notin w2.ids))
  BY <1>6 DEF Fresh
<1>9. \A i \in fresh : i \notin Fresh(w2, p.remarks)
  BY <1>2, <1>3, <1>5, <1>8
<1>10. \A i \in Fresh(w2, p.remarks) : i \in Fresh(w, p.remarks)
  <2> SUFFICES ASSUME NEW i \in DOMAIN p.remarks,
                      p.remarks[i] > latest \/ (p.remarks[i] = latest /\ i \notin w2.ids)
               PROVE  p.remarks[i] > w.through \/ (p.remarks[i] = w.through /\ i \notin w.ids)
    BY <1>7, <1>8
  <2>1. p.remarks[i] \in Nat
    BY <1>2
  <2>2. CASE p.remarks[i] > w.through
    BY <2>2
  <2>3. CASE ~(p.remarks[i] > w.through)
    <3>1. p.remarks[i] = latest /\ latest = w.through /\ i \notin w2.ids
      BY <1>1, <1>3, <2>1, <2>3
    <3> QED BY <1>5, <3>1
  <2> QED BY <2>2, <2>3
<1>11. ASSUME NEW item \in KnownOf(p, w2)
       PROVE  item \in KnownOf(p, w) \/ \E i \in fresh : item = Item("remark", i, at[i], w.gen)
  <2>1. PICK i \in DOMAIN p.remarks :
          /\ item = Item("remark", i, p.remarks[i], w.gen)
          /\ w.from < p.remarks[i]
          /\ p.remarks[i] < latest \/ (p.remarks[i] = latest /\ i \in w2.ids)
    BY <1>6 DEF KnownOf
  <2>2. CASE i \in fresh
    BY <1>3, <2>1, <2>2
  <2>3. CASE i \notin fresh
    <3>1. p.remarks[i] < w.through \/ (p.remarks[i] = w.through /\ i \in w.ids)
      <4>1. CASE at = p.remarks
        <5>1. i \notin Fresh(w, p.remarks)
          BY <2>3, <4>1 DEF fresh
        <5> QED BY <1>1, <1>2, <1>7, <5>1
      <4>2. CASE fresh = {} /\ latest = w.through
        BY <1>5, <2>1, <4>2
      <4> QED BY <1>4, <4>1, <4>2
    <3> QED BY <2>1, <3>1 DEF KnownOf
  <2> QED BY <2>2, <2>3
<1> QED BY <1>3, <1>5, <1>6, <1>9, <1>10, <1>11 DEF RemarksFit, fresh


\* What Evaluate must make of w, where told was told: what is new was not told, none of it is
\* new again, and the watch that follows knows no more than that it was told.
EvaluateFit(p, s, w, told, read, r) ==
  /\ \A item \in r.items : item \in NewsTo(s) /\ item.gen = w.gen /\ item \notin told
  /\ r.next \in Watches /\ r.next.gen = w.gen /\ r.next.pending = w.pending
  /\ r.exhausted \in BOOLEAN
  /\ r.exhausted => Reason(w, r.items)
  /\ ~r.exhausted => WatchFits(p, s, r.next)
  /\ \A item \in told \union r.items : item.gen = w.gen => Takes(p, r.next, item)
  /\ \A item \in KnownOf(p, r.next) : item \in KnownOf(p, w) \/ item \in r.items
  /\ \A c \in r.next.failed \ w.failed :
       \E item \in r.items : item.what = "failed" /\ item.of = c /\ item.gen = w.gen
  /\ \A i \in Fresh(r.next, p.remarks) : i \in Fresh(w, p.remarks)
  /\ read.remarks # None => Fresh(r.next, p.remarks) = {}

LEMMA EvaluateFits ==
  ASSUME NEW p, NEW b, PrFits(p, b), NEW s, NEW w, WatchFits(p, s, w),
         NEW read, Shows(p, read),
         NEW told, \A item \in told : item.gen = w.gen => Takes(p, w, item)
  PROVE  EvaluateFit(p, s, w, told, read, Evaluate(w, read))
<1> DEFINE r == Evaluate(w, read)
           at == IF read.remarks = None THEN <<>> ELSE read.remarks
           news == CheckNews(w, read)
           remarks == {Item("remark", i, at[i], w.gen) : i \in Fresh(w, at)}
           commentsOnly == r.items # {} /\ r.items = remarks
           progress == read.head # w.head \/ (r.items # {} /\ ~commentsOnly)
           wakes == (IF progress THEN 0 ELSE w.wakes) + (IF commentsOnly THEN 1 ELSE 0)
           next == [w EXCEPT
             !.head = read.head, !.failed = news.failed, !.passed = news.passed,
             !.passedChecks = news.passedChecks, !.through = Latest(w, at),
             !.ids = NextIds(w, at), !.wakes = wakes]
<1>1. r.items = news.items \union remarks
  BY DEF Evaluate
<1>2. /\ r.exhausted = (commentsOnly /\ wakes >= WakeLimit)
      /\ r.next = next
  <2>1. DEFINE news2 == news
  <2> QED BY DEF Evaluate, Latest, NextIds, Newest
<1>3. /\ w \in Watches /\ w.gen \in 1..s /\ w.wakes \in Nat /\ w.wakes < WakeLimit
      /\ w.gen \in Nat
      /\ w.from \in Nat /\ w.through \in Nat /\ w.from <= w.through
      /\ w.through = w.from \/ w.through <= 2 * p.clock
      /\ w.pending # None => w.pending \in WakesTo(s) /\ Apart(w.pending.text)
      /\ WakeLimit \in Nat \ {0}
  BY BoundsAssumption DEF WatchFits, Watches
<1>4. /\ p.remarks \in Seq(Nat) /\ p.head \in Nat /\ p.clock \in Nat /\ read.head = p.head
      /\ at \in {<<>>, p.remarks}
      /\ read.remarks # None => at = p.remarks
  BY DEF PrFits, PullRequests, Shows
<1>5. /\ \A i \in Fresh(w, at) :
           i \in DOMAIN p.remarks /\ at[i] = p.remarks[i] /\ i \in Fresh(w, p.remarks)
      /\ Latest(w, at) \in Nat /\ w.through <= Latest(w, at)
  BY <1>3, <1>4, LatestFits
<1>6. \A i \in DOMAIN p.remarks : i \in Nat /\ p.remarks[i] \in Nat
  BY <1>4, SequenceElements
<1>7. CheckNewsFits(p, s, w, told, news)
  <2>1. \A item \in told : item.gen = w.gen => TakesCheck(p, w, item)
    BY DEF Takes, TakesCheck
  <2>2. CASE DOMAIN read.checks = {}
    BY <2>1, <2>2, NoCheckNews
  <2>3. CASE DOMAIN read.checks # {}
    BY <2>1, <2>3, SomeCheckNews
  <2> QED BY <2>2, <2>3
<1>8. /\ news.failed \subseteq Checks /\ news.passed \in BOOLEAN
      /\ news.passedChecks \subseteq Checks
      /\ \A item \in news.items :
           /\ item \in NewsTo(s) /\ item.gen = w.gen /\ item.what \in {"failed", "passed"}
           /\ item \notin told
      /\ \A c \in news.failed \ w.failed :
           \E item \in news.items : item.what = "failed" /\ item.of = c /\ item.gen = w.gen
  BY <1>7 DEF CheckNewsFits
<1> HIDE DEF r, at, news
<1>9. \A item \in remarks :
        \E i \in Fresh(w, at) :
          /\ item = Item("remark", i, at[i], w.gen) /\ item.what = "remark" /\ item.of = i
          /\ item.n = p.remarks[i] /\ item.gen = w.gen /\ item \in NewsTo(s)
  <2> SUFFICES ASSUME NEW i \in Fresh(w, at)
               PROVE  LET item == Item("remark", i, at[i], w.gen)
                      IN  /\ item.what = "remark" /\ item.of = i /\ item.n = p.remarks[i]
                          /\ item.gen = w.gen /\ item \in NewsTo(s)
    OBVIOUS
  <2>1. i \in Nat /\ at[i] \in Nat /\ at[i] = p.remarks[i]
    BY <1>5, <1>6
  <2> QED BY <1>3, <2>1 DEF Item, NewsTo, News, Kinds
<1>10. wakes \in Nat
  BY <1>3
<1> HIDE DEF remarks
<1>11. /\ NextIds(w, at) \subseteq Nat
  <2>1. w.ids \subseteq Nat
    BY <1>3 DEF Watches
  <2>2. Fresh(w, at) \subseteq Nat
    BY <1>5, <1>6
  <2> QED BY <2>1, <2>2 DEF NextIds, Newest
<1>12. /\ r.next \in Watches /\ r.next.head = p.head /\ r.next.failed = news.failed
       /\ r.next.passed = news.passed /\ r.next.passedChecks = news.passedChecks
       /\ r.next.through = Latest(w, at) /\ r.next.ids = NextIds(w, at)
       /\ r.next.wakes = wakes /\ r.next.gen = w.gen /\ r.next.from = w.from
       /\ r.next.pending = w.pending
  <2> DEFINE l == Latest(w, at)
             I == NextIds(w, at)
             n == read.head
  <2>1. /\ l \in Nat /\ I \in SUBSET Nat /\ n \in Nat /\ wakes \in Nat
        /\ news.failed \in SUBSET Checks /\ news.passed \in BOOLEAN
        /\ news.passedChecks \in SUBSET Checks
    BY <1>4, <1>5, <1>8, <1>10, <1>11
  <2> HIDE DEF wakes, l, I, n
  <2>2. next = [w EXCEPT !.head = n, !.failed = news.failed, !.passed = news.passed,
                         !.passedChecks = news.passedChecks, !.through = l, !.ids = I,
                         !.wakes = wakes]
    BY Zenon DEF l, I, n
  <2> HIDE DEF next
  <2>3. next \in Watches
    BY <1>3, <2>1, <2>2 DEF Watches
  <2>4. /\ next.head = n /\ next.failed = news.failed
        /\ next.passed = news.passed /\ next.passedChecks = news.passedChecks
        /\ next.through = l /\ next.ids = I /\ next.wakes = wakes
    BY <1>3, <2>1, <2>2 DEF Watches
  <2>5. next.gen = w.gen /\ next.from = w.from /\ next.pending = w.pending
    BY <1>3, <2>1, <2>2 DEF Watches
  <2> QED BY <1>2, <1>4, <2>3, <2>4, <2>5 DEF l, I, n
<1> HIDE DEF next
<1>13. RemarksFit(p, w, at, r.next)
  BY <1>4, <1>12, RemarksAreTaken
<1>14. \A item \in r.items : item \in NewsTo(s) /\ item.gen = w.gen /\ item \notin told
  <2> SUFFICES ASSUME NEW item \in remarks PROVE item \notin told
    BY <1>1, <1>8, <1>9
  <2>1. PICK i \in Fresh(w, at) : item.what = "remark" /\ item.of = i /\ item.gen = w.gen
    BY <1>9
  <2>2. i \in Fresh(w, p.remarks)
    BY <1>5
  <2> QED BY <2>1, <2>2 DEF Takes, TakesRemark
<1>15. r.exhausted \in BOOLEAN
  BY <1>2
<1>16. ASSUME r.exhausted PROVE Reason(w, r.items)
  <2>1. commentsOnly /\ wakes >= WakeLimit
    BY <1>2, <1>16
  <2>2. w.wakes + 1 >= WakeLimit
    BY <1>3, <2>1
  <2>3. PICK item \in remarks : item \in r.items
    BY <2>1
  <2>4. item.what = "remark" /\ item.gen = w.gen
    BY <1>9
  <2> QED BY <2>2, <2>3, <2>4 DEF Reason
<1>17. ASSUME ~r.exhausted PROVE WatchFits(p, s, r.next)
  <2>1. wakes < WakeLimit
    <3>1. ~(commentsOnly /\ wakes >= WakeLimit)
      BY <1>2, <1>17, Zenon
    <3>2. CASE commentsOnly
      BY <1>3, <1>10, <3>1, <3>2
    <3>3. CASE ~commentsOnly
      <4>1. wakes = 0 \/ wakes = w.wakes
        BY <1>3, <3>3
      <4> QED BY <1>3, <4>1
    <3> QED BY <3>2, <3>3
  <2>2. /\ w.through <= r.next.through /\ r.next.ids \subseteq DOMAIN p.remarks
        /\ r.next.through = w.through \/ r.next.through <= 2 * p.clock
        /\ r.next.through \in Nat
    BY <1>13 DEF RemarksFit
  <2>3. r.next.from <= r.next.through
    BY <1>3, <1>12, <2>2
  <2>4. r.next.through = r.next.from \/ r.next.through <= 2 * p.clock
    BY <1>3, <1>12, <2>2
  <2>5. r.next.head \in 0..p.head
    BY <1>4, <1>12
  <2> HIDE DEF wakes
  <2> QED BY <1>3, <1>12, <2>1, <2>2, <2>3, <2>4, <2>5 DEF WatchFits
<1>18. \A item \in told \union r.items : item.gen = w.gen => Takes(p, r.next, item)
  <2> SUFFICES ASSUME NEW item \in told \union r.items, item.gen = w.gen
               PROVE  Takes(p, r.next, item)
    OBVIOUS
  <2>1. /\ \A i \in Fresh(w, at) : i \notin Fresh(r.next, p.remarks)
        /\ \A i \in Fresh(r.next, p.remarks) : i \in Fresh(w, p.remarks)
    BY <1>13 DEF RemarksFit
  <2>2. ASSUME item \in told \union news.items PROVE TakesCheck(p, r.next, item)
    BY <1>7, <1>12, <2>2 DEF CheckNewsFits
  <2>3. CASE item \in told
    <3>1. Takes(p, w, item)
      BY <2>3
    <3>2. item.what = "remark" => TakesRemark(p, r.next, item)
      BY <2>1, <3>1 DEF Takes, TakesRemark
    <3>3. TakesCheck(p, r.next, item)
      BY <2>2, <2>3
    <3> QED BY <3>1, <3>2, <3>3 DEF Takes, TakesCheck
  <2>4. CASE item \in news.items
    <3>1. TakesCheck(p, r.next, item) /\ item.what \in {"failed", "passed"}
      BY <1>8, <2>2, <2>4
    <3> QED BY <3>1 DEF Takes, TakesCheck, Ending
  <2>5. CASE item \in remarks
    <3>1. PICK i \in Fresh(w, at) :
            item.what = "remark" /\ item.of = i /\ item.n = p.remarks[i]
      BY <1>9, <2>5
    <3>2. i \in DOMAIN p.remarks /\ i \notin Fresh(r.next, p.remarks)
      BY <1>5, <2>1
    <3> QED BY <3>1, <3>2 DEF Takes, TakesRemark, Ending
  <2> QED BY <1>1, <2>3, <2>4, <2>5
<1>19. \A item \in KnownOf(p, r.next) : item \in KnownOf(p, w) \/ item \in r.items
  <2>1. \A item \in KnownOf(p, r.next) :
          item \in KnownOf(p, w) \/ \E i \in Fresh(w, at) : item = Item("remark", i, at[i], w.gen)
    BY <1>13 DEF RemarksFit
  <2>2. \A i \in Fresh(w, at) : Item("remark", i, at[i], w.gen) \in r.items
    BY <1>1 DEF remarks
  <2> QED BY <2>1, <2>2
<1>20. \A c \in r.next.failed \ w.failed :
         \E item \in r.items : item.what = "failed" /\ item.of = c /\ item.gen = w.gen
  BY <1>1, <1>8, <1>12
<1>21. \A i \in Fresh(r.next, p.remarks) : i \in Fresh(w, p.remarks)
  BY <1>13 DEF RemarksFit
<1>22. ASSUME read.remarks # None PROVE Fresh(r.next, p.remarks) = {}
  <2>1. at = p.remarks
    BY <1>4, <1>22
  <2>2. \A i \in Fresh(w, at) : i \notin Fresh(r.next, p.remarks)
    BY <1>13 DEF RemarksFit
  <2> QED BY <1>21, <2>1, <2>2
<1> QED BY <1>12, <1>14, <1>15, <1>16, <1>17, <1>18, <1>19, <1>20, <1>21, <1>22
        DEF EvaluateFit, r

-------------------------------------------------------------------------------
(* A thread and a read *)

\* A watch that notes what it read and has nothing to tell.
LEMMA NotedFits ==
  ASSUME NEW p, NEW s, NEW th, Fits(p, s, th), th.watch # None, ~AtEnd(th.watch),
         NEW next, WatchFits(p, s, next), next.gen = th.watch.gen,
         next.pending = th.watch.pending,
         \A item \in Holds(th) : item.gen = next.gen => Takes(p, next, item),
         KnownOf(p, next) \subseteq ToldTo(th), KnowsFailures(next, ToldTo(th)),
         NEW th1, th1 = [th EXCEPT !.watch = next]
  PROVE  Fits(p, s, th1) /\ Follows(th, th1) /\ th1.watch = next /\ ~AtEnd(th1.watch)
<1>1. th \in ThreadRecords(s) /\ Once(th) /\ Watched(p, s, th) /\ next \in Watches
  BY DEF Fits, WatchFits
<1>2. next # None
  BY <1>1, NotNone
<1>3. /\ th1 \in ThreadRecords(s) /\ th1.watch = next /\ th1.paused = th.paused
      /\ th1.queue = th.queue /\ th1.delivery = th.delivery /\ th1.given = th.given
  BY <1>1 DEF ThreadRecords
<1>4. /\ Waiting(next) = Waiting(th.watch) /\ HeldOf(th1) = HeldOf(th)
      /\ Waiting(next) = HeldOf(th)
  BY <1>2, <1>3 DEF Waiting, HeldOf
<1>5. ~AtEnd(next)
  BY DEF AtEnd
<1>6. Watched(p, s, th1)
  <2>1. next.pending # None => PendingOnce(th1)
    BY <1>1, <1>3 DEF Watched, PendingOnce, HeldOnce
  <2>2. Knowing(p, next, th.given.since \union QueueText(th1) \union Waiting(next))
    <3>1. th.given.since \union QueueText(th1) \union Waiting(next) = Holds(th)
      BY <1>3, <1>4 DEF Holds, QueueText
    <3> QED BY <3>1 DEF Knowing
  <2>3. ToldFits(p, next, th.given.ever \union Waiting(next))
    <3>1. th.given.ever \union Waiting(next) = ToldTo(th)
      BY <1>4 DEF ToldTo
    <3> QED BY <1>5, <3>1 DEF ToldFits
  <2> QED BY <1>3, <2>1, <2>2, <2>3 DEF Watched
<1>7. Fits(p, s, th1)
  BY <1>1, <1>3, <1>6 DEF Fits, Once
<1>8. Follows(th, th1)
  BY <1>2, <1>3, <1>4, <1>5 DEF Follows, ToldTo
<1> QED BY <1>3, <1>5, <1>7, <1>8

Reports(th, report) ==
  IF report.items = {} THEN Redeliver([th EXCEPT !.watch = report.next])
  ELSE Wake(th, IF report.exhausted THEN th.watch ELSE report.next, report.items,
            report.exhausted)

\* What a step of a pass makes of a thread that is compared with a read.
Compares(p, s, th, read, th2) ==
  /\ Fits(p, s, th2) /\ Follows(th, th2)
  /\ th2.watch # None /\ ~AtEnd(th2.watch) =>
       /\ \A i \in Fresh(th2.watch, p.remarks) : i \in Fresh(th.watch, p.remarks)
       /\ read.remarks # None => Fresh(th2.watch, p.remarks) = {}

LEMMA SameFresh ==
  ASSUME NEW p, NEW w, NEW w2, SameNews(w2, w)
  PROVE  Fresh(w2, p.remarks) = Fresh(w, p.remarks)
BY Zenon DEF SameNews, Fresh

LEMMA ReportFits ==
  ASSUME NEW p, NEW b, PrFits(p, b), NEW s, NEW th, Fits(p, s, th),
         th.watch # None, ~AtEnd(th.watch), NEW read, Shows(p, read)
  PROVE  Compares(p, s, th, read, Reports(th, Evaluate(th.watch, read)))
<1> DEFINE w == th.watch
           r == Evaluate(w, read)
           next == r.next
<1>1. /\ th \in ThreadRecords(s) /\ w \in Watches /\ WatchFits(p, s, w)
      /\ ToldFits(p, w, ToldTo(th))
      /\ \A item \in Holds(th) : item.gen = w.gen => Takes(p, w, item)
  BY WatchedHolds DEF Knowing
<1>2. EvaluateFit(p, s, w, Holds(th), read, r)
  <2> HIDE DEF w
  <2> QED BY <1>1, EvaluateFits
<1> HIDE DEF r
<1>3. /\ \A item \in r.items : item \in NewsTo(s) /\ item.gen = w.gen /\ item \notin Holds(th)
      /\ next \in Watches /\ next.gen = w.gen /\ next.pending = w.pending
      /\ r.exhausted \in BOOLEAN
      /\ r.exhausted => Reason(w, r.items)
      /\ ~r.exhausted => WatchFits(p, s, next)
      /\ \A item \in Holds(th) \union r.items : item.gen = w.gen => Takes(p, next, item)
      /\ \A item \in KnownOf(p, next) : item \in KnownOf(p, w) \/ item \in r.items
      /\ \A c \in next.failed \ w.failed :
           \E item \in r.items : item.what = "failed" /\ item.of = c /\ item.gen = w.gen
  BY <1>2 DEF EvaluateFit
<1>4. /\ \A i \in Fresh(next, p.remarks) : i \in Fresh(w, p.remarks)
      /\ read.remarks # None => Fresh(next, p.remarks) = {}
  BY <1>2 DEF EvaluateFit
<1>5. KnownOf(p, next) \subseteq ToldTo(th) \union r.items
  BY <1>1, <1>3 DEF ToldFits
<1>6. KnowsFailures(next, ToldTo(th) \union r.items)
  <2> SUFFICES ASSUME NEW c \in next.failed
               PROVE  \E item \in ToldTo(th) \union r.items :
                        item.what = "failed" /\ item.of = c /\ item.gen = next.gen
    BY DEF KnowsFailures
  <2>1. CASE c \in w.failed
    <3>1. \E item \in ToldTo(th) : item.what = "failed" /\ item.of = c /\ item.gen = w.gen
      BY <1>1, <2>1 DEF ToldFits, KnowsFailures
    <3> QED BY <1>3, <3>1
  <2>2. CASE c \notin w.failed
    BY <1>3, <2>2
  <2> QED BY <2>1, <2>2
<1> HIDE DEF next
<1>7. CASE r.items = {}
  <2>1. ~r.exhausted
    BY <1>3, <1>7 DEF Reason
  <2> DEFINE th1 == [th EXCEPT !.watch = next]
  <2>2. /\ \A item \in Holds(th) : item.gen = next.gen => Takes(p, next, item)
        /\ KnownOf(p, next) \subseteq ToldTo(th)
        /\ KnowsFailures(next, ToldTo(th))
    <3>1. ToldTo(th) \union r.items = ToldTo(th)
      BY <1>7
    <3> QED BY <1>3, <1>5, <1>6, <3>1
  <2>3. Fits(p, s, th1) /\ Follows(th, th1) /\ th1.watch = next /\ ~AtEnd(th1.watch)
    BY <1>3, <2>1, <2>2, NotedFits
  <2> HIDE DEF th1
  <2> DEFINE th2 == Redeliver(th1)
  <2>4. Fits(p, s, th2) /\ Keeps(th1, th2)
    BY <2>3, RedeliverFits
  <2>5. Reports(th, r) = th2
    BY <1>7, Zenon DEF Reports, next, th1
  <2> HIDE DEF th2
  <2>6. Follows(th, th2)
    <3>1. th1 \in ThreadRecords(s)
      BY <2>3 DEF Fits
    <3> QED BY <2>3, <2>4, <3>1, FollowsKeeps
  <2>7. ASSUME th2.watch # None PROVE Fresh(th2.watch, p.remarks) = Fresh(next, p.remarks)
    <3>1. SameNews(th2.watch, next)
      <4>1. next # None
        BY <1>3, NotNone
      <4>2. th2.watch = [next EXCEPT !.pending = th2.watch.pending]
        BY <2>3, <2>4, <2>7, <4>1 DEF Keeps
      <4> QED BY <1>3, <4>2 DEF Watches, SameNews
    <3> QED BY <3>1, SameFresh
  <2>8. Compares(p, s, th, read, th2)
    BY <1>4, <2>4, <2>6, <2>7 DEF Compares
  <2> QED BY <2>5, <2>8 DEF r
<1>8. CASE r.items # {}
  <2> DEFINE last == r.exhausted
             after == IF last THEN w ELSE next
             items == r.items
             th2 == Wake(th, after, items, last)
  <2>1. Reports(th, r) = th2
    BY <1>8, Zenon DEF Reports, next
  <2>2. /\ items \in (SUBSET NewsTo(s)) \ {{}} /\ items \intersect Holds(th) = {}
        /\ last \in BOOLEAN
    BY <1>3, <1>8
  <2>3. WatchFits(p, s, after) /\ after.gen = w.gen
    BY <1>1, <1>3
  <2>4. last \/ \A item \in Holds(th) \union items : item.gen = after.gen => Takes(p, after, item)
    BY <1>3
  <2>5. KnownOf(p, after) \subseteq ToldTo(th) \union items
    BY <1>1, <1>5 DEF ToldFits
  <2>6. KnowsFailures(after, ToldTo(th) \union items)
    <3>1. KnowsFailures(w, ToldTo(th) \union items)
      BY <1>1 DEF ToldFits, KnowsFailures
    <3> QED BY <1>6, <3>1
  <2>7. last => Reason(after, items) /\ after.wakes = w.wakes
    BY <1>3
  <2> HIDE DEF items, last, after
  <2>8. /\ Fits(p, s, th2) /\ Follows(th, th2)
        /\ th2.watch # None => SameNews(th2.watch, after) /\ (AtEnd(th2.watch) <=> last)
    BY <2>2, <2>3, <2>4, <2>5, <2>6, <2>7, WakeFits
  <2> HIDE DEF th2
  <2>9. ASSUME th2.watch # None, ~AtEnd(th2.watch)
        PROVE  Fresh(th2.watch, p.remarks) = Fresh(next, p.remarks)
    <3>1. SameNews(th2.watch, next)
      BY <2>8, <2>9 DEF after
    <3> QED BY <3>1, SameFresh
  <2>10. Compares(p, s, th, read, th2)
    BY <1>4, <2>8, <2>9 DEF Compares
  <2> QED BY <2>1, <2>10 DEF r
<1> QED BY <1>7, <1>8

-------------------------------------------------------------------------------
(* What a read makes of the threads *)

LEMMA TargetIs ==
  ASSUME NEW s, pass.targets \subseteq Threads \X (1..s), NEW t \in Threads
  PROVE  \A gen : gen \in Target(t) <=> <<t, gen>> \in pass.targets
<1> SUFFICES ASSUME NEW gen
             PROVE  gen \in Target(t) <=> <<t, gen>> \in pass.targets
  OBVIOUS
<1>1. ASSUME gen \in Target(t) PROVE <<t, gen>> \in pass.targets
  <2>1. PICK target \in pass.targets : target[1] = t /\ target[2] = gen
    BY <1>1 DEF Target
  <2>2. target = <<target[1], target[2]>>
    OBVIOUS
  <2> QED BY <2>1, <2>2
<1>2. ASSUME <<t, gen>> \in pass.targets PROVE gen \in Target(t)
  <2> DEFINE target == <<t, gen>>
  <2>1. target \in pass.targets /\ target[1] = t /\ target[2] = gen
    BY <1>2
  <2> HIDE DEF target
  <2> QED BY <2>1 DEF Target
<1> QED BY <1>1, <1>2

\* The watch that a pass reads for has not told its last.
LEMMA ReadIsOpen ==
  ASSUME NEW s, PassFits(s, host, pass), pass # None, NEW t \in Threads
  PROVE  Reads(t) <=> /\ host.threads[t].watch # None /\ ~host.threads[t].paused
                      /\ <<t, host.threads[t].watch.gen>> \in pass.targets
                      /\ ~AtEnd(host.threads[t].watch) /\ Target(t) # {}
<1>1. pass.targets \subseteq Threads \X (1..s)
  BY DEF PassFits
<1>2. \A gen : gen \in Target(t) <=> <<t, gen>> \in pass.targets
  BY <1>1, TargetIs
<1>3. ASSUME Reads(t)
      PROVE  /\ host.threads[t].watch # None /\ ~host.threads[t].paused
             /\ <<t, host.threads[t].watch.gen>> \in pass.targets
             /\ ~AtEnd(host.threads[t].watch) /\ Target(t) # {}
  <2>1. PICK gen \in Target(t) : Records(host.threads[t], gen)
    BY <1>3 DEF Reads
  <2>2. /\ host.threads[t].watch # None /\ ~host.threads[t].paused
        /\ host.threads[t].watch.gen = gen
    BY <2>1 DEF Records
  <2>3. <<t, host.threads[t].watch.gen>> \in pass.targets
    BY <1>2, <2>1, <2>2
  <2>4. ~AtEnd(host.threads[t].watch)
    BY <2>2, <2>3 DEF PassFits
  <2> QED BY <2>1, <2>2, <2>3, <2>4
<1>4. ASSUME host.threads[t].watch # None, ~host.threads[t].paused,
             <<t, host.threads[t].watch.gen>> \in pass.targets
      PROVE  Reads(t)
  BY <1>2, <1>4 DEF Reads, Records
<1> QED BY <1>3, <1>4

LEMMA ToldReadFits ==
  ASSUME NEW p, NEW b, PrFits(p, b), NEW s, HostFits(p, s, host), PassFits(s, host, pass),
         pass # None, NEW t \in Threads, host.threads[t].watch # None,
         NEW read, Shows(p, read)
  PROVE  LET th == host.threads[t]
             th2 == Told(t, read)
         IN  /\ Fits(p, s, th2) /\ Follows(th, th2)
             /\ Reads(t) => Compares(p, s, th, read, th2)
<1> DEFINE th == host.threads[t]
           r == Evaluate(th.watch, read)
           th2 == Told(t, read)
<1>1. Fits(p, s, th) /\ th \in ThreadRecords(s)
  BY DEF HostFits, Fits
<1>2. CASE Reads(t)
  <2>1. ~AtEnd(th.watch)
    BY <1>2, ReadIsOpen
  <2>2. Compares(p, s, th, read, Reports(th, r))
    <3> HIDE DEF th
    <3> QED BY <1>1, <2>1, ReportFits DEF th
  <2>3. th2 = Reports(th, r)
    <3>1. CASE r.items = {}
      <4>1. th2 = Redeliver([th EXCEPT !.watch = r.next])
        <5> HIDE DEF r
        <5> QED BY <1>2, <3>1 DEF Told, r
      <4> QED BY <3>1, <4>1, Zenon DEF Reports
    <3>2. CASE r.items # {}
      <4>1. th2 = Wake(th, IF r.exhausted THEN th.watch ELSE r.next, r.items, r.exhausted)
        <5> HIDE DEF r
        <5> QED BY <1>2, <3>2 DEF Told, r
      <4> QED BY <3>2, <4>1, Zenon DEF Reports
    <3> QED BY <3>1, <3>2
  <2>4. Compares(p, s, th, read, th2)
    BY <2>2, <2>3, Zenon
  <2> HIDE DEF th2, th
  <2>5. Fits(p, s, th2) /\ Follows(th, th2)
    BY <2>4 DEF Compares
  <2> QED BY <2>4, <2>5 DEF th, th2
<1>3. CASE ~Reads(t)
  <2>1. th2 = th \/ th2 = Redeliver(th)
    <3>1. CASE r.items = {}
      <4> HIDE DEF r
      <4> QED BY <1>3, <3>1 DEF Told, r
    <3>2. CASE r.items # {}
      <4> HIDE DEF r
      <4> QED BY <1>3, <3>2 DEF Told, r
    <3> QED BY <3>1, <3>2
  <2> HIDE DEF th2, th
  <2>2. Fits(p, s, th2) /\ Keeps(th, th2)
    <3>1. Fits(p, s, Redeliver(th)) /\ Keeps(th, Redeliver(th)) /\ Keeps(th, th)
      BY <1>1, RedeliverFits, KeepsNothing
    <3> QED BY <1>1, <2>1, <3>1
  <2>3. Follows(th, th2)
    BY <1>1, <2>2, KeepsFollows
  <2> QED BY <1>3, <2>2, <2>3 DEF th, th2
<1> QED BY <1>2, <1>3

\* What a read that failed makes of a thread.
Missed(t, given) ==
  LET th == Redeliver(host.threads[t])
  IN IF given /\ \E gen \in Target(t) : Records(th, gen) THEN End(th, "unreadable") ELSE th

LEMMA MissedFits ==
  ASSUME NEW p, NEW s, HostFits(p, s, host), PassFits(s, host, pass),
         pass # None, NEW t \in Threads, NEW given
  PROVE  Fits(p, s, Missed(t, given)) /\ Follows(host.threads[t], Missed(t, given))
<1> DEFINE th == host.threads[t]
           th1 == Redeliver(th)
<1>1. Fits(p, s, th) /\ th \in ThreadRecords(s)
  BY DEF HostFits, Fits
<1>2. Fits(p, s, th1) /\ Keeps(th, th1)
  BY <1>1, RedeliverFits
<1> HIDE DEF th1
<1>3. Follows(th, th1)
  BY <1>1, <1>2, KeepsFollows
<1>4. CASE given /\ \E gen \in Target(t) : Records(th1, gen)
  <2>1. PICK gen \in Target(t) : Records(th1, gen)
    BY <1>4
  <2>2. th1.watch # None /\ ~th1.paused /\ th1.watch.gen = gen
    BY <2>1 DEF Records
  <2>3. th.watch # None /\ ~th.paused /\ th.watch.gen = gen
    <3>1. th.watch # None /\ ~th.paused
      BY <1>2, <2>2 DEF Keeps
    <3> QED BY <1>3, <2>2, <3>1 DEF Follows
  <2>4. Reads(t)
    BY <2>1, <2>3 DEF Reads, Records
  <2>5. ~AtEnd(th.watch)
    BY <2>4, ReadIsOpen
  <2>6. ~AtEnd(th1.watch)
    BY <1>2, <2>2, <2>3, <2>5 DEF Keeps
  <2>7. "unreadable" \in Ending
    BY DEF Ending
  <2> DEFINE th2 == End(th1, "unreadable")
  <2>8. Fits(p, s, th2) /\ Follows(th1, th2) /\ IsOver(th1.watch, ToldTo(th2))
    BY <1>2, <2>2, <2>6, <2>7, EndFits
  <2>9. Missed(t, given) = th2
    BY <1>4, Zenon DEF Missed, th1
  <2> HIDE DEF th2, th
  <2>10. Follows(th, th2)
    BY <1>3, <2>2, <2>8, FollowsEnd
  <2> QED BY <2>8, <2>9, <2>10 DEF th
<1>5. CASE ~(given /\ \E gen \in Target(t) : Records(th1, gen))
  <2>1. Missed(t, given) = th1
    BY <1>5, Zenon DEF Missed, th1
  <2> QED BY <1>2, <1>3, <2>1
<1> QED BY <1>4, <1>5

LEMMA MinOfTwo ==
  ASSUME NEW m \in Nat, NEW n \in Nat
  PROVE  Min({m, n}) \in Nat
<1>1. \E x \in {m, n} : \A y \in {m, n} : x <= y
  BY SMT
<1>2. Min({m, n}) \in {m, n}
  BY <1>1 DEF Min
<1> QED BY <1>2

\* A host whose threads fit, in what they keep of h.
After(p, s, h, h2) ==
  /\ HostFits(p, s, h2)
  /\ \A t \in Threads : Follows(h.threads[t], h2.threads[t])

LEMMA HostIs ==
  ASSUME NEW p, NEW s, NEW h, HostFits(p, s, h)
  PROVE  /\ h = [threads |-> h.threads, refresh |-> h.refresh, cache |-> h.cache,
                 failures |-> h.failures, again |-> h.again]
         /\ h.threads \in [Threads -> ThreadRecords(s)] /\ h.refresh \in SUBSET Threads
         /\ h.cache \in Caches(s) \union {None} /\ h.failures \in Nat /\ h.again \in BOOLEAN
         /\ \A t \in Threads : Fits(p, s, h.threads[t]) /\ h.threads[t] \in ThreadRecords(s)
<1>1. h \in Hosts(s)
  BY DEF HostFits
<1>2. /\ h = [threads |-> h.threads, refresh |-> h.refresh, cache |-> h.cache,
              failures |-> h.failures, again |-> h.again]
      /\ h.threads \in [Threads -> ThreadRecords(s)] /\ h.refresh \in SUBSET Threads
      /\ h.cache \in Caches(s) \union {None} /\ h.failures \in Nat /\ h.again \in BOOLEAN
  BY <1>1 DEF Hosts
<1>3. \A t \in Threads : Fits(p, s, h.threads[t]) /\ h.threads[t] \in ThreadRecords(s)
  BY <1>2 DEF HostFits
<1> QED BY <1>2, <1>3

\* A host of which the threads are new.
LEMMA NextHost ==
  ASSUME NEW p, NEW s, NEW h, HostFits(p, s, h), NEW h2 \in Hosts(s),
         \A t \in Threads : Fits(p, s, h2.threads[t]) /\ Follows(h.threads[t], h2.threads[t])
  PROVE  After(p, s, h, h2)
BY DEF After, HostFits

LEMMA UnreadFits ==
  ASSUME NEW p, NEW s, HostFits(p, s, host), PassFits(s, host, pass),
         pass # None, NEW limited \in BOOLEAN
  PROVE  After(p, s, host, Unread(limited)) /\ Unread(limited).cache = None
<1> DEFINE failures == host.failures + (IF limited THEN 0 ELSE 1)
           given == ~limited /\ failures >= ReadFailureLimit
           landed == \A target \in pass.targets : Reads(target[1])
           count == IF given /\ landed THEN 0 ELSE Min({failures, ReadFailureLimit})
           threads == [t \in Threads |->
             IF Target(t) # {} THEN Missed(t, given) ELSE host.threads[t]]
           h2 == [host EXCEPT !.cache = None, !.failures = count, !.threads = threads]
<1>1. /\ host.threads \in [Threads -> ThreadRecords(s)] /\ host.refresh \in SUBSET Threads
      /\ host.failures \in Nat /\ host.again \in BOOLEAN
      /\ \A t \in Threads : Fits(p, s, host.threads[t]) /\ host.threads[t] \in ThreadRecords(s)
  BY HostIs
<1>2. count \in Nat
  <2>1. failures \in Nat /\ ReadFailureLimit \in Nat
    BY <1>1, BoundsAssumption
  <2> HIDE DEF failures
  <2>2. Min({failures, ReadFailureLimit}) \in Nat
    BY <2>1, MinOfTwo
  <2> HIDE DEF given, landed
  <2> QED BY <2>2
<1>3. Unread(limited) = h2
  <2> HIDE DEF failures
  <2> QED BY Zenon DEF Unread, Missed, failures
<1>4. \A t \in Threads : Fits(p, s, threads[t]) /\ Follows(host.threads[t], threads[t])
  <2> SUFFICES ASSUME NEW t \in Threads
               PROVE  Fits(p, s, threads[t]) /\ Follows(host.threads[t], threads[t])
    OBVIOUS
  <2>1. CASE Target(t) # {}
    <3>1. Fits(p, s, Missed(t, given)) /\ Follows(host.threads[t], Missed(t, given))
      BY MissedFits
    <3> QED BY <2>1, <3>1
  <2>2. CASE Target(t) = {}
    <3>1. Follows(host.threads[t], host.threads[t])
      BY <1>1, KeepsNothing, KeepsFollows
    <3> QED BY <1>1, <2>2, <3>1
  <2> QED BY <2>1, <2>2
<1>5. threads \in [Threads -> ThreadRecords(s)]
  <2>1. \A t \in Threads : threads[t] \in ThreadRecords(s)
    BY <1>4 DEF Fits
  <2> QED BY <2>1
<1>6. host \in Hosts(s)
  BY DEF HostFits
<1> HIDE DEF threads, count
<1>7. h2 \in Hosts(s)
  BY <1>2, <1>5, <1>6 DEF Hosts
<1>8. h2.threads = threads /\ h2.cache = None
  BY <1>6 DEF Hosts
<1> HIDE DEF h2
<1>9. After(p, s, host, h2)
  BY <1>4, <1>7, <1>8, NextHost
<1> QED BY <1>3, <1>8, <1>9

LEMMA OverFits ==
  ASSUME NEW b, PrFits(pr, b), NEW s, HostFits(pr, s, host), PassFits(s, host, pass),
         pass # None, pr.state # "open"
  PROVE  After(pr, s, host, Over) /\ Over.cache = None
<1> DEFINE threads == [t \in Threads |->
             IF Reads(t) THEN End(host.threads[t], pr.state) ELSE host.threads[t]]
           h2 == [host EXCEPT !.cache = None, !.failures = 0, !.threads = threads]
<1>1. /\ host.threads \in [Threads -> ThreadRecords(s)] /\ host.refresh \in SUBSET Threads
      /\ host.failures \in Nat /\ host.again \in BOOLEAN
      /\ \A t \in Threads : Fits(pr, s, host.threads[t]) /\ host.threads[t] \in ThreadRecords(s)
  BY HostIs
<1>2. Over = h2
  BY Zenon DEF Over
<1>3. pr.state \in Ending
  BY DEF PrFits, PullRequests, Ending
<1>4. \A t \in Threads : Fits(pr, s, threads[t]) /\ Follows(host.threads[t], threads[t])
  <2> SUFFICES ASSUME NEW t \in Threads
               PROVE  Fits(pr, s, threads[t]) /\ Follows(host.threads[t], threads[t])
    OBVIOUS
  <2>1. CASE Reads(t)
    <3>1. host.threads[t].watch # None /\ ~AtEnd(host.threads[t].watch)
      BY <2>1, ReadIsOpen
    <3>2. /\ Fits(pr, s, End(host.threads[t], pr.state))
          /\ Follows(host.threads[t], End(host.threads[t], pr.state))
      BY <1>1, <1>3, <3>1, EndFits
    <3> QED BY <2>1, <3>2
  <2>2. CASE ~Reads(t)
    <3>1. Follows(host.threads[t], host.threads[t])
      BY <1>1, KeepsNothing, KeepsFollows
    <3> QED BY <1>1, <2>2, <3>1
  <2> QED BY <2>1, <2>2
<1>5. threads \in [Threads -> ThreadRecords(s)]
  <2>1. \A t \in Threads : threads[t] \in ThreadRecords(s)
    BY <1>4 DEF Fits
  <2> QED BY <2>1
<1>6. host \in Hosts(s)
  BY DEF HostFits
<1> HIDE DEF threads
<1>7. h2 \in Hosts(s)
  BY <1>5, <1>6 DEF Hosts
<1>8. h2.threads = threads /\ h2.cache = None
  BY <1>6 DEF Hosts
<1> HIDE DEF h2
<1>9. After(pr, s, host, h2)
  BY <1>4, <1>7, <1>8, NextHost
<1> QED BY <1>2, <1>8, <1>9

LEMMA ReadingShows ==
  ASSUME NEW b, PrFits(pr, b), NEW shown \in {Checks, {}}, NEW complete \in BOOLEAN
  PROVE  /\ Shows(pr, Reading(shown, complete))
         /\ Reading(shown, complete).remarks # None => complete
<1> DEFINE read == Reading(shown, complete)
<1>1. /\ read.head = pr.head /\ read.runs = pr.runs
      /\ read.checks = [c \in shown |-> pr.checks[c]]
      /\ read.remarks = IF complete THEN pr.remarks ELSE None
  BY DEF Reading
<1> HIDE DEF read
<1>2. \E shown2 \in {Checks, {}} : read.checks = [c \in shown2 |-> pr.checks[c]]
  BY <1>1
<1>3. Shows(pr, read)
  BY <1>1, <1>2 DEF Shows
<1> QED BY <1>1, <1>3 DEF read

LEMMA CacheIs ==
  ASSUME NEW s, NEW h \in Hosts(s), h.cache # None
  PROVE  /\ h.cache \in Caches(s) /\ h.cache.complete \in BOOLEAN
         /\ h.cache.print \in Fingerprints \union {None}
         /\ h.cache.watches \subseteq Threads \X (1..s) /\ h.cache.running \in BOOLEAN
<1>1. h.cache \in Caches(s)
  BY DEF Hosts
<1> QED BY <1>1 DEF Caches

\* The read that is cached tells what its watches were compared with.
LEMMA OpenFits ==
  ASSUME NEW b, PrFits(pr, b), NEW s, HostFits(pr, s, host), PassFits(s, host, pass),
         CacheFits(pr, host, pass), ReadingFits(pr, host, pass),
         pass # None, pass.step = "reading",
         NEW shown \in {Checks, {}}, NEW complete \in BOOLEAN, complete => pass.activity
  PROVE  LET h2 == Open(Reading(shown, complete))
         IN  After(pr, s, host, h2) /\ CacheFits(pr, h2, None)
<1> DEFINE read == Reading(shown, complete)
           threads == [t \in Threads |->
             IF Target(t) # {} /\ host.threads[t].watch # None THEN Told(t, read)
             ELSE host.threads[t]]
           cache == Cached(read)
           h2 == [host EXCEPT !.cache = cache, !.failures = 0, !.threads = threads]
<1>1. /\ host.threads \in [Threads -> ThreadRecords(s)] /\ host.refresh \in SUBSET Threads
      /\ host.failures \in Nat /\ host.again \in BOOLEAN
      /\ \A t \in Threads : Fits(pr, s, host.threads[t]) /\ host.threads[t] \in ThreadRecords(s)
  BY HostIs
<1>2. Open(read) = h2
  BY Zenon DEF Open
<1>3. Shows(pr, read) /\ (read.remarks # None => complete)
  BY ReadingShows
<1> HIDE DEF read
<1>4. pass \in Passes /\ pass.targets \subseteq Threads \X (1..s)
  BY DEF PassFits
<1>5. host \in Hosts(s)
  BY DEF HostFits
<1>6. /\ cache.print = pass.print /\ cache.watches = pass.targets
      /\ pass.activity => cache.complete = (read.remarks # None)
      /\ ~pass.activity => cache.complete = (host.cache # None /\ host.cache.complete)
  BY DEF Cached
<1>7. cache \in Caches(s)
  <2>1. pass.print \in Fingerprints \union {None} /\ pass.activity \in BOOLEAN
    BY <1>4 DEF Passes
  <2> DEFINE running == \E c \in DOMAIN read.checks : read.checks[c] = "pending"
             whole == IF pass.activity THEN read.remarks # None
                      ELSE host.cache # None /\ host.cache.complete
  <2>2. running \in BOOLEAN /\ whole \in BOOLEAN
    <3>1. (host.cache # None /\ host.cache.complete) \in BOOLEAN
      BY <1>5, CacheIs
    <3> QED BY <3>1
  <2>3. cache = [print |-> pass.print, watches |-> pass.targets, running |-> running,
                 complete |-> whole]
    BY Zenon DEF Cached
  <2> HIDE DEF running, whole, cache
  <2> QED BY <1>4, <2>1, <2>2, <2>3 DEF Caches
<1> HIDE DEF cache
<1>8. \A t \in Threads : Fits(pr, s, threads[t]) /\ Follows(host.threads[t], threads[t])
  <2> SUFFICES ASSUME NEW t \in Threads
               PROVE  Fits(pr, s, threads[t]) /\ Follows(host.threads[t], threads[t])
    OBVIOUS
  <2>1. CASE Target(t) # {} /\ host.threads[t].watch # None
    <3>1. Fits(pr, s, Told(t, read)) /\ Follows(host.threads[t], Told(t, read))
      BY <1>3, <2>1, ToldReadFits
    <3> QED BY <2>1, <3>1
  <2>2. CASE ~(Target(t) # {} /\ host.threads[t].watch # None)
    <3>1. Follows(host.threads[t], host.threads[t])
      BY <1>1, KeepsNothing, KeepsFollows
    <3> QED BY <1>1, <2>2, <3>1
  <2> QED BY <2>1, <2>2
<1>9. threads \in [Threads -> ThreadRecords(s)]
  <2>1. \A t \in Threads : threads[t] \in ThreadRecords(s)
    BY <1>8 DEF Fits
  <2> QED BY <2>1
<1>10. \A t \in Threads : Reads(t) => Compares(pr, s, host.threads[t], read, threads[t])
  <2> SUFFICES ASSUME NEW t \in Threads, Reads(t)
               PROVE  Compares(pr, s, host.threads[t], read, threads[t])
    OBVIOUS
  <2>1. Target(t) # {} /\ host.threads[t].watch # None
    BY ReadIsOpen
  <2>2. threads[t] = Told(t, read)
    BY <2>1
  <2>3. Compares(pr, s, host.threads[t], read, Told(t, read))
    BY <1>3, <2>1, ToldReadFits
  <2> QED BY <2>2, <2>3
<1> HIDE DEF threads
<1>11. h2 \in Hosts(s)
  BY <1>5, <1>7, <1>9 DEF Hosts
<1>12. h2.threads = threads /\ h2.cache = cache /\ h2.refresh = host.refresh
  BY <1>5 DEF Hosts
<1> HIDE DEF h2
<1>13. After(pr, s, host, h2)
  BY <1>8, <1>11, <1>12, NextHost
<1>14. CacheFits(pr, h2, None)
  <2>1. h2.cache.print # None => h2.cache.print.remarks <= Len(pr.remarks)
    BY <1>6, <1>12 DEF ReadingFits
  <2>2. SUFFICES ASSUME h2.cache.print # None, h2.cache.complete,
                        NEW t \in Threads, Read(h2, t),
                        NEW i \in Fresh(h2.threads[t].watch, pr.remarks)
                 PROVE  h2.cache.print.remarks < i
    BY <2>1 DEF CacheFits
  <2> DEFINE th == host.threads[t]
             th2 == threads[t]
  <2>3. /\ th2.watch # None /\ ~AtEnd(th2.watch) /\ ~th2.paused /\ t \notin host.refresh
        /\ <<t, th2.watch.gen>> \in pass.targets
    BY <1>6, <1>12, <2>2 DEF Read
  <2>4. th.watch # None /\ ~th.paused /\ th.watch.gen = th2.watch.gen
    BY <1>8, <2>3 DEF Follows
  <2>5. Reads(t)
    <3>1. th.watch.gen \in Target(t)
      BY <1>4, <2>3, <2>4, TargetIs
    <3> QED BY <2>4, <3>1 DEF Reads, Records
  <2>6. ~AtEnd(th.watch)
    BY <2>5, ReadIsOpen
  <2>7. /\ \A j \in Fresh(th2.watch, pr.remarks) : j \in Fresh(th.watch, pr.remarks)
        /\ read.remarks # None => Fresh(th2.watch, pr.remarks) = {}
    BY <1>10, <2>3, <2>5 DEF Compares
  <2>8. CASE pass.activity
    <3>1. read.remarks # None
      BY <1>6, <1>12, <2>2, <2>8
    <3> QED BY <1>12, <2>2, <2>7, <3>1
  <2>9. CASE ~pass.activity
    <3>1. /\ host.cache # None /\ host.cache.complete
      BY <1>6, <1>12, <2>2, <2>9
    <3>2. /\ pass.targets \subseteq host.cache.watches
          /\ host.cache.print # None /\ host.cache.print.remarks = pass.print.remarks
      BY <1>6, <1>12, <2>2, <2>9 DEF ReadingFits
    <3>3. Read(host, t)
      BY <2>3, <2>4, <2>6, <3>2 DEF Read
    <3>4. \A j \in Fresh(th.watch, pr.remarks) : host.cache.print.remarks < j
      BY <2>9, <3>1, <3>2, <3>3 DEF CacheFits
    <3> QED BY <1>6, <1>12, <2>2, <2>7, <3>2, <3>4
  <2> QED BY <2>8, <2>9
<1> QED BY <1>2, <1>13, <1>14 DEF read

-------------------------------------------------------------------------------
(* A pass begins and ends *)

\* What the sweep makes of a thread.
Swept(h, merged, t) ==
  CASE Undelivered(h, t) -> Deliver(h.threads[t])
    [] Watching(h, t) /\ ~Undelivered(h, t) /\ merged -> End(h.threads[t], "merged")
    [] ~Undelivered(h, t) /\ ~(Watching(h, t) /\ merged) -> h.threads[t]

\* The sweep leaves what it does not deliver and does not end.
LEMMA SweptFits ==
  ASSUME NEW p, NEW s, NEW h, HostFits(p, s, h), NEW merged \in BOOLEAN, NEW t \in Threads
  PROVE  LET th == h.threads[t]
             th2 == Swept(h, merged, t)
         IN  /\ Fits(p, s, th2)
             /\ \A th0 : Follows(th0, th) => Follows(th0, th2)
             /\ th2.watch # None /\ ~AtEnd(th2.watch) =>
                  /\ th.watch # None /\ ~AtEnd(th.watch) /\ th2.paused = th.paused
                  /\ th2.watch.gen = th.watch.gen /\ SameNews(th2.watch, th.watch)
<1> DEFINE th == h.threads[t]
           th2 == Swept(h, merged, t)
<1>1. Fits(p, s, th) /\ th \in ThreadRecords(s)
  BY DEF HostFits, Fits
<1>2. CASE Undelivered(h, t)
  <2>1. th.watch # None /\ th.watch.pending # None
    BY <1>2 DEF Undelivered, Watching
  <2>2. th2 = Deliver(th)
    BY <1>2 DEF Swept
  <2>3. Fits(p, s, th2) /\ Keeps(th, th2)
    BY <1>1, <2>1, <2>2, DeliverFits
  <2> HIDE DEF th, th2
  <2>4. \A th0 : Follows(th0, th) => Follows(th0, th2)
    BY <1>1, <2>3, FollowsKeeps
  <2>5. ASSUME th2.watch # None, ~AtEnd(th2.watch)
        PROVE  /\ ~AtEnd(th.watch) /\ th2.paused = th.paused
               /\ th2.watch.gen = th.watch.gen /\ SameNews(th2.watch, th.watch)
    <3>1. /\ th2.watch = [th.watch EXCEPT !.pending = th2.watch.pending]
          /\ ~AtEnd(th.watch) /\ th2.paused = th.paused /\ th.watch \in Watches
      BY <1>1, <2>1, <2>3, <2>5 DEF Keeps, ThreadRecords
    <3>2. th2.watch.gen = th.watch.gen /\ SameNews(th2.watch, th.watch)
      BY <3>1 DEF SameNews, Watches
    <3> QED BY <3>1, <3>2
  <2> QED BY <2>1, <2>3, <2>4, <2>5 DEF th, th2
<1>3. CASE Watching(h, t) /\ ~Undelivered(h, t) /\ merged
  <2>0. th.watch # None /\ ~AtEnd(th.watch)
    BY <1>3 DEF Undelivered, Watching, AtEnd
  <2>1. th2 = End(th, "merged")
    BY <1>3 DEF Swept
  <2>2. "merged" \in Ending
    BY DEF Ending
  <2>3. /\ Fits(p, s, th2) /\ Follows(th, th2) /\ IsOver(th.watch, ToldTo(th2))
        /\ th2.watch # None => AtEnd(th2.watch)
    BY <1>1, <2>0, <2>1, <2>2, EndFits
  <2> HIDE DEF th, th2
  <2>4. \A th0 : Follows(th0, th) => Follows(th0, th2)
    BY <2>0, <2>3, FollowsEnd
  <2> QED BY <2>3, <2>4 DEF th, th2
<1>4. CASE ~Undelivered(h, t) /\ ~(Watching(h, t) /\ merged)
  <2>1. th2 = th
    BY <1>4 DEF Swept
  <2> QED BY <1>1, <2>1 DEF SameNews
<1> QED BY <1>2, <1>3, <1>4

\* What of a host outlives a sweep, wherever the pass was.
SweepLeaves(p, s, h, h2) ==
  /\ HostFits(p, s, h2) /\ CacheFits(p, h2, None)
  /\ \A t \in Threads : \A th0 :
       Follows(th0, h.threads[t]) => Follows(th0, h2.threads[t])

LEMMA SweepFits ==
  ASSUME NEW p, NEW s, NEW h, HostFits(p, s, h), CacheFits(p, h, None),
         NEW merged \in BOOLEAN
  PROVE  LET h2 == Sweep(h, merged)
         IN  SweepLeaves(p, s, h, h2) /\ \A t \in Threads : h2.threads[t] = Swept(h, merged, t)
<1> DEFINE threads == [t \in Threads |-> Swept(h, merged, t)]
           refresh == {t \in h.refresh : ~(Undelivered(h, t) /\ h.threads[t].watch.pending.last)}
           some == \E t \in Threads : Watching(h, t)
           cache == IF some THEN h.cache ELSE None
           failures == IF some THEN h.failures ELSE 0
           h2 == Sweep(h, merged)
<1>1. /\ h.refresh \in SUBSET Threads /\ h.cache \in Caches(s) \union {None}
      /\ h.failures \in Nat /\ h \in Hosts(s)
  BY HostIs DEF HostFits
<1>2. h2 = [h EXCEPT !.threads = threads, !.refresh = refresh, !.cache = cache,
                     !.failures = failures]
  <2>1. \A t \in Threads :
          Swept(h, merged, t) =
            CASE Undelivered(h, t) -> Deliver(h.threads[t])
              [] t \in {u \in Threads : Watching(h, u) /\ ~Undelivered(h, u)} /\ merged ->
                   End(h.threads[t], "merged")
              [] OTHER -> h.threads[t]
    <3> SUFFICES ASSUME NEW t \in Threads
                 PROVE  Swept(h, merged, t) =
                          CASE Undelivered(h, t) -> Deliver(h.threads[t])
                            [] t \in {u \in Threads : Watching(h, u) /\ ~Undelivered(h, u)}
                                 /\ merged -> End(h.threads[t], "merged")
                            [] OTHER -> h.threads[t]
      OBVIOUS
    <3>1. CASE Undelivered(h, t)
      BY <3>1 DEF Swept
    <3>2. CASE ~Undelivered(h, t) /\ (Watching(h, t) /\ merged)
      BY <3>2 DEF Swept
    <3>3. CASE ~Undelivered(h, t) /\ ~(Watching(h, t) /\ merged)
      BY <3>3 DEF Swept
    <3> QED BY <3>1, <3>2, <3>3
  <2>2. [t \in Threads |->
          CASE Undelivered(h, t) -> Deliver(h.threads[t])
            [] t \in {u \in Threads : Watching(h, u) /\ ~Undelivered(h, u)} /\ merged ->
                 End(h.threads[t], "merged")
            [] OTHER -> h.threads[t]] = threads
    BY <2>1
  <2> HIDE DEF threads
  <2>3. h2 = [h EXCEPT !.threads =
               [t \in Threads |->
                 CASE Undelivered(h, t) -> Deliver(h.threads[t])
                   [] t \in {u \in Threads : Watching(h, u) /\ ~Undelivered(h, u)} /\ merged ->
                        End(h.threads[t], "merged")
                   [] OTHER -> h.threads[t]],
               !.refresh = refresh, !.cache = cache, !.failures = failures]
    BY Zenon DEF Sweep
  <2> HIDE DEF h2, refresh, cache, failures
  <2> QED BY <2>2, <2>3
<1>3. \A t \in Threads :
        /\ Fits(p, s, threads[t])
        /\ \A th0 : Follows(th0, h.threads[t]) => Follows(th0, threads[t])
        /\ threads[t].watch # None /\ ~AtEnd(threads[t].watch) =>
             /\ h.threads[t].watch # None /\ ~AtEnd(h.threads[t].watch)
             /\ threads[t].paused = h.threads[t].paused
             /\ threads[t].watch.gen = h.threads[t].watch.gen
             /\ SameNews(threads[t].watch, h.threads[t].watch)
  <2> SUFFICES ASSUME NEW t \in Threads
               PROVE  /\ Fits(p, s, threads[t])
                      /\ \A th0 : Follows(th0, h.threads[t]) => Follows(th0, threads[t])
                      /\ threads[t].watch # None /\ ~AtEnd(threads[t].watch) =>
                           /\ h.threads[t].watch # None /\ ~AtEnd(h.threads[t].watch)
                           /\ threads[t].paused = h.threads[t].paused
                           /\ threads[t].watch.gen = h.threads[t].watch.gen
                           /\ SameNews(threads[t].watch, h.threads[t].watch)
    OBVIOUS
  <2>1. threads[t] = Swept(h, merged, t)
    OBVIOUS
  <2> HIDE DEF threads
  <2> QED BY <2>1, SweptFits
<1>4. \A t \in Threads : threads[t] = Swept(h, merged, t)
  OBVIOUS
<1>5. threads \in [Threads -> ThreadRecords(s)]
  <2>1. \A t \in Threads : threads[t] \in ThreadRecords(s)
    BY <1>3 DEF Fits
  <2> QED BY <2>1
<1> HIDE DEF threads, h2
<1>6. refresh \in SUBSET Threads /\ cache \in Caches(s) \union {None} /\ failures \in Nat
  BY <1>1
<1>7. \A t \in h.refresh \ refresh : AtEnd(h.threads[t].watch)
  BY DEF Undelivered, AtEnd
<1>8. cache # None => cache = h.cache
  OBVIOUS
<1> HIDE DEF refresh, cache, failures
<1>9. h2 \in Hosts(s)
  BY <1>1, <1>2, <1>5, <1>6 DEF Hosts
<1>10. h2.threads = threads /\ h2.cache = cache /\ h2.refresh = refresh
  BY <1>1, <1>2 DEF Hosts
<1>11. HostFits(p, s, h2)
  BY <1>3, <1>9, <1>10 DEF HostFits
<1>12. CacheFits(p, h2, None)
  <2> SUFFICES ASSUME cache # None PROVE CacheFits(p, h2, None)
    BY <1>10 DEF CacheFits
  <2>1. h.cache # None /\ h2.cache = h.cache
    BY <1>8, <1>10
  <2>2. h2.cache.print # None => h2.cache.print.remarks <= Len(p.remarks)
    BY <2>1 DEF CacheFits
  <2>3. ASSUME h2.cache.print # None, h2.cache.complete, NEW t \in Threads, Read(h2, t)
        PROVE  \A i \in Fresh(h2.threads[t].watch, p.remarks) : h2.cache.print.remarks < i
    <3>1. /\ h2.threads[t].watch # None /\ ~AtEnd(h2.threads[t].watch)
          /\ ~h2.threads[t].paused /\ t \notin refresh
          /\ <<t, h2.threads[t].watch.gen>> \in h.cache.watches
      BY <1>10, <2>1, <2>3 DEF Read
    <3>2. /\ h.threads[t].watch # None /\ ~AtEnd(h.threads[t].watch)
          /\ h2.threads[t].paused = h.threads[t].paused
          /\ h2.threads[t].watch.gen = h.threads[t].watch.gen
          /\ SameNews(h2.threads[t].watch, h.threads[t].watch)
      BY <1>3, <1>10, <3>1
    <3>3. Read(h, t)
      BY <1>7, <3>1, <3>2 DEF Read
    <3>4. \A i \in Fresh(h.threads[t].watch, p.remarks) : h.cache.print.remarks < i
      BY <2>1, <2>3, <3>3 DEF CacheFits
    <3>5. Fresh(h2.threads[t].watch, p.remarks) = Fresh(h.threads[t].watch, p.remarks)
      BY <3>2, SameFresh
    <3> QED BY <2>1, <3>4, <3>5
  <2> QED BY <2>2, <2>3 DEF CacheFits
<1>13. \A t \in Threads : \A th0 :
         Follows(th0, h.threads[t]) => Follows(th0, h2.threads[t])
  BY <1>3, <1>10
<1>14. SweepLeaves(p, s, h, h2)
  BY <1>11, <1>12, <1>13 DEF SweepLeaves
<1>15. \A t \in Threads : h2.threads[t] = Swept(h, merged, t)
  BY <1>4, <1>10
<1> QED BY <1>14, <1>15 DEF h2

\* What a host and its pass keep to when a pass begins, or when it is over.
Begun(p, s, h, h2, ps) ==
  /\ SweepLeaves(p, s, h, h2)
  /\ PassFits(s, h2, ps) /\ ReadingFits(p, h2, ps)

Begins(h, h2, ps) ==
  \E merged \in BOOLEAN : h2 = Sweep(h, merged) /\ ps = NewPass(Targets(h, merged))

LEMMA BeginFits ==
  ASSUME NEW p, NEW s, NEW h, HostFits(p, s, h), CacheFits(p, h, None),
         NEW h2, NEW ps, Begins(h, h2, ps)
  PROVE  Begun(p, s, h, h2, ps)
<1>1. PICK merged \in BOOLEAN : h2 = Sweep(h, merged) /\ ps = NewPass(Targets(h, merged))
  BY DEF Begins
<1>2. SweepLeaves(p, s, h, h2) /\ \A t \in Threads : h2.threads[t] = Swept(h, merged, t)
  BY <1>1, SweepFits
<1> DEFINE targets == Targets(h, merged)
           some == [step |-> "asked", targets |-> targets, print |-> None, activity |-> FALSE]
<1>3. \A target \in targets :
        \E t \in Threads : /\ target = <<t, h.threads[t].watch.gen>> /\ ~merged
                           /\ Watching(h, t) /\ ~Undelivered(h, t)
  BY DEF Targets
<1>4. targets \subseteq Threads \X (1..s) /\ targets \subseteq Threads \X Nat
  <2> SUFFICES ASSUME NEW target \in targets
               PROVE  target \in Threads \X (1..s) /\ target \in Threads \X Nat
    OBVIOUS
  <2>1. PICK t \in Threads : target = <<t, h.threads[t].watch.gen>> /\ Watching(h, t)
    BY <1>3
  <2>2. h.threads[t].watch # None /\ Fits(p, s, h.threads[t])
    BY <2>1 DEF Watching, HostFits
  <2>3. h.threads[t].watch.gen \in 1..s /\ h.threads[t].watch.gen \in Nat
    BY <2>2, WatchedHolds DEF WatchFits, Watches
  <2> QED BY <2>1, <2>3
<1>5. \A t \in Threads :
        h2.threads[t].watch # None /\ <<t, h2.threads[t].watch.gen>> \in targets
          => ~AtEnd(h2.threads[t].watch)
  <2> SUFFICES ASSUME NEW t \in Threads, <<t, h2.threads[t].watch.gen>> \in targets
               PROVE  ~AtEnd(h2.threads[t].watch)
    OBVIOUS
  <2>1. Watching(h, t) /\ ~Undelivered(h, t) /\ ~merged
    BY <1>3
  <2>2. h2.threads[t] = h.threads[t]
    BY <1>2, <2>1 DEF Swept
  <2> QED BY <2>1, <2>2 DEF Undelivered, AtEnd
<1>6. ps = IF targets = {} THEN None ELSE some
  BY <1>1 DEF NewPass
<1>7. ps = None \/ (ps \in Passes /\ ps.targets = targets /\ ps.step = "asked")
  <2> HIDE DEF targets
  <2>0. targets \subseteq Threads \X Nat
    BY <1>4
  <2>1. targets \in SUBSET (Threads \X Nat)
    BY <2>0, Zenon
  <2>2. some \in Passes
    BY <2>1 DEF Passes
  <2>3. some.targets = targets /\ some.step = "asked"
    OBVIOUS
  <2> HIDE DEF some
  <2> QED BY <1>6, <2>2, <2>3
<1> HIDE DEF targets, some
<1>8. PassFits(s, h2, ps)
  BY <1>4, <1>5, <1>7 DEF PassFits
<1>9. ReadingFits(p, h2, ps)
  BY <1>7 DEF ReadingFits
<1> QED BY <1>2, <1>8, <1>9 DEF Begun

PassesOver(h, h2, ps) ==
  IF h.again THEN Begins([h EXCEPT !.again = FALSE], h2, ps) ELSE h2 = h /\ ps = None

LEMMA PassOverFits ==
  ASSUME NEW p, NEW s, NEW h, HostFits(p, s, h), CacheFits(p, h, None),
         NEW h2, NEW ps, PassesOver(h, h2, ps)
  PROVE  Begun(p, s, h, h2, ps)
<1>1. CASE h.again
  <2> DEFINE h1 == [h EXCEPT !.again = FALSE]
  <2>1. h \in Hosts(s)
    BY DEF HostFits
  <2>2. h1 \in Hosts(s) /\ h1.threads = h.threads /\ h1.cache = h.cache /\ h1.refresh = h.refresh
    BY <2>1 DEF Hosts
  <2>3. Begins(h1, h2, ps)
    BY <1>1 DEF PassesOver
  <2> HIDE DEF h1
  <2>4. HostFits(p, s, h1) /\ CacheFits(p, h1, None)
    BY <2>2 DEF HostFits, CacheFits, Read
  <2>5. Begun(p, s, h1, h2, ps)
    BY <2>3, <2>4, BeginFits
  <2> QED BY <2>2, <2>5 DEF Begun, SweepLeaves
<1>2. CASE ~h.again
  <2>1. h2 = h /\ ps = None
    BY <1>2 DEF PassesOver
  <2> QED BY <2>1 DEF Begun, SweepLeaves, PassFits, ReadingFits
<1> QED BY <1>1, <1>2

LEMMA CacheFitsAlways ==
  ASSUME NEW p, NEW h, CacheFits(p, h, None), NEW ps
  PROVE  CacheFits(p, h, ps)
BY DEF CacheFits

LEMMA CacheFitsAsked ==
  ASSUME NEW p, NEW h, NEW ps, ps = None \/ ps.step = "asked", CacheFits(p, h, ps)
  PROVE  CacheFits(p, h, None)
BY DEF CacheFits

-------------------------------------------------------------------------------
(* The steps of a pass *)

LEMMA FingerprintIs ==
  ASSUME NEW p, NEW b, PrFits(p, b)
  PROVE  Fingerprint(p) \in Fingerprints /\ Fingerprint(p).remarks = Len(p.remarks)
<1> DEFINE counted == [x \in {"pending", "failed", "passed"} |->
                        Cardinality({c \in Checks : p.checks[c] = x})]
           remarks == Len(p.remarks)
<1>1. /\ p.state \in {"open", "closed", "merged"} /\ p.head \in Nat /\ p.remarks \in Seq(Nat)
  BY DEF PrFits, PullRequests
<1>2. remarks \in Nat
  BY <1>1, SequenceElements
<1>3. \A x \in {"pending", "failed", "passed"} :
        Cardinality({c \in Checks : p.checks[c] = x}) \in Nat
  <2> SUFFICES ASSUME NEW x \in {"pending", "failed", "passed"}
               PROVE  Cardinality({c \in Checks : p.checks[c] = x}) \in Nat
    OBVIOUS
  <2> DEFINE S == {c \in Checks : p.checks[c] = x}
  <2>1. S \in SUBSET Checks /\ IsFiniteSet(Checks)
    BY ChecksAssumption
  <2> HIDE DEF S
  <2>2. IsFiniteSet(S)
    BY <2>1, FS_Subset
  <2>3. Cardinality(S) \in Nat
    BY <2>2, FS_CardinalityType
  <2> QED BY <2>3 DEF S
<1>4. counted \in [{"pending", "failed", "passed"} -> Nat]
  BY <1>3
<1>5. Fingerprint(p) = [status |-> <<p.state, p.head, counted>>, remarks |-> remarks]
  BY Zenon DEF Fingerprint
<1> HIDE DEF counted, remarks
<1>6. <<p.state, p.head, counted>>
        \in {"open", "closed", "merged"} \X Nat \X [{"pending", "failed", "passed"} -> Nat]
  BY <1>1, <1>4
<1>7. [status |-> <<p.state, p.head, counted>>, remarks |-> remarks] \in Fingerprints
  <2> DEFINE status == <<p.state, p.head, counted>>
             S == {"open", "closed", "merged"} \X Nat \X [{"pending", "failed", "passed"} -> Nat]
  <2>1. status \in S
    BY <1>6
  <2>2. Fingerprints = [status : S, remarks : Nat]
    BY Zenon DEF Fingerprints
  <2> HIDE DEF status, S
  <2>3. [status |-> status, remarks |-> remarks] \in [status : S, remarks : Nat]
    BY <1>2, <2>1
  <2> QED BY <2>2, <2>3 DEF status
<1>8. Fingerprint(p).remarks = remarks
  BY <1>5
<1> QED BY <1>5, <1>7, <1>8 DEF remarks

\* What a step of a pass keeps.
PassKeeps ==
  /\ HostFits(pr, starts, host') /\ PassFits(starts, host', pass')
  /\ CacheFits(pr, host', pass') /\ ReadingFits(pr, host', pass')
  /\ \A t \in Threads : Follows(host.threads[t], host'.threads[t])

LEMMA FollowsNothing ==
  ASSUME NEW p, NEW s, NEW h, HostFits(p, s, h), NEW t \in Threads
  PROVE  Follows(h.threads[t], h.threads[t])
<1>1. h.threads[t] \in ThreadRecords(s)
  BY DEF HostFits, Fits
<1> QED BY <1>1, KeepsNothing, KeepsFollows

LEMMA BegunKeeps ==
  ASSUME NEW h, Begun(pr, starts, h, host', pass'),
         \A t \in Threads : Follows(host.threads[t], h.threads[t])
  PROVE  PassKeeps
<1>1. SweepLeaves(pr, starts, h, host')
  BY DEF Begun
<1>2. HostFits(pr, starts, host') /\ CacheFits(pr, host', None)
  BY <1>1 DEF SweepLeaves
<1>3. CacheFits(pr, host', pass')
  BY <1>2, CacheFitsAlways
<1>4. \A t \in Threads : Follows(host.threads[t], host'.threads[t])
  BY <1>1 DEF SweepLeaves
<1> QED BY <1>2, <1>3, <1>4 DEF PassKeeps, Begun

LEMMA PassIsOver ==
  ASSUME NEW h, PassOver(h)
  PROVE  PassesOver(h, host', pass')
<1>1. (pr.state = "merged") \in BOOLEAN
  OBVIOUS
<1> QED BY <1>1 DEF PassOver, PassesOver, Begin, Begins

LEMMA PassBegins ==
  ASSUME NEW h, Begin(h)
  PROVE  Begins(h, host', pass')
<1>1. (pr.state = "merged") \in BOOLEAN
  OBVIOUS
<1> QED BY <1>1 DEF Begin, Begins

LEMMA SweepStartsKeeps == IInv /\ SweepStarts => PassKeeps
<1> SUFFICES ASSUME IInv, SweepStarts PROVE PassKeeps
  OBVIOUS
<1>1. Begins(host, host', pass')
  BY PassBegins DEF SweepStarts
<1>2. HostFits(pr, starts, host) /\ CacheFits(pr, host, None)
  BY CacheFitsAsked DEF IInv, SweepStarts
<1>3. Begun(pr, starts, host, host', pass')
  BY <1>1, <1>2, BeginFits
<1> QED BY <1>2, <1>3, FollowsNothing, BegunKeeps

LEMMA ForgeSaysWaitKeeps == IInv /\ ForgeSaysWait => PassKeeps
<1> SUFFICES ASSUME IInv, ForgeSaysWait PROVE PassKeeps
  OBVIOUS
<1>1. PassesOver(host, host', pass')
  BY PassIsOver DEF ForgeSaysWait
<1>2. HostFits(pr, starts, host) /\ CacheFits(pr, host, None)
  BY CacheFitsAsked DEF IInv, ForgeSaysWait
<1>3. Begun(pr, starts, host, host', pass')
  BY <1>1, <1>2, PassOverFits
<1> QED BY <1>2, <1>3, FollowsNothing, BegunKeeps

LEMMA ReadFailsKeeps == IInv /\ ReadFails => PassKeeps
<1> SUFFICES ASSUME IInv, ReadFails PROVE PassKeeps
  OBVIOUS
<1>1. PICK limited \in BOOLEAN : PassOver(Unread(limited))
  BY DEF ReadFails
<1>2. PassesOver(Unread(limited), host', pass')
  BY <1>1, PassIsOver
<1>3. After(pr, starts, host, Unread(limited)) /\ Unread(limited).cache = None
  BY UnreadFits DEF IInv, ReadFails
<1>4. HostFits(pr, starts, Unread(limited)) /\ CacheFits(pr, Unread(limited), None)
  BY <1>3 DEF After, CacheFits
<1>5. Begun(pr, starts, Unread(limited), host', pass')
  BY <1>2, <1>4, PassOverFits
<1> QED BY <1>3, <1>5, BegunKeeps DEF After

LEMMA ReadOverKeeps == IInv /\ ReadOver => PassKeeps
<1> SUFFICES ASSUME IInv, ReadOver PROVE PassKeeps
  OBVIOUS
<1>1. PassesOver(Over, host', pass')
  BY PassIsOver DEF ReadOver
<1>2. After(pr, starts, host, Over) /\ Over.cache = None
  BY OverFits DEF IInv, ReadOver
<1>3. HostFits(pr, starts, Over) /\ CacheFits(pr, Over, None)
  BY <1>2 DEF After, CacheFits
<1>4. Begun(pr, starts, Over, host', pass')
  BY <1>1, <1>3, PassOverFits
<1> QED BY <1>2, <1>4, BegunKeeps DEF After

LEMMA ReadOpenKeeps ==
  ASSUME IInv, NEW shown \in {Checks, {}}, NEW complete \in BOOLEAN, ReadOpen(shown, complete)
  PROVE  PassKeeps
<1> DEFINE h == Open(Reading(shown, complete))
<1>1. PassesOver(h, host', pass')
  BY PassIsOver DEF ReadOpen
<1>2. After(pr, starts, host, h) /\ CacheFits(pr, h, None)
  BY OpenFits DEF IInv, ReadOpen
<1> HIDE DEF h
<1>3. HostFits(pr, starts, h)
  BY <1>2 DEF After
<1>4. Begun(pr, starts, h, host', pass')
  BY <1>1, <1>2, <1>3, PassOverFits
<1> QED BY <1>2, <1>4, BegunKeeps DEF After

\* A plan that reads nothing, or no remarks, relies on the last read.
LEMMA LastReadIs ==
  ASSUME LastRead # None
  PROVE  /\ host.cache # None /\ LastRead = host.cache
         /\ pass.targets \subseteq host.cache.watches
         /\ \A target \in pass.targets : target[1] \notin host.refresh
BY DEF LastRead

Planned ==
  [host EXCEPT !.refresh = {t \in @ : \A target \in pass.targets : target[1] # t}]

LEMMA PlannedIs ==
  ASSUME NEW p, NEW s, HostFits(p, s, host)
  PROVE  /\ HostFits(p, s, Planned)
         /\ Planned.threads = host.threads /\ Planned.cache = host.cache
         /\ LastRead # None => Planned.refresh = host.refresh
<1> DEFINE refresh == {t \in host.refresh : \A target \in pass.targets : target[1] # t}
<1>1. host \in Hosts(s) /\ host.refresh \in SUBSET Threads
  BY HostIs DEF HostFits
<1>2. refresh \in SUBSET Threads
  BY <1>1
<1>3. LastRead # None => refresh = host.refresh
  BY LastReadIs
<1>4. Planned = [host EXCEPT !.refresh = refresh]
  BY DEF Planned
<1> HIDE DEF refresh
<1>5. /\ Planned \in Hosts(s) /\ Planned.refresh = refresh
      /\ Planned.threads = host.threads /\ Planned.cache = host.cache
  BY <1>1, <1>2, <1>4 DEF Hosts
<1> QED BY <1>3, <1>5 DEF HostFits

\* The same cache, watches and marks.
LEMMA SameCacheFits ==
  ASSUME NEW p, NEW h, NEW h2, NEW ps, CacheFits(p, h, ps),
         h2.threads = h.threads, h2.cache = h.cache, h2.refresh = h.refresh
  PROVE  CacheFits(p, h2, ps)
BY DEF CacheFits, Read

LEMMA PlanKeeps ==
  ASSUME IInv, NEW print \in Prints, NEW late \in BOOLEAN, Plan(print, late)
  PROVE  PassKeeps
<1>1. /\ PrFits(pr, changes) /\ HostFits(pr, starts, host) /\ PassFits(starts, host, pass)
      /\ CacheFits(pr, host, pass) /\ pass # None /\ pass.step = "asked"
  BY DEF IInv, Plan
<1>2. /\ HostFits(pr, starts, Planned)
      /\ Planned.threads = host.threads /\ Planned.cache = host.cache
      /\ LastRead # None => Planned.refresh = host.refresh
  BY <1>1, PlannedIs
<1>3. CacheFits(pr, host, None)
  BY <1>1, CacheFitsAsked
<1>4. \A t \in Threads : Follows(host.threads[t], Planned.threads[t])
  BY <1>1, <1>2, FollowsNothing
<1>5. print \in Fingerprints \union {None} /\ (print # None => print.remarks = Len(pr.remarks))
  BY <1>1, FingerprintIs DEF Prints
<1>6. Len(pr.remarks) \in Nat
  BY <1>1, SequenceElements DEF PrFits, PullRequests
<1>7. CASE NeedsDetail(print, LastRead, late)
  <2> DEFINE activity == NeedsActivity(print, LastRead, late)
             ps == [pass EXCEPT !.step = "reading", !.print = print, !.activity = activity]
  <2>1. host' = Planned /\ pass' = ps
    BY <1>7 DEF Plan, Planned
  <2>2. activity \in BOOLEAN
    BY DEF NeedsActivity
  <2>3. ~activity => /\ LastRead # None
                     /\ print # None => LastRead.print # None
                                        /\ LastRead.print.remarks = print.remarks
    BY DEF NeedsActivity
  <2> HIDE DEF activity
  <2>4. pass \in Passes /\ pass.targets \subseteq Threads \X (1..starts)
    BY <1>1 DEF PassFits
  <2>5. /\ ps \in Passes /\ ps.step = "reading" /\ ps.targets = pass.targets
        /\ ps.print = print /\ ps.activity = activity
    BY <1>5, <2>2, <2>4 DEF Passes
  <2>6. ps # None
    BY <2>5, NotNone
  <2> HIDE DEF ps
  <2>7. PassFits(starts, Planned, ps)
    BY <1>1, <1>2, <2>5 DEF PassFits
  <2>8. CacheFits(pr, Planned, ps)
    <3>1. CASE activity
      <4>1. Planned.cache # None /\ Planned.cache.print # None =>
              Planned.cache.print.remarks <= Len(pr.remarks)
        BY <1>2, <1>3 DEF CacheFits
      <4> QED BY <2>5, <2>6, <3>1, <4>1 DEF CacheFits
    <3>2. CASE ~activity
      <4>1. CacheFits(pr, Planned, None)
        BY <1>2, <1>3, <2>3, <3>2, SameCacheFits
      <4> QED BY <4>1, CacheFitsAlways
    <3> QED BY <3>1, <3>2
  <2>9. ReadingFits(pr, Planned, ps)
    <3>1. ps.print # None => ps.print.remarks <= Len(pr.remarks)
      BY <1>5, <1>6, <2>5
    <3>2. ASSUME ~activity
          PROVE  /\ host.cache # None /\ ps.targets \subseteq host.cache.watches
                 /\ ps.print # None =>
                      host.cache.print # None /\ host.cache.print.remarks = ps.print.remarks
      <4>1. LastRead = host.cache /\ host.cache # None /\ pass.targets \subseteq host.cache.watches
        BY <2>3, <3>2, LastReadIs
      <4> QED BY <2>3, <2>5, <3>2, <4>1
    <3> QED BY <1>2, <2>5, <3>1, <3>2 DEF ReadingFits
  <2> QED BY <1>2, <1>4, <2>1, <2>7, <2>8, <2>9 DEF PassKeeps
<1>8. CASE ~NeedsDetail(print, LastRead, late)
  <2>1. LastRead # None
    BY <1>8 DEF NeedsDetail, NeedsActivity
  <2>2. CacheFits(pr, Planned, None)
    BY <1>2, <1>3, <2>1, SameCacheFits
  <2>3. PassOver(Planned)
    BY <1>8 DEF Plan, Planned
  <2>4. PassesOver(Planned, host', pass')
    BY <2>3, PassIsOver
  <2>5. Begun(pr, starts, Planned, host', pass')
    BY <1>2, <2>2, <2>4, PassOverFits
  <2> QED BY <1>4, <2>5, BegunKeeps
<1> QED BY <1>7, <1>8

LEMMA PassStep == IInv /\ Pass => PassKeeps /\ PassOnly
<1> SUFFICES ASSUME IInv, Pass PROVE PassKeeps /\ PassOnly
  OBVIOUS
<1>1. CASE SweepStarts
  BY <1>1, SweepStartsKeeps DEF SweepStarts
<1>2. CASE ForgeSaysWait
  BY <1>2, ForgeSaysWaitKeeps DEF ForgeSaysWait
<1>3. CASE ReadFails
  BY <1>3, ReadFailsKeeps DEF ReadFails
<1>4. CASE ReadOver
  BY <1>4, ReadOverKeeps DEF ReadOver
<1>5. ASSUME NEW print \in Prints, NEW late \in BOOLEAN, Plan(print, late)
      PROVE  PassKeeps /\ PassOnly
  <2>1. PassKeeps
    BY <1>5, PlanKeeps
  <2> QED BY <1>5, <2>1 DEF Plan
<1>6. ASSUME NEW shown \in {Checks, {}}, NEW complete \in BOOLEAN, ReadOpen(shown, complete)
      PROVE  PassKeeps /\ PassOnly
  <2>1. PassKeeps
    BY <1>6, ReadOpenKeeps
  <2> QED BY <1>6, <2>1 DEF ReadOpen
<1> QED BY <1>1, <1>2, <1>3, <1>4, <1>5, <1>6 DEF Pass

-------------------------------------------------------------------------------
(* The pull request changes *)

\* What of a pull request a change leaves: a run that goes on has failed or passed for good,
\* and a remark is behind all that were made before.
Moves(p, p2) ==
  /\ p.head <= p2.head /\ p.clock <= p2.clock /\ Len(p.remarks) <= Len(p2.remarks)
  /\ \A i \in DOMAIN p.remarks : i \in DOMAIN p2.remarks /\ p2.remarks[i] = p.remarks[i]
  /\ \A i \in DOMAIN p2.remarks \ DOMAIN p.remarks :
       Len(p.remarks) < i /\ 2 * p.clock <= p2.remarks[i]
  /\ \A c \in Checks :
       /\ p2.runs[c] = p.runs[c] =>
            p2.head = p.head /\ (p.checks[c] # "pending" => p2.checks[c] = p.checks[c])
       /\ p2.runs[c] # p.runs[c] => \A d \in Checks : p.runs[d] < p2.runs[c]

LEMMA PrIs ==
  ASSUME NEW p, NEW b, PrFits(p, b)
  PROVE  /\ p.head \in Nat /\ p.clock \in Nat /\ p.remarks \in Seq(Nat)
         /\ Len(p.remarks) \in Nat /\ DOMAIN p.remarks = 1..Len(p.remarks)
         /\ \A i \in DOMAIN p.remarks : p.remarks[i] \in Nat
         /\ \A c \in Checks : p.runs[c] \in Nat
                              /\ p.checks[c] \in {"pending", "failed", "passed"}
<1>1. /\ p.head \in Nat /\ p.clock \in Nat /\ p.remarks \in Seq(Nat)
      /\ p.runs \in [Checks -> Nat] /\ p.checks \in [Checks -> {"pending", "failed", "passed"}]
  BY DEF PrFits, PullRequests
<1>2. /\ Len(p.remarks) \in Nat /\ DOMAIN p.remarks = 1..Len(p.remarks)
      /\ \A i \in DOMAIN p.remarks : p.remarks[i] \in Nat
  BY <1>1, SequenceElements
<1> QED BY <1>1, <1>2

\* A watch outlives a change: what it took it still takes, and it knows no more.
Outlives(p, p2, s, w) ==
  /\ WatchFits(p2, s, w)
  /\ \A item \in News : Takes(p, w, item) => Takes(p2, w, item)
  /\ \A item \in KnownOf(p2, w) : item \in KnownOf(p, w)
  /\ \A i \in Fresh(w, p2.remarks) : i \in Fresh(w, p.remarks) \/ Len(p.remarks) < i

LEMMA WatchOutlives ==
  ASSUME NEW p, NEW b, PrFits(p, b), NEW p2, NEW b2, PrFits(p2, b2), Moves(p, p2),
         NEW s, NEW w, WatchFits(p, s, w)
  PROVE  Outlives(p, p2, s, w)
<1>1. /\ p.head \in Nat /\ p.clock \in Nat /\ Len(p.remarks) \in Nat
      /\ DOMAIN p.remarks = 1..Len(p.remarks)
      /\ \A i \in DOMAIN p.remarks : p.remarks[i] \in Nat
      /\ \A c \in Checks : p.runs[c] \in Nat /\ p.checks[c] \in {"pending", "failed", "passed"}
  BY PrIs
<1>2. /\ p2.head \in Nat /\ p2.clock \in Nat
      /\ \A i \in DOMAIN p2.remarks : p2.remarks[i] \in Nat
      /\ \A c \in Checks : p2.runs[c] \in Nat
  BY PrIs
<1>3. /\ w \in Watches /\ w.from \in Nat /\ w.through \in Nat /\ w.ids \subseteq DOMAIN p.remarks
      /\ w.head \in 0..p.head \union {None}
      /\ w.through = w.from \/ w.through <= 2 * p.clock
  BY DEF WatchFits, Watches
<1>4. /\ p.head <= p2.head /\ p.clock <= p2.clock
      /\ \A i \in DOMAIN p.remarks : i \in DOMAIN p2.remarks /\ p2.remarks[i] = p.remarks[i]
      /\ \A i \in DOMAIN p2.remarks : i \notin DOMAIN p.remarks =>
           Len(p.remarks) < i /\ 2 * p.clock <= p2.remarks[i]
  BY DEF Moves
<1>5. WatchFits(p2, s, w)
  <2>1. w.head \in 0..p2.head \union {None}
    BY <1>1, <1>2, <1>3, <1>4
  <2>2. w.ids \subseteq DOMAIN p2.remarks
    BY <1>3, <1>4
  <2>3. w.through = w.from \/ w.through <= 2 * p2.clock
    BY <1>1, <1>2, <1>3, <1>4
  <2> QED BY <2>1, <2>2, <2>3 DEF WatchFits
<1>6. \A i \in DOMAIN p.remarks : i \in Fresh(w, p2.remarks) <=> i \in Fresh(w, p.remarks)
  BY <1>4 DEF Fresh
<1>7. \A i \in Fresh(w, p2.remarks) : i \in Fresh(w, p.remarks) \/ Len(p.remarks) < i
  <2> SUFFICES ASSUME NEW i \in Fresh(w, p2.remarks)
               PROVE  i \in Fresh(w, p.remarks) \/ Len(p.remarks) < i
    OBVIOUS
  <2>1. i \in DOMAIN p2.remarks
    BY DEF Fresh
  <2> QED BY <1>4, <1>6, <2>1
<1>8. \A item \in KnownOf(p2, w) : item \in KnownOf(p, w)
  <2> SUFFICES ASSUME NEW j \in DOMAIN p2.remarks, w.from < p2.remarks[j],
                      p2.remarks[j] < w.through \/ (p2.remarks[j] = w.through /\ j \in w.ids)
               PROVE  Item("remark", j, p2.remarks[j], w.gen) \in KnownOf(p, w)
    BY DEF KnownOf
  <2>1. j \in DOMAIN p.remarks
    <3> SUFFICES ASSUME j \notin DOMAIN p.remarks PROVE FALSE
      OBVIOUS
    <3>1. 2 * p.clock <= p2.remarks[j] /\ p2.remarks[j] \in Nat
      BY <1>2, <1>4
    <3>2. p2.remarks[j] < w.through
      BY <1>3
    <3> QED BY <1>1, <1>3, <3>1, <3>2
  <2>2. p2.remarks[j] = p.remarks[j]
    BY <1>4, <2>1
  <2> QED BY <2>1, <2>2 DEF KnownOf
<1>9. ASSUME NEW item \in News, Takes(p, w, item) PROVE Takes(p2, w, item)
  <2>0. item.n \in Nat
    BY DEF News
  <2>1. ASSUME item.what = "remark" PROVE TakesRemark(p2, w, item)
    <3>1. TakesRemark(p, w, item)
      BY <1>9, <2>1 DEF Takes
    <3> QED BY <1>4, <1>6, <3>1 DEF TakesRemark
  <2>2. ASSUME item.what = "failed" PROVE TakesFailure(p2, w, item)
    <3> DEFINE c == item.of
    <3>1. /\ c \in Checks /\ item.n <= p.runs[c]
          /\ item.n = p.runs[c] => w.head = p.head /\ p.checks[c] = "failed" /\ c \in w.failed
      BY <1>9, <2>2 DEF Takes, TakesFailure
    <3> HIDE DEF c
    <3>2. CASE p2.runs[c] = p.runs[c]
      <4>1. p2.head = p.head /\ (p.checks[c] # "pending" => p2.checks[c] = p.checks[c])
        BY <3>1, <3>2 DEF Moves
      <4> QED BY <3>1, <3>2, <4>1 DEF TakesFailure, c
    <3>3. CASE p2.runs[c] # p.runs[c]
      <4>1. p.runs[c] < p2.runs[c]
        BY <3>1, <3>3 DEF Moves
      <4>2. item.n < p2.runs[c]
        BY <1>1, <1>2, <2>0, <3>1, <4>1
      <4>3. item.n <= p2.runs[c] /\ item.n # p2.runs[c]
        BY <1>2, <2>0, <3>1, <4>2
      <4> QED BY <3>1, <4>3 DEF TakesFailure, c
    <3> QED BY <3>2, <3>3
  <2>3. ASSUME item.what = "passed" PROVE TakesPass(p2, w, item)
    <3>1. TakesPass(p, w, item)
      BY <1>9, <2>3 DEF Takes
    <3> DEFINE n == item.n
    <3>2. Gate \subseteq Checks
      BY ChecksAssumption DEF Gate
    <3>3. PICK c \in Gate : n <= p.runs[c]
      BY <3>1 DEF TakesPass
    <3>4. \A d \in Gate : p.runs[d] <= p2.runs[d]
      BY <1>1, <1>2, <3>2 DEF Moves
    <3>5. n <= p2.runs[c]
      BY <1>1, <1>2, <2>0, <3>2, <3>3, <3>4
    <3>6. CASE \E d \in Gate : p2.runs[d] # p.runs[d]
      <4>1. PICK d \in Gate : p2.runs[d] # p.runs[d]
        BY <3>6
      <4>2. p.runs[c] < p2.runs[d]
        BY <3>2, <3>3, <4>1 DEF Moves
      <4>3. n < p2.runs[d]
        BY <1>1, <1>2, <2>0, <3>2, <3>3, <4>1, <4>2
      <4> QED BY <3>5, <4>3 DEF TakesPass
    <3>7. CASE \A d \in Gate : p2.runs[d] = p.runs[d]
      <4>1. CASE \E d \in Gate : n < p.runs[d]
        BY <3>5, <3>7, <4>1 DEF TakesPass
      <4>2. CASE ~\E d \in Gate : n < p.runs[d]
        <5>1. /\ w.head = p.head /\ w.passed /\ w.passedChecks = Gate
              /\ \A d \in Gate : p.checks[d] = "passed"
          BY <3>1, <4>2 DEF TakesPass
        <5>2. p2.head = p.head
          BY <3>2, <3>3, <3>7 DEF Moves
        <5>3. \A d \in Gate : p2.checks[d] = "passed"
          BY <3>2, <3>7, <5>1 DEF Moves
        <5> QED BY <3>5, <5>1, <5>2, <5>3 DEF TakesPass
      <4> QED BY <4>1, <4>2
    <3> QED BY <3>6, <3>7
  <2> QED BY <1>9, <2>1, <2>2, <2>3 DEF Takes
<1> QED BY <1>5, <1>7, <1>8, <1>9 DEF Outlives

\* Where more watches were started, more is news.
Wider(s, s2) ==
  /\ NewsTo(s) \subseteq NewsTo(s2) /\ WakesTo(s) \subseteq WakesTo(s2)
  /\ ThreadRecords(s) \subseteq ThreadRecords(s2) /\ Hosts(s) \subseteq Hosts(s2)
  /\ 1..s \subseteq 1..s2

LEMMA WiderIs ==
  ASSUME NEW s \in Nat, NEW s2 \in Nat, s <= s2
  PROVE  Wider(s, s2)
<1>1. 1..s \subseteq 1..s2
  BY SMT
<1>2. NewsTo(s) \subseteq NewsTo(s2)
  BY <1>1 DEF NewsTo
<1>3. (SUBSET NewsTo(s)) \ {{}} \subseteq (SUBSET NewsTo(s2)) \ {{}}
  BY <1>2
<1>4. Texts(s) \subseteq Texts(s2)
  BY <1>3, WiderSequences DEF Texts
<1>5. WakesTo(s) \subseteq WakesTo(s2)
  BY <1>4 DEF WakesTo
<1>6. Messages(s) \subseteq Messages(s2)
  BY <1>4 DEF Messages
<1>7. Seq(Messages(s)) \subseteq Seq(Messages(s2))
  BY <1>6, WiderSequences
<1>8. ThreadRecords(s) \subseteq ThreadRecords(s2)
  BY <1>2, <1>7 DEF ThreadRecords
<1>9. Caches(s) \subseteq Caches(s2)
  <2>1. SUBSET (Threads \X (1..s)) \subseteq SUBSET (Threads \X (1..s2))
    BY <1>1
  <2> QED BY <2>1 DEF Caches
<1>10. Hosts(s) \subseteq Hosts(s2)
  <2>1. [Threads -> ThreadRecords(s)] \subseteq [Threads -> ThreadRecords(s2)]
    BY <1>8
  <2> QED BY <1>9, <2>1 DEF Hosts
<1> QED BY <1>1, <1>2, <1>5, <1>8, <1>10 DEF Wider

LEMMA HoldsNews ==
  ASSUME NEW p, NEW s, NEW th, Fits(p, s, th)
  PROVE  Holds(th) \subseteq NewsTo(s) /\ ToldTo(th) \subseteq NewsTo(s)
<1>1. /\ th \in ThreadRecords(s)
      /\ th.given.since \subseteq NewsTo(s) /\ th.given.ever \subseteq NewsTo(s)
  BY DEF Fits, ThreadRecords
<1>2. QueueText(th) \subseteq NewsTo(s)
  <2> SUFFICES ASSUME NEW i \in DOMAIN th.queue PROVE Said(th.queue[i].text) \subseteq NewsTo(s)
    BY DEF QueueText, Texted
  <2>1. th.queue[i].text \in Texts(s)
    BY <1>1, QueuedMessage
  <2> QED BY <2>1, TextSaid
<1>3. HeldOf(th) \subseteq NewsTo(s)
  <2>1. CASE th.watch # None /\ th.watch.pending # None
    <3>1. /\ Said(th.watch.pending.text) \subseteq NewsTo(s)
          /\ Waiting(th.watch) = Said(th.watch.pending.text)
      BY <2>1, PendingText
    <3> QED BY <2>1, <3>1 DEF HeldOf
  <2>2. CASE ~(th.watch # None /\ th.watch.pending # None)
    BY <2>2 DEF HeldOf, Waiting
  <2> QED BY <2>1, <2>2
<1> QED BY <1>1, <1>2, <1>3 DEF Holds, ToldTo

LEMMA OutlivesKnowing ==
  ASSUME NEW p, NEW p2, NEW s, NEW w, Outlives(p, p2, s, w), NEW told
  PROVE  /\ Knowing(p, w, told) /\ told \subseteq News => Knowing(p2, w, told)
         /\ ToldFits(p, w, told) => ToldFits(p2, w, told)
BY DEF Outlives, Knowing, ToldFits

LEMMA FitsOutlives ==
  ASSUME NEW p, NEW p2, NEW s, NEW s2, Wider(s, s2), NEW th, Fits(p, s, th),
         th.watch # None => Outlives(p, p2, s2, th.watch)
  PROVE  Fits(p2, s2, th)
<1>1. th \in ThreadRecords(s2)
  BY DEF Fits, Wider
<1>2. ASSUME th.watch # None PROVE Watched(p2, s2, th)
  <2>1. Watched(p, s, th) /\ Outlives(p, p2, s2, th.watch)
    BY <1>2 DEF Fits
  <2>2. /\ Holds(th) = th.given.since \union QueueText(th) \union Waiting(th.watch)
        /\ Holds(th) \subseteq News
    BY <1>2, HoldsNews DEF Holds, HeldOf, NewsTo
  <2> DEFINE held == th.given.since \union QueueText(th) \union Waiting(th.watch)
             told == th.given.ever \union Waiting(th.watch)
  <2>3. held \subseteq News
    BY <2>2
  <2>4. Knowing(p, th.watch, held) /\ ToldFits(p, th.watch, told)
    BY <2>1 DEF Watched
  <2> HIDE DEF held, told
  <2>5. Knowing(p2, th.watch, held) /\ ToldFits(p2, th.watch, told)
    BY <2>1, <2>3, <2>4, OutlivesKnowing
  <2> QED BY <2>1, <2>5 DEF Watched, Outlives, held, told
<1> QED BY <1>1, <1>2 DEF Fits

LEMMA SavedOutlives ==
  ASSUME NEW p, NEW p2, NEW s, NEW s2, NEW saved, NEW ever, SavedFits(p, s, saved, ever),
         saved.watch # None => Outlives(p, p2, s2, saved.watch)
  PROVE  SavedFits(p2, s2, saved, ever)
<1>1. ASSUME saved.watch # None
      PROVE  /\ WatchFits(p2, s2, saved.watch)
             /\ Knowing(p2, saved.watch, Waiting(saved.watch))
             /\ ToldFits(p2, saved.watch, ever \union Waiting(saved.watch))
  <2>1. /\ WatchFits(p, s, saved.watch) /\ Outlives(p, p2, s2, saved.watch)
        /\ Knowing(p, saved.watch, Waiting(saved.watch))
        /\ ToldFits(p, saved.watch, ever \union Waiting(saved.watch))
    BY <1>1 DEF SavedFits
  <2>2. Waiting(saved.watch) \subseteq News
    <3>1. CASE saved.watch.pending # None
      <4>1. saved.watch.pending.text \in Texts(s)
        BY <2>1, <3>1 DEF WatchFits, WakesTo
      <4>2. Said(saved.watch.pending.text) \subseteq NewsTo(s)
        BY <4>1, TextSaid
      <4> QED BY <3>1, <4>2, WaitingIs DEF NewsTo
    <3>2. CASE saved.watch.pending = None
      BY <3>2 DEF Waiting
    <3> QED BY <3>1, <3>2
  <2> QED BY <2>1, <2>2, OutlivesKnowing DEF Outlives
<1> QED BY <1>1 DEF SavedFits

\* A host outlives a change.
LEMMA HostOutlives ==
  ASSUME NEW p, NEW b, PrFits(p, b), NEW p2, NEW b2, PrFits(p2, b2), Moves(p, p2),
         NEW s \in Nat, NEW h, HostFits(p, s, h), NEW ps, PassFits(s, h, ps),
         CacheFits(p, h, ps), ReadingFits(p, h, ps)
  PROVE  HostFits(p2, s, h) /\ CacheFits(p2, h, ps) /\ ReadingFits(p2, h, ps)
<1>1. \A t \in Threads :
        Fits(p, s, h.threads[t])
        /\ (h.threads[t].watch # None => Outlives(p, p2, s, h.threads[t].watch))
  <2> SUFFICES ASSUME NEW t \in Threads
               PROVE  /\ Fits(p, s, h.threads[t])
                      /\ h.threads[t].watch # None => Outlives(p, p2, s, h.threads[t].watch)
    OBVIOUS
  <2>1. Fits(p, s, h.threads[t])
    BY DEF HostFits
  <2>2. ASSUME h.threads[t].watch # None PROVE Outlives(p, p2, s, h.threads[t].watch)
    <3>1. WatchFits(p, s, h.threads[t].watch)
      BY <2>1, <2>2, WatchedHolds
    <3> QED BY <3>1, WatchOutlives
  <2> QED BY <2>1, <2>2
<1>2. Wider(s, s)
  BY DEF Wider
<1>3. HostFits(p2, s, h)
  BY <1>1, <1>2, FitsOutlives DEF HostFits
<1>4. /\ Len(p.remarks) \in Nat /\ Len(p2.remarks) \in Nat /\ Len(p.remarks) <= Len(p2.remarks)
      /\ \A i \in DOMAIN p2.remarks : i \in Nat
  BY PrIs DEF Moves
<1>5. h \in Hosts(s)
  BY DEF HostFits
<1>6. \A print \in Fingerprints : print.remarks \in Nat
  BY DEF Fingerprints
<1>7. CacheFits(p2, h, ps)
  <2> SUFFICES ASSUME h.cache # None PROVE CacheFits(p2, h, ps)
    BY DEF CacheFits
  <2>1. h.cache.print # None => h.cache.print.remarks \in Nat
    BY <1>5, <1>6, CacheIs
  <2>2. h.cache.print # None => h.cache.print.remarks <= Len(p.remarks)
    BY DEF CacheFits
  <2>3. h.cache.print # None => h.cache.print.remarks <= Len(p2.remarks)
    BY <1>4, <2>1, <2>2
  <2>4. ASSUME h.cache.print # None, h.cache.complete,
               ps = None \/ ps.step = "asked" \/ ~ps.activity,
               NEW t \in Threads, Read(h, t), NEW i \in Fresh(h.threads[t].watch, p2.remarks)
        PROVE  h.cache.print.remarks < i
    <3>1. h.threads[t].watch # None
      BY <2>4 DEF Read
    <3>2. i \in Fresh(h.threads[t].watch, p.remarks) \/ Len(p.remarks) < i
      BY <1>1, <2>4, <3>1 DEF Outlives
    <3>3. CASE i \in Fresh(h.threads[t].watch, p.remarks)
      BY <2>4, <3>3 DEF CacheFits
    <3>4. CASE Len(p.remarks) < i
      <4>1. i \in Nat
        BY <1>4, <2>4 DEF Fresh
      <4> QED BY <1>4, <2>1, <2>2, <2>4, <3>4, <4>1
    <3> QED BY <3>2, <3>3, <3>4
  <2> QED BY <2>3, <2>4 DEF CacheFits
<1>8. ReadingFits(p2, h, ps)
  <2>1. ASSUME ps # None, ps.step = "reading", ps.print # None
        PROVE  ps.print.remarks <= Len(p2.remarks)
    <3>1. ps.print.remarks <= Len(p.remarks)
      BY <2>1 DEF ReadingFits
    <3>2. ps.print.remarks \in Nat
      <4>1. ps \in Passes
        BY <2>1 DEF PassFits
      <4>2. ps.print \in Fingerprints
        BY <2>1, <4>1 DEF Passes
      <4> QED BY <1>6, <4>2
    <3> QED BY <1>4, <3>1, <3>2
  <2> QED BY <2>1 DEF ReadingFits
<1> QED BY <1>3, <1>7, <1>8

\* What a change of the pull request keeps.
Moved == PrFits(pr', changes') /\ Moves(pr, pr') /\ changes' \in 0..MaxChanges

LEMMA ChangeCounts ==
  ASSUME IInv, Change
  PROVE  /\ changes' \in 0..MaxChanges /\ changes \in Nat /\ changes' = changes + 1
         /\ starts \in Nat /\ PrFits(pr, changes)
<1>1. MaxChanges \in Nat
  BY BoundsAssumption
<1>2. starts \in 0..MaxChanges /\ changes \in 0..MaxChanges /\ PrFits(pr, changes)
  BY DEF IInv
<1>3. starts + changes < MaxChanges /\ changes' = changes + 1
  BY DEF Change
<1> QED BY <1>1, <1>2, <1>3

LEMMA RemarkMoves == IInv /\ Remark => Moved
<1> SUFFICES ASSUME IInv, Remark PROVE Moved
  OBVIOUS
<1>1. /\ changes' \in 0..MaxChanges /\ changes \in Nat /\ changes' = changes + 1
      /\ PrFits(pr, changes)
  BY ChangeCounts DEF Remark
<1>2. PICK second \in Seconds :
        pr' = [pr EXCEPT !.clock = second, !.remarks = Append(@, 2 * second)]
  BY DEF Remark
<1>3. /\ pr.clock \in Nat /\ pr.remarks \in Seq(Nat) /\ pr.head \in Nat
      /\ Len(pr.remarks) \in Nat /\ DOMAIN pr.remarks = 1..Len(pr.remarks)
      /\ \A i \in DOMAIN pr.remarks : pr.remarks[i] \in Nat
      /\ \A c \in Checks : pr.runs[c] \in Nat
  BY <1>1, PrIs
<1>4. second \in Nat /\ pr.clock <= second /\ 2 * second \in Nat /\ 2 * pr.clock <= 2 * second
  BY <1>2, <1>3 DEF Seconds
<1> DEFINE remarks == Append(pr.remarks, 2 * second)
           n == Len(pr.remarks)
<1>5. /\ remarks \in Seq(Nat) /\ Len(remarks) = n + 1 /\ DOMAIN remarks = 1..(n + 1)
      /\ \A i \in DOMAIN pr.remarks : remarks[i] = pr.remarks[i]
      /\ remarks[n + 1] = 2 * second
  BY <1>3, <1>4, AppendElements
<1>6. pr \in PullRequests /\ \A c \in Checks : pr.runs[c] <= changes
  BY <1>1 DEF PrFits
<1>7. pr' = [pr EXCEPT !.clock = second, !.remarks = remarks]
  BY <1>2
<1> HIDE DEF remarks
<1>8. /\ pr' \in PullRequests /\ pr'.clock = second /\ pr'.remarks = remarks
      /\ pr'.head = pr.head /\ pr'.checks = pr.checks /\ pr'.runs = pr.runs
  BY <1>4, <1>5, <1>6, <1>7 DEF PullRequests
<1> HIDE DEF n
<1>9. n \in Nat /\ DOMAIN pr.remarks = 1..n /\ DOMAIN remarks = 1..(n + 1)
  BY <1>3, <1>5 DEF n
<1>10. \A i \in DOMAIN remarks : i \in DOMAIN pr.remarks \/ i = n + 1
  BY <1>9
<1>11. \A i \in DOMAIN pr'.remarks : pr'.remarks[i] <= 2 * pr'.clock
  <2>1. \A i \in DOMAIN pr.remarks : remarks[i] <= 2 * second
    <3> SUFFICES ASSUME NEW i \in DOMAIN pr.remarks PROVE remarks[i] <= 2 * second
      OBVIOUS
    <3>1. pr.remarks[i] <= 2 * pr.clock /\ pr.remarks[i] \in Nat /\ remarks[i] = pr.remarks[i]
      BY <1>1, <1>3, <1>5 DEF PrFits
    <3> QED BY SMTT(60), <1>3, <1>4, <3>1
  <2>2. remarks[n + 1] <= 2 * second
    BY <1>4, <1>5 DEF n
  <2> QED BY <1>8, <1>10, <2>1, <2>2
<1>12. \A c \in Checks : pr'.runs[c] <= changes'
  BY <1>1, <1>3, <1>6, <1>8
<1>13. PrFits(pr', changes')
  BY <1>1, <1>8, <1>11, <1>12 DEF PrFits
<1>14. /\ \A i \in DOMAIN pr.remarks : i \in DOMAIN remarks /\ remarks[i] = pr.remarks[i]
       /\ \A i \in DOMAIN remarks \ DOMAIN pr.remarks : n < i /\ 2 * pr.clock <= remarks[i]
  <2>1. \A i \in DOMAIN pr.remarks : i \in DOMAIN remarks
    BY <1>9
  <2>2. n < n + 1 /\ 2 * pr.clock <= remarks[n + 1]
    BY <1>4, <1>5, <1>9 DEF n
  <2> QED BY <1>5, <1>10, <2>1, <2>2
<1>15. Moves(pr, pr')
  <2>1. pr.head <= pr'.head /\ pr.clock <= pr'.clock /\ Len(pr.remarks) <= Len(pr'.remarks)
    BY <1>3, <1>4, <1>5, <1>8, <1>9 DEF n
  <2> QED BY <1>8, <1>14, <2>1 DEF Moves, n
<1> QED BY <1>1, <1>13, <1>15 DEF Moved

\* A run that begins is behind all that began before.
LEMMA RunIsNew ==
  ASSUME NEW b, PrFits(pr, b), Checks # {}
  PROVE  Run \in Nat /\ Run <= b + 1 /\ \A c \in Checks : pr.runs[c] < Run
<1> DEFINE S == {pr.runs[c] : c \in Checks}
<1>1. /\ b \in Nat /\ \A c \in Checks : pr.runs[c] \in Nat /\ pr.runs[c] <= b
  BY PrIs DEF PrFits
<1>2. S \in SUBSET Nat /\ S # {} /\ \A n \in S : n <= b
  BY <1>1
<1>3. \A c \in Checks : pr.runs[c] \in S
  OBVIOUS
<1>4. Run = Max(S) + 1
  BY DEF Run
<1> HIDE DEF S
<1>5. Max(S) \in S /\ \A n \in S : n <= Max(S)
  BY <1>1, <1>2, MaxOfBounded
<1>6. Max(S) \in Nat /\ Max(S) <= b
  BY <1>2, <1>5
<1>7. \A c \in Checks : pr.runs[c] < Max(S) + 1
  BY <1>1, <1>3, <1>5, <1>6
<1> QED BY <1>1, <1>4, <1>6, <1>7

\* A change that leaves the clock and the remarks.
LEMMA StillRemarks ==
  ASSUME IInv, changes' = changes + 1, changes' \in 0..MaxChanges, changes \in Nat,
         PrFits(pr, changes), pr' \in PullRequests,
         pr'.clock = pr.clock, pr'.remarks = pr.remarks, pr.head <= pr'.head,
         \A c \in Checks : pr'.runs[c] <= changes',
         \A c \in Checks :
           /\ pr'.runs[c] = pr.runs[c] =>
                pr'.head = pr.head /\ (pr.checks[c] # "pending" => pr'.checks[c] = pr.checks[c])
           /\ pr'.runs[c] # pr.runs[c] => \A d \in Checks : pr.runs[d] < pr'.runs[c]
  PROVE  Moved
<1>1. PrFits(pr', changes')
  BY DEF PrFits
<1>2. pr.clock <= pr'.clock /\ Len(pr.remarks) <= Len(pr'.remarks)
  BY PrIs
<1>3. Moves(pr, pr')
  BY <1>2 DEF Moves
<1> QED BY <1>1, <1>3 DEF Moved

LEMMA PushMoves == IInv /\ Push => Moved
<1> SUFFICES ASSUME IInv, Push PROVE Moved
  OBVIOUS
<1>1. /\ changes' \in 0..MaxChanges /\ changes \in Nat /\ changes' = changes + 1
      /\ PrFits(pr, changes)
  BY ChangeCounts DEF Push
<1>2. pr \in PullRequests /\ pr.head \in Nat
  BY <1>1, PrIs DEF PrFits
<1> DEFINE checks == [c \in Checks |-> "pending"]
           runs == [c \in Checks |-> Run]
           head == pr.head + 1
<1>3. pr' = [pr EXCEPT !.head = head, !.checks = checks, !.runs = runs]
  BY DEF Push
<1>4. \A c \in Checks : Run \in Nat /\ Run <= changes' /\ \A d \in Checks : pr.runs[d] < Run
  BY <1>1, RunIsNew
<1>5. /\ checks \in [Checks -> {"pending", "failed", "passed"}] /\ runs \in [Checks -> Nat]
      /\ head \in Nat /\ pr.head <= head
  BY <1>2, <1>4
<1>6. \A c \in Checks : runs[c] = Run
  OBVIOUS
<1> HIDE DEF checks, runs, head
<1>7. /\ pr' \in PullRequests /\ pr'.head = head /\ pr'.runs = runs
      /\ pr'.clock = pr.clock /\ pr'.remarks = pr.remarks
  BY <1>2, <1>3, <1>5 DEF PullRequests
<1>8. \A c \in Checks : pr'.runs[c] <= changes'
  BY <1>4, <1>6, <1>7
<1>9. \A c \in Checks : pr.runs[c] \in Nat
  BY <1>1, PrIs
<1>10. \A c \in Checks : pr'.runs[c] # pr.runs[c] /\ \A d \in Checks : pr.runs[d] < pr'.runs[c]
  BY <1>4, <1>6, <1>7, <1>9
<1> QED BY <1>1, <1>5, <1>7, <1>8, <1>10, StillRemarks

LEMMA CheckMovesMoves == IInv /\ CheckMoves => Moved
<1> SUFFICES ASSUME IInv, CheckMoves PROVE Moved
  OBVIOUS
<1>1. /\ changes' \in 0..MaxChanges /\ changes \in Nat /\ changes' = changes + 1
      /\ PrFits(pr, changes)
  BY ChangeCounts DEF CheckMoves
<1>2. PICK c \in Checks, to \in {"pending", "failed", "passed"} :
        /\ (pr.checks[c] = "pending") # (to = "pending")
        /\ pr' = [pr EXCEPT !.checks[c] = to, !.runs[c] = IF to = "pending" THEN Run ELSE @]
  BY DEF CheckMoves
<1>3. /\ pr \in PullRequests /\ pr.head \in Nat /\ pr.runs \in [Checks -> Nat]
      /\ pr.checks \in [Checks -> {"pending", "failed", "passed"}]
  BY <1>1, PrIs DEF PrFits, PullRequests
<1> DEFINE run == IF to = "pending" THEN Run ELSE pr.runs[c]
           checks == [pr.checks EXCEPT ![c] = to]
           runs == [pr.runs EXCEPT ![c] = run]
<1>4. pr' = [pr EXCEPT !.checks = checks, !.runs = runs]
  BY <1>2, <1>3 DEF PullRequests
<1>5. Run \in Nat /\ Run <= changes' /\ \A d \in Checks : pr.runs[d] < Run
  BY <1>1, RunIsNew
<1>6. /\ checks \in [Checks -> {"pending", "failed", "passed"}] /\ checks[c] = to
      /\ runs \in [Checks -> Nat] /\ runs[c] = run
      /\ \A d \in Checks \ {c} : checks[d] = pr.checks[d] /\ runs[d] = pr.runs[d]
  BY <1>3, <1>5
<1> HIDE DEF checks, runs
<1>7. /\ pr' \in PullRequests /\ pr'.head = pr.head /\ pr'.runs = runs /\ pr'.checks = checks
      /\ pr'.clock = pr.clock /\ pr'.remarks = pr.remarks
  BY <1>3, <1>4, <1>6 DEF PullRequests
<1>8. \A d \in Checks : pr.runs[d] \in Nat /\ pr.runs[d] <= changes
  BY <1>1, <1>3 DEF PrFits
<1>9. run \in Nat /\ run <= changes'
  BY <1>1, <1>5, <1>8
<1>10. \A d \in Checks : pr'.runs[d] <= changes'
  BY <1>1, <1>6, <1>7, <1>8, <1>9
<1>11. \A d \in Checks :
         /\ pr'.runs[d] = pr.runs[d] =>
              pr'.head = pr.head /\ (pr.checks[d] # "pending" => pr'.checks[d] = pr.checks[d])
         /\ pr'.runs[d] # pr.runs[d] => \A e \in Checks : pr.runs[e] < pr'.runs[d]
  <2> SUFFICES ASSUME NEW d \in Checks
               PROVE  /\ pr'.runs[d] = pr.runs[d] =>
                           /\ pr'.head = pr.head
                           /\ pr.checks[d] # "pending" => pr'.checks[d] = pr.checks[d]
                      /\ pr'.runs[d] # pr.runs[d] => \A e \in Checks : pr.runs[e] < pr'.runs[d]
    OBVIOUS
  <2>1. CASE d # c
    BY <1>6, <1>7, <2>1
  <2>2. CASE d = c /\ to = "pending"
    <3>1. pr'.runs[d] = Run
      BY <1>6, <1>7, <2>2
    <3>2. pr'.runs[d] # pr.runs[d]
      BY <1>5, <1>8, <3>1
    <3> QED BY <1>5, <3>1, <3>2
  <2>3. CASE d = c /\ to # "pending"
    <3>1. pr'.runs[d] = pr.runs[d] /\ pr.checks[d] = "pending"
      BY <1>2, <1>6, <1>7, <2>3
    <3> QED BY <1>7, <3>1
  <2> QED BY <2>1, <2>2, <2>3
<1>12. pr.head <= pr'.head
  BY <1>3, <1>7
<1> QED BY <1>1, <1>7, <1>10, <1>11, <1>12, StillRemarks

LEMMA CloseOrMergeMoves == IInv /\ CloseOrMerge => Moved
<1> SUFFICES ASSUME IInv, CloseOrMerge PROVE Moved
  OBVIOUS
<1>1. /\ changes' \in 0..MaxChanges /\ changes \in Nat /\ changes' = changes + 1
      /\ PrFits(pr, changes)
  BY ChangeCounts DEF CloseOrMerge
<1>2. pr \in PullRequests /\ pr.head \in Nat
  BY <1>1, PrIs DEF PrFits
<1>3. PICK state \in {"open", "closed", "merged"} : pr' = [pr EXCEPT !.state = state]
  BY DEF CloseOrMerge
<1>4. /\ pr' \in PullRequests /\ pr'.head = pr.head /\ pr'.runs = pr.runs
      /\ pr'.checks = pr.checks /\ pr'.clock = pr.clock /\ pr'.remarks = pr.remarks
  BY <1>2, <1>3 DEF PullRequests
<1>5. \A c \in Checks : pr.runs[c] \in Nat /\ pr.runs[c] <= changes
  BY <1>1, PrIs DEF PrFits
<1>6. \A c \in Checks : pr'.runs[c] <= changes'
  BY <1>1, <1>4, <1>5
<1>7. pr.head <= pr'.head
  BY <1>2, <1>4
<1> QED BY <1>1, <1>4, <1>6, <1>7, StillRemarks

LEMMA PullRequestMoves == IInv /\ PullRequest => Moved /\ ChangeOnly
<1> SUFFICES ASSUME IInv, PullRequest PROVE Moved /\ ChangeOnly
  OBVIOUS
<1>1. CASE Remark
  BY <1>1, RemarkMoves DEF Remark
<1>2. CASE Push
  BY <1>2, PushMoves DEF Push
<1>3. CASE CheckMoves
  BY <1>3, CheckMovesMoves DEF CheckMoves
<1>4. CASE CloseOrMerge
  BY <1>4, CloseOrMergeMoves DEF CloseOrMerge
<1> QED BY <1>1, <1>2, <1>3, <1>4 DEF PullRequest

LEMMA PullRequestStep == IInv /\ PullRequest => IInv'
<1> SUFFICES ASSUME IInv, PullRequest PROVE IInv'
  OBVIOUS
<1>1. /\ PrFits(pr', changes') /\ Moves(pr, pr') /\ changes' \in 0..MaxChanges
      /\ UNCHANGED <<host, disk, pass, starts, upsets>>
  BY PullRequestMoves DEF Moved, ChangeOnly
<1>2. /\ PrFits(pr, changes) /\ HostFits(pr, starts, host) /\ PassFits(starts, host, pass)
      /\ CacheFits(pr, host, pass) /\ ReadingFits(pr, host, pass) /\ starts \in Nat
  BY BoundsAssumption DEF IInv
<1>3. HostFits(pr', starts, host) /\ CacheFits(pr', host, pass) /\ ReadingFits(pr', host, pass)
  BY <1>1, <1>2, HostOutlives
<1>4. \A t \in Threads : SavedFits(pr', starts, disk[t], host.threads[t].given.ever)
  <2> SUFFICES ASSUME NEW t \in Threads
               PROVE  SavedFits(pr', starts, disk[t], host.threads[t].given.ever)
    OBVIOUS
  <2>1. SavedFits(pr, starts, disk[t], host.threads[t].given.ever)
    BY DEF IInv
  <2>2. ASSUME disk[t].watch # None PROVE Outlives(pr, pr', starts, disk[t].watch)
    <3>1. WatchFits(pr, starts, disk[t].watch)
      BY <2>1, <2>2 DEF SavedFits
    <3> QED BY <1>1, <1>2, <3>1, WatchOutlives
  <2> QED BY <2>1, <2>2, SavedOutlives
<1> QED BY <1>1, <1>2, <1>3, <1>4 DEF IInv

-------------------------------------------------------------------------------
(* People, providers, the store and a restart *)

LEMMA SavedMore ==
  ASSUME NEW p, NEW s, NEW saved, NEW ever, NEW more, SavedFits(p, s, saved, ever),
         ever \subseteq more
  PROVE  SavedFits(p, s, saved, more)
<1>1. ASSUME saved.watch # None
      PROVE  ToldFits(p, saved.watch, more \union Waiting(saved.watch))
  <2>1. ToldFits(p, saved.watch, ever \union Waiting(saved.watch))
    BY <1>1 DEF SavedFits
  <2>2. ever \union Waiting(saved.watch) \subseteq more \union Waiting(saved.watch)
    OBVIOUS
  <2> QED BY <2>1, <2>2, ToldMore
<1> QED BY <1>1 DEF SavedFits

LEMMA SameOutlives ==
  ASSUME NEW p, NEW s, NEW s2, Wider(s, s2), NEW w, WatchFits(p, s, w)
  PROVE  Outlives(p, p, s2, w)
<1>1. WatchFits(p, s2, w)
  BY DEF WatchFits, Wider
<1> QED BY <1>1 DEF Outlives

\* A watch of t that is in h2 is that of h, or one that was started since.
Steady(s, h, h2, t) ==
  LET th == h.threads[t]
      th2 == h2.threads[t]
  IN  /\ th.given.ever \subseteq th2.given.ever
      /\ th2.watch # None /\ th2.watch.gen \in 1..s =>
           /\ th.watch # None /\ th2.watch.gen = th.watch.gen /\ SameNews(th2.watch, th.watch)
           /\ AtEnd(th2.watch) <=> AtEnd(th.watch)
           /\ ~th2.paused /\ t \notin h2.refresh => ~th.paused /\ t \notin h.refresh

LEMMA SteadyHost ==
  ASSUME NEW p, NEW s, NEW s2, Wider(s, s2), NEW h, HostFits(p, s, h),
         NEW ps, PassFits(s, h, ps), CacheFits(p, h, ps), ReadingFits(p, h, ps),
         NEW h2, h2.cache = h.cache, \A t \in Threads : Steady(s, h, h2, t)
  PROVE  PassFits(s2, h2, ps) /\ CacheFits(p, h2, ps) /\ ReadingFits(p, h2, ps)
<1>1. PassFits(s2, h2, ps)
  <2> SUFFICES ASSUME ps # None PROVE PassFits(s2, h2, ps)
    BY DEF PassFits
  <2>1. ps \in Passes /\ ps.targets \subseteq Threads \X (1..s)
    BY DEF PassFits
  <2>2. ps.targets \subseteq Threads \X (1..s2)
    BY <2>1 DEF Wider
  <2>3. ASSUME NEW t \in Threads, h2.threads[t].watch # None,
               <<t, h2.threads[t].watch.gen>> \in ps.targets
        PROVE  ~AtEnd(h2.threads[t].watch)
    <3>1. h2.threads[t].watch.gen \in 1..s
      BY <2>1, <2>3
    <3>2. /\ h.threads[t].watch # None /\ h2.threads[t].watch.gen = h.threads[t].watch.gen
          /\ AtEnd(h2.threads[t].watch) <=> AtEnd(h.threads[t].watch)
      BY <2>3, <3>1 DEF Steady
    <3> QED BY <2>3, <3>2 DEF PassFits
  <2> QED BY <2>1, <2>2, <2>3 DEF PassFits
<1>2. CacheFits(p, h2, ps)
  <2> SUFFICES ASSUME h.cache # None PROVE CacheFits(p, h2, ps)
    BY DEF CacheFits
  <2>1. h.cache.watches \subseteq Threads \X (1..s)
    BY CacheIs DEF HostFits
  <2>2. ASSUME NEW t \in Threads, Read(h2, t)
        PROVE  Read(h, t) /\ Fresh(h2.threads[t].watch, p.remarks)
                              = Fresh(h.threads[t].watch, p.remarks)
    <3>1. /\ h2.threads[t].watch # None /\ ~AtEnd(h2.threads[t].watch)
          /\ ~h2.threads[t].paused /\ t \notin h2.refresh
          /\ <<t, h2.threads[t].watch.gen>> \in h.cache.watches
      BY <2>2 DEF Read
    <3>2. h2.threads[t].watch.gen \in 1..s
      BY <2>1, <3>1
    <3>3. /\ h.threads[t].watch # None /\ h2.threads[t].watch.gen = h.threads[t].watch.gen
          /\ SameNews(h2.threads[t].watch, h.threads[t].watch)
          /\ AtEnd(h2.threads[t].watch) <=> AtEnd(h.threads[t].watch)
          /\ ~h.threads[t].paused /\ t \notin h.refresh
      BY <2>2, <3>1, <3>2 DEF Steady
    <3> QED BY <3>1, <3>3, SameFresh DEF Read
  <2> QED BY <2>2 DEF CacheFits
<1>3. ReadingFits(p, h2, ps)
  BY DEF ReadingFits
<1> QED BY <1>1, <1>2, <1>3

\* A step of people or of providers.
LEMMA HostActs ==
  ASSUME IInv, starts' \in 0..MaxChanges, starts <= starts', upsets' \in 0..MaxUpsets,
         UNCHANGED <<pr, disk, pass, changes>>,
         host' \in Hosts(starts'), host'.cache = host.cache,
         \A t \in Threads :
           Fits(pr, starts', host'.threads[t]) /\ Steady(starts, host, host', t)
  PROVE  IInv'
<1>1. starts \in Nat /\ starts' \in Nat /\ starts \in 0..MaxChanges /\ changes \in 0..MaxChanges
  BY BoundsAssumption DEF IInv
<1>2. Wider(starts, starts')
  BY <1>1, WiderIs
<1>3. HostFits(pr, starts', host')
  BY DEF HostFits
<1>4. PassFits(starts', host', pass) /\ CacheFits(pr, host', pass) /\ ReadingFits(pr, host', pass)
  BY <1>2, SteadyHost DEF IInv
<1>5. \A t \in Threads : SavedFits(pr, starts', disk[t], host'.threads[t].given.ever)
  <2> SUFFICES ASSUME NEW t \in Threads
               PROVE  SavedFits(pr, starts', disk[t], host'.threads[t].given.ever)
    OBVIOUS
  <2>1. SavedFits(pr, starts, disk[t], host.threads[t].given.ever)
    BY DEF IInv
  <2>2. disk[t].watch # None => Outlives(pr, pr, starts', disk[t].watch)
    BY <1>2, <2>1, SameOutlives DEF SavedFits
  <2>3. SavedFits(pr, starts', disk[t], host.threads[t].given.ever)
    BY <2>1, <2>2, SavedOutlives
  <2>4. host.threads[t].given.ever \subseteq host'.threads[t].given.ever
    BY DEF Steady
  <2> QED BY <2>3, <2>4, SavedMore
<1> QED BY <1>1, <1>3, <1>4, <1>5 DEF IInv

LEMMA PassKeepsInv ==
  ASSUME IInv, PassKeeps, UNCHANGED <<pr, disk, starts, changes, upsets>>
  PROVE  IInv'
<1>1. \A t \in Threads : SavedFits(pr, starts, disk[t], host'.threads[t].given.ever)
  <2> SUFFICES ASSUME NEW t \in Threads
               PROVE  SavedFits(pr, starts, disk[t], host'.threads[t].given.ever)
    OBVIOUS
  <2>1. SavedFits(pr, starts, disk[t], host.threads[t].given.ever)
    BY DEF IInv
  <2>2. host.threads[t].given.ever \subseteq host'.threads[t].given.ever
    BY DEF PassKeeps, Follows
  <2> QED BY <2>1, <2>2, SavedMore
<1> QED BY <1>1 DEF IInv, PassKeeps

\* One thread changes.
Steadily(th, th2) ==
  /\ th.given.ever \subseteq th2.given.ever
  /\ th2.watch # None =>
       /\ th.watch # None /\ th2.watch.gen = th.watch.gen /\ SameNews(th2.watch, th.watch)
       /\ AtEnd(th2.watch) <=> AtEnd(th.watch)
       /\ ~th2.paused => ~th.paused

LEMMA SameSteadily ==
  ASSUME NEW th, NEW th2, th2.given = th.given, th2.watch \in {th.watch, None},
         ~th2.paused /\ th2.watch # None => ~th.paused
  PROVE  Steadily(th, th2)
BY DEF Steadily, SameNews

LEMMA SteadilyIs ==
  ASSUME NEW s, NEW h, NEW h2, NEW t, Steadily(h.threads[t], h2.threads[t]),
         h2.threads[t].watch # None => (t \notin h2.refresh => t \notin h.refresh)
  PROVE  Steady(s, h, h2, t)
BY DEF Steadily, Steady

LEMMA BecomesIs ==
  ASSUME NEW s, host \in Hosts(s), NEW t \in Threads, NEW th2 \in ThreadRecords(s),
         Becomes(t, th2)
  PROVE  /\ host' \in Hosts(s) /\ host'.cache = host.cache /\ host'.refresh = host.refresh
         /\ host'.threads[t] = th2
         /\ \A u \in Threads \ {t} : host'.threads[u] = host.threads[u]
<1> DEFINE threads == [host.threads EXCEPT ![t] = th2]
<1>1. host.threads \in [Threads -> ThreadRecords(s)]
  BY DEF Hosts
<1>2. /\ threads \in [Threads -> ThreadRecords(s)] /\ threads[t] = th2
      /\ \A u \in Threads \ {t} : threads[u] = host.threads[u]
  BY <1>1
<1>3. host' = [host EXCEPT !.threads = threads]
  BY DEF Becomes
<1> HIDE DEF threads
<1>4. /\ host' \in Hosts(s) /\ host'.cache = host.cache /\ host'.refresh = host.refresh
      /\ host'.threads = threads
  BY <1>2, <1>3 DEF Hosts
<1> QED BY <1>2, <1>4

LEMMA BecomesStep ==
  ASSUME IInv, NEW t \in Threads, NEW th2, Becomes(t, th2), Fits(pr, starts, th2),
         Steadily(host.threads[t], th2),
         UNCHANGED <<pr, disk, pass, starts, changes>>, upsets' \in 0..MaxUpsets
  PROVE  IInv' /\ host'.threads[t] = th2
         /\ \A u \in Threads \ {t} : host'.threads[u] = host.threads[u]
<1>1. /\ HostFits(pr, starts, host) /\ host \in Hosts(starts) /\ starts \in 0..MaxChanges
      /\ starts \in Nat
  BY BoundsAssumption DEF IInv, HostFits
<1>2. th2 \in ThreadRecords(starts)
  BY DEF Fits
<1>3. /\ host' \in Hosts(starts) /\ host'.cache = host.cache /\ host'.refresh = host.refresh
      /\ host'.threads[t] = th2
      /\ \A u \in Threads \ {t} : host'.threads[u] = host.threads[u]
  BY <1>1, <1>2, BecomesIs
<1>4. \A u \in Threads : Fits(pr, starts, host'.threads[u])
  BY <1>1, <1>3 DEF HostFits
<1>5. \A u \in Threads : Steady(starts, host, host', u)
  <2> SUFFICES ASSUME NEW u \in Threads PROVE Steady(starts, host, host', u)
    OBVIOUS
  <2>1. CASE u = t
    BY <1>3, <2>1, SteadilyIs
  <2>2. CASE u # t
    <3>1. host'.threads[u] = host.threads[u]
      BY <1>3, <2>2
    <3>2. Steadily(host.threads[u], host'.threads[u])
      BY <3>1, SameSteadily
    <3> QED BY <1>3, <3>2, SteadilyIs
  <2> QED BY <2>1, <2>2
<1>6. starts <= starts' /\ starts' = starts
  BY <1>1
<1>7. IInv'
  BY <1>1, <1>3, <1>4, <1>5, <1>6, HostActs
<1> QED BY <1>3, <1>7

LEMMA ThreadFits ==
  ASSUME IInv, NEW t \in Threads
  PROVE  Fits(pr, starts, host.threads[t]) /\ host.threads[t] \in ThreadRecords(starts)
BY DEF IInv, HostFits, Fits

\* A thread that differs in nothing that news is about.
LEMMA SameFits ==
  ASSUME NEW p, NEW s, NEW th, Fits(p, s, th), NEW th2 \in ThreadRecords(s),
         th2.watch = th.watch, th2.queue = th.queue, th2.given = th.given,
         th2.delivery # 0 => th2.queue # <<>> /\ th2.delivery = Head(th2.queue).id
  PROVE  Fits(p, s, th2)
<1>1. Once(th2)
  BY DEF Fits, Once
<1>2. ASSUME th2.watch # None PROVE Watched(p, s, th2)
  <2>1. Watched(p, s, th)
    BY <1>2 DEF Fits
  <2>2. th2.watch.pending # None => PendingOnce(th2)
    BY <2>1 DEF Watched, PendingOnce, HeldOnce
  <2>3. QueueText(th2) = QueueText(th)
    BY DEF QueueText
  <2> QED BY <2>1, <2>2, <2>3 DEF Watched
<1> QED BY <1>1, <1>2 DEF Fits

UpsetsBound == upsets' \in 0..MaxUpsets

LEMMA UpsetsIs ==
  ASSUME IInv, Upset \/ UNCHANGED upsets
  PROVE  UpsetsBound
<1>1. upsets \in 0..MaxUpsets /\ MaxUpsets \in Nat
  BY BoundsAssumption DEF IInv
<1> QED BY <1>1 DEF Upset, UpsetsBound

\* What a step leaves of the threads that EndsAreTold is about.
ThreadKeeps(t) ==
  host.threads[t].watch # None /\ host'.threads[t].watch = None =>
    AtEnd(host.threads[t].watch) /\ Keeps(host.threads[t], host'.threads[t])

LEMMA PauseStep ==
  ASSUME IInv, NEW t \in Threads, Pause(t)
  PROVE  IInv' /\ \A u \in Threads : ThreadKeeps(u)
<1> DEFINE th == host.threads[t]
           th1 == Discard(th)
           th2 == [th1 EXCEPT !.paused = TRUE]
<1>1. /\ Fits(pr, starts, th1) /\ th1 \in ThreadRecords(starts) /\ th1.watch = th.watch
      /\ th1.given = th.given
  BY ThreadFits, DiscardFits
<1> HIDE DEF th1
<1>2. /\ th2 \in ThreadRecords(starts) /\ th2.watch = th1.watch /\ th2.queue = th1.queue
      /\ th2.given = th1.given /\ th2.delivery = th1.delivery /\ th2.paused
  BY <1>1 DEF ThreadRecords
<1>3. Becomes(t, th2)
  BY DEF Pause, th1
<1> HIDE DEF th2, th
<1>4. Fits(pr, starts, th2)
  <2>1. th2.delivery # 0 => th2.queue # <<>> /\ th2.delivery = Head(th2.queue).id
    BY <1>1, <1>2 DEF Fits
  <2> QED BY <1>1, <1>2, <2>1, SameFits
<1>5. Steadily(host.threads[t], th2)
  BY <1>1, <1>2, SameSteadily DEF th
<1>6. UNCHANGED <<pr, disk, pass, starts, changes>> /\ upsets' \in 0..MaxUpsets
  BY UpsetsIs DEF Pause, ActOnly, UpsetsBound
<1>7. /\ IInv' /\ host'.threads[t] = th2
      /\ \A u \in Threads \ {t} : host'.threads[u] = host.threads[u]
  BY <1>3, <1>4, <1>5, <1>6, BecomesStep
<1>8. \A u \in Threads : host'.threads[u].watch = host.threads[u].watch
  BY <1>1, <1>2, <1>7 DEF th
<1> QED BY <1>7, <1>8 DEF ThreadKeeps

\* A step of the provider of t that takes nothing from its queue.
LEMMA AgentSteps ==
  ASSUME IInv, NEW t \in Threads, NEW th2, Becomes(t, th2), AgentOnly,
         th2 \in ThreadRecords(starts), th2.watch = host.threads[t].watch,
         th2.queue = host.threads[t].queue, th2.given = host.threads[t].given,
         th2.paused = host.threads[t].paused,
         th2.delivery # 0 => th2.queue # <<>> /\ th2.delivery = Head(th2.queue).id
  PROVE  IInv' /\ \A u \in Threads : ThreadKeeps(u)
<1>1. Fits(pr, starts, th2)
  BY ThreadFits, SameFits
<1>2. Steadily(host.threads[t], th2)
  BY SameSteadily
<1>3. UNCHANGED <<pr, disk, pass, starts, changes>> /\ upsets' \in 0..MaxUpsets
  BY UpsetsIs DEF AgentOnly, counts, UpsetsBound
<1>4. /\ IInv' /\ host'.threads[t] = th2
      /\ \A u \in Threads \ {t} : host'.threads[u] = host.threads[u]
  BY <1>1, <1>2, <1>3, BecomesStep
<1>5. \A u \in Threads : host'.threads[u].watch = host.threads[u].watch
  BY <1>4
<1> QED BY <1>4, <1>5 DEF ThreadKeeps

LEMMA TurnBeginsStep ==
  ASSUME IInv, NEW t \in Threads, TurnBegins(t)
  PROVE  IInv' /\ \A u \in Threads : ThreadKeeps(u)
<1> DEFINE th == host.threads[t]
           th2 == [th EXCEPT !.agent = "steerable"]
<1>1. th \in ThreadRecords(starts) /\ th.delivery = 0 /\ Becomes(t, th2) /\ AgentOnly
  BY ThreadFits DEF TurnBegins
<1>2. /\ th2 \in ThreadRecords(starts) /\ th2.watch = th.watch /\ th2.queue = th.queue
      /\ th2.given = th.given /\ th2.paused = th.paused /\ th2.delivery = th.delivery
  BY <1>1 DEF ThreadRecords, Turns
<1> HIDE DEF th2
<1> QED BY <1>1, <1>2, AgentSteps

LEMMA TurnEndsStep ==
  ASSUME IInv, NEW t \in Threads, TurnEnds(t)
  PROVE  IInv' /\ \A u \in Threads : ThreadKeeps(u)
<1> DEFINE th == host.threads[t]
           th2 == [th EXCEPT !.agent = "idle"]
<1>1. th \in ThreadRecords(starts) /\ Fits(pr, starts, th) /\ Becomes(t, th2) /\ AgentOnly
  BY ThreadFits DEF TurnEnds
<1>2. /\ th2 \in ThreadRecords(starts) /\ th2.watch = th.watch /\ th2.queue = th.queue
      /\ th2.given = th.given /\ th2.paused = th.paused /\ th2.delivery = th.delivery
  BY <1>1 DEF ThreadRecords, Turns
<1>3. th.delivery # 0 => th.queue # <<>> /\ th.delivery = Head(th.queue).id
  BY <1>1 DEF Fits
<1> HIDE DEF th2
<1>4. th2.delivery # 0 => th2.queue # <<>> /\ th2.delivery = Head(th2.queue).id
  BY <1>2, <1>3
<1> QED BY <1>1, <1>2, <1>4, AgentSteps

LEMMA DispatchStep ==
  ASSUME IInv, NEW t \in Threads, Dispatch(t)
  PROVE  IInv' /\ \A u \in Threads : ThreadKeeps(u)
<1> DEFINE th == host.threads[t]
           th2 == [th EXCEPT !.delivery = Head(th.queue).id]
<1>1. th \in ThreadRecords(starts) /\ th.queue # <<>> /\ Becomes(t, th2) /\ AgentOnly
  BY ThreadFits DEF Dispatch
<1>2. Head(th.queue).id \in Nat
  <2>1. th.queue \in Seq(Messages(starts))
    BY <1>1 DEF ThreadRecords
  <2>2. Head(th.queue) \in Messages(starts)
    BY <1>1, <2>1, TailElements
  <2> QED BY <2>2 DEF Messages
<1>3. /\ th2 \in ThreadRecords(starts) /\ th2.watch = th.watch /\ th2.queue = th.queue
      /\ th2.given = th.given /\ th2.paused = th.paused /\ th2.delivery = Head(th.queue).id
  BY <1>1, <1>2 DEF ThreadRecords
<1> HIDE DEF th2
<1> QED BY <1>1, <1>3, AgentSteps

LEMMA AgentDiesStep ==
  ASSUME IInv, NEW t \in Threads, AgentDies(t)
  PROVE  IInv' /\ \A u \in Threads : ThreadKeeps(u)
<1> DEFINE th == host.threads[t]
           th2 == [th EXCEPT !.agent = "idle", !.delivery = 0]
<1>1. th \in ThreadRecords(starts) /\ Becomes(t, th2) /\ AgentOnly
  BY ThreadFits DEF AgentDies
<1>2. /\ th2 \in ThreadRecords(starts) /\ th2.watch = th.watch /\ th2.queue = th.queue
      /\ th2.given = th.given /\ th2.paused = th.paused /\ th2.delivery = 0
  BY <1>1 DEF ThreadRecords, Turns
<1> HIDE DEF th2
<1> QED BY <1>1, <1>2, AgentSteps

LEMMA AcceptStep ==
  ASSUME IInv, NEW t \in Threads, Accept(t)
  PROVE  IInv' /\ \A u \in Threads : ThreadKeeps(u)
<1> DEFINE th == host.threads[t]
           next == Head(th.queue)
           left(agent) == Gives([th EXCEPT !.queue = Tail(@), !.delivery = 0, !.agent = agent],
                                next.text)
<1>1. PICK agent \in Turns : Becomes(t, Acknowledge(left(agent), next.id, next.text))
  BY ZenonT(60) DEF Accept
<1> DEFINE th2 == Acknowledge(left(agent), next.id, next.text)
<1>2. Fits(pr, starts, th) /\ th \in ThreadRecords(starts) /\ th.delivery # 0
  BY ThreadFits DEF Accept
<1>3. Fits(pr, starts, th2) /\ Keeps(th, th2)
  BY ZenonT(60), <1>2, AcceptFits
<1>4. Becomes(t, th2) /\ AgentOnly
  BY ZenonT(60), <1>1 DEF Accept
<1> HIDE DEF th2, left, next
<1>5. Steadily(th, th2)
  <2>1. ASSUME th2.watch # None
        PROVE  /\ th.watch # None /\ th2.watch.gen = th.watch.gen /\ SameNews(th2.watch, th.watch)
               /\ AtEnd(th2.watch) <=> AtEnd(th.watch)
    <3>1. /\ th.watch # None /\ th2.watch = [th.watch EXCEPT !.pending = th2.watch.pending]
          /\ AtEnd(th2.watch) <=> AtEnd(th.watch)
      BY <1>3, <2>1 DEF Keeps
    <3>2. th.watch \in Watches
      BY <1>2, <3>1 DEF ThreadRecords
    <3>3. /\ th2.watch.gen = th.watch.gen /\ th2.watch.through = th.watch.through
          /\ th2.watch.ids = th.watch.ids
      BY <3>1, <3>2 DEF Watches
    <3> QED BY <3>1, <3>3 DEF SameNews
  <2>2. th.given.ever \subseteq th2.given.ever /\ th2.paused = th.paused
    BY <1>3 DEF Keeps
  <2> QED BY <2>1, <2>2 DEF Steadily
<1>6. UNCHANGED <<pr, disk, pass, starts, changes>> /\ upsets' \in 0..MaxUpsets
  BY <1>4, UpsetsIs DEF AgentOnly, counts, UpsetsBound
<1>7. /\ IInv' /\ host'.threads[t] = th2
      /\ \A u \in Threads \ {t} : host'.threads[u] = host.threads[u]
  BY <1>3, <1>4, <1>5, <1>6, BecomesStep
<1>8. ASSUME NEW u \in Threads PROVE ThreadKeeps(u)
  <2>1. CASE u = t
    BY <1>3, <1>7, <2>1 DEF ThreadKeeps, Keeps
  <2>2. CASE u # t
    BY <1>7, <2>2 DEF ThreadKeeps
  <2> QED BY <2>1, <2>2
<1> QED BY <1>7, <1>8

\* t ends its watch as it was asked to.
Leaves(t, th2) == host' = [host EXCEPT !.threads[t] = th2, !.refresh = @ \ {t}]

LEMMA LeavesIs ==
  ASSUME NEW s, host \in Hosts(s), NEW t \in Threads, NEW th2 \in ThreadRecords(s),
         Leaves(t, th2)
  PROVE  /\ host' \in Hosts(s) /\ host'.cache = host.cache
         /\ \A u \in Threads \ {t} : u \notin host'.refresh => u \notin host.refresh
         /\ host'.threads[t] = th2
         /\ \A u \in Threads \ {t} : host'.threads[u] = host.threads[u]
<1> DEFINE threads == [host.threads EXCEPT ![t] = th2]
           refresh == host.refresh \ {t}
<1>1. host.threads \in [Threads -> ThreadRecords(s)] /\ host.refresh \in SUBSET Threads
  BY DEF Hosts
<1>2. /\ threads \in [Threads -> ThreadRecords(s)] /\ threads[t] = th2
      /\ \A u \in Threads \ {t} : threads[u] = host.threads[u]
      /\ refresh \in SUBSET Threads
      /\ \A u \in Threads \ {t} : u \notin refresh => u \notin host.refresh
  BY <1>1
<1>3. host' = [host EXCEPT !.threads = threads, !.refresh = refresh]
  BY DEF Leaves
<1> HIDE DEF threads, refresh
<1>4. /\ host' \in Hosts(s) /\ host'.cache = host.cache /\ host'.refresh = refresh
      /\ host'.threads = threads
  BY <1>2, <1>3 DEF Hosts
<1> QED BY <1>2, <1>4

LEMMA LeavesStep ==
  ASSUME IInv, NEW t \in Threads, NEW th2, Leaves(t, th2), Fits(pr, starts, th2),
         th2.watch = None, th2.given = host.threads[t].given,
         UNCHANGED <<pass, starts, upsets>>, ActOnly
  PROVE  IInv' /\ \A u \in Threads \ {t} : ThreadKeeps(u)
<1>1. /\ HostFits(pr, starts, host) /\ host \in Hosts(starts) /\ starts \in 0..MaxChanges
      /\ starts \in Nat /\ upsets \in 0..MaxUpsets
  BY BoundsAssumption DEF IInv, HostFits
<1>2. th2 \in ThreadRecords(starts)
  BY DEF Fits
<1>3. /\ host' \in Hosts(starts) /\ host'.cache = host.cache
      /\ \A u \in Threads \ {t} : u \notin host'.refresh => u \notin host.refresh
      /\ host'.threads[t] = th2
      /\ \A u \in Threads \ {t} : host'.threads[u] = host.threads[u]
  BY <1>1, <1>2, LeavesIs
<1>4. \A u \in Threads : Fits(pr, starts, host'.threads[u])
  BY <1>1, <1>3 DEF HostFits
<1>5. \A u \in Threads : Steady(starts, host, host', u)
  <2> SUFFICES ASSUME NEW u \in Threads PROVE Steady(starts, host, host', u)
    OBVIOUS
  <2>1. CASE u = t
    BY <1>3, <2>1 DEF Steady
  <2>2. CASE u # t
    <3>1. host'.threads[u] = host.threads[u] /\ (u \notin host'.refresh => u \notin host.refresh)
      BY <1>3, <2>2
    <3>2. Steadily(host.threads[u], host'.threads[u])
      BY <3>1, SameSteadily
    <3> QED BY <3>1, <3>2, SteadilyIs
  <2> QED BY <2>1, <2>2
<1>6. starts <= starts' /\ starts' = starts /\ upsets' = upsets
  BY <1>1
<1>7. UNCHANGED <<pr, disk, pass, changes>>
  BY DEF ActOnly
<1>8. IInv'
  BY <1>1, <1>3, <1>4, <1>5, <1>6, <1>7, HostActs
<1>9. \A u \in Threads \ {t} : ThreadKeeps(u)
  BY <1>3 DEF ThreadKeeps
<1> QED BY <1>8, <1>9

LEMMA UnwatchStep ==
  ASSUME IInv, NEW t \in Threads, Unwatch(t)
  PROVE  IInv' /\ \A u \in Threads \ {t} : ThreadKeeps(u)
<1> DEFINE th == host.threads[t]
           th1 == [th EXCEPT !.watch = None]
           th2 == Discard(th1)
<1>1. Fits(pr, starts, th) /\ th \in ThreadRecords(starts)
  BY ThreadFits
<1>2. Leaves(t, th2) /\ UNCHANGED <<pass, starts, upsets>> /\ ActOnly
  BY DEF Unwatch, Leaves
<1>3. /\ th1 \in ThreadRecords(starts) /\ th1.queue = th.queue /\ th1.given = th.given
      /\ th1.watch = None /\ th1.delivery = th.delivery
  BY <1>1 DEF ThreadRecords
<1> HIDE DEF th1
<1>4. Fits(pr, starts, th1)
  BY <1>1, <1>3, UnwatchedFits
<1>5. Fits(pr, starts, th2) /\ th2.watch = None /\ th2.given = th.given
  BY <1>3, <1>4, DiscardFits
<1> HIDE DEF th2
<1> QED BY <1>2, <1>5, LeavesStep

LEMMA SettleStep ==
  ASSUME IInv, NEW t \in Threads, Settle(t)
  PROVE  IInv' /\ \A u \in Threads \ {t} : ThreadKeeps(u)
<1> DEFINE th == host.threads[t]
           th2 == [th EXCEPT !.watch = None, !.paused = FALSE, !.queue = <<>>]
<1>1. Fits(pr, starts, th) /\ th \in ThreadRecords(starts)
  BY ThreadFits
<1>2. Leaves(t, th2) /\ UNCHANGED <<pass, starts, upsets>> /\ ActOnly /\ th.delivery = 0
  BY DEF Settle, Leaves
<1>3. <<>> \in Seq(Messages(starts))
  OBVIOUS
<1>4. /\ th2 \in ThreadRecords(starts) /\ th2.queue = <<>> /\ th2.given = th.given
      /\ th2.watch = None /\ th2.delivery = th.delivery
  BY <1>1, <1>3 DEF ThreadRecords
<1> HIDE DEF th2
<1>5. Selects(th2.queue, th.queue)
  BY <1>4, SelectsNothing
<1>6. Fits(pr, starts, th2)
  BY <1>1, <1>2, <1>4, <1>5, FewerQueued
<1> QED BY <1>2, <1>4, <1>6, LeavesStep

\* A new watch takes its agent to know nothing, and nobody holds news of it.
LEMMA NewWatchFits ==
  ASSUME NEW p, NEW b, PrFits(p, b), NEW s \in Nat, NEW th, Fits(p, s, th),
         NEW th2, th2.watch = NewWatch(s + 1, 2 * p.clock + 1),
         th2.queue = th.queue, th2.given = th.given, th2.delivery = th.delivery,
         th2 \in ThreadRecords(s + 1)
  PROVE  Fits(p, s + 1, th2)
<1> DEFINE w == NewWatch(s + 1, 2 * p.clock + 1)
           at == 2 * p.clock + 1
<1>1. p.clock \in Nat /\ at \in Nat /\ s + 1 \in 1..(s + 1) /\ s + 1 \notin 1..s
  BY DEF PrFits, PullRequests
<1>2. /\ w.gen = s + 1 /\ w.head = None /\ w.failed = {} /\ w.from = at /\ w.through = at
      /\ w.ids = {} /\ w.wakes = 0 /\ w.pending = None /\ w \in Watches
  BY <1>1 DEF NewWatch, Watches
<1> HIDE DEF w, at
<1>3. th2.watch = w
  BY DEF w
<1>4. ~AtEnd(w) /\ Waiting(w) = {}
  BY <1>2 DEF AtEnd, Waiting
<1>5. WatchFits(p, s + 1, w)
  <2>1. WakeLimit \in Nat \ {0}
    BY BoundsAssumption
  <2>2. w.from <= w.through /\ w.through = w.from
    BY <1>1, <1>2
  <2>3. w.wakes < WakeLimit
    BY <1>2, <2>1
  <2>4. /\ w.gen \in 1..(s + 1) /\ w.head \in 0..p.head \union {None}
        /\ w.ids \subseteq DOMAIN p.remarks
    BY <1>1, <1>2
  <2> QED BY <1>2, <2>2, <2>3, <2>4 DEF WatchFits
<1>6. ToldFits(p, w, th2.given.ever \union Waiting(w))
  <2>1. KnownOf(p, w) \subseteq {}
    <3>1. \A i \in DOMAIN p.remarks :
            ~(w.from < p.remarks[i]
              /\ (p.remarks[i] < w.through \/ (p.remarks[i] = w.through /\ i \in w.ids)))
      <4> SUFFICES ASSUME NEW i \in DOMAIN p.remarks, at < p.remarks[i], p.remarks[i] < at
                   PROVE  FALSE
        BY <1>2
      <4>1. p.remarks[i] \in Nat
        BY SequenceElements DEF PrFits, PullRequests
      <4> QED BY <1>1, <4>1
    <3> QED BY <3>1 DEF KnownOf
  <2>2. KnowsFailures(w, th2.given.ever \union Waiting(w))
    BY <1>2 DEF KnowsFailures
  <2> QED BY <1>4, <2>1, <2>2 DEF ToldFits
<1>7. Knowing(p, w, th2.given.since \union QueueText(th2) \union Waiting(w))
  <2>1. Holds(th) \subseteq NewsTo(s)
    BY HoldsNews
  <2>2. QueueText(th2) = QueueText(th)
    BY DEF QueueText
  <2>3. th.given.since \union QueueText(th) \subseteq NewsTo(s)
    BY <2>1 DEF Holds
  <2>4. \A item \in th2.given.since \union QueueText(th2) \union Waiting(w) : item.gen # w.gen
    <3> SUFFICES ASSUME NEW item \in th.given.since \union QueueText(th) PROVE item.gen # w.gen
      BY <1>4, <2>2
    <3>1. item.gen \in 1..s
      BY <2>3 DEF NewsTo
    <3> QED BY <1>1, <1>2, <3>1
  <2> QED BY <2>4 DEF Knowing
<1>8. Watched(p, s + 1, th2)
  BY <1>2, <1>3, <1>5, <1>6, <1>7 DEF Watched
<1>9. Once(th2)
  BY DEF Fits, Once
<1> QED BY <1>8, <1>9 DEF Fits

LEMMA WatchStep ==
  ASSUME IInv, NEW t \in Threads, Watch(t)
  PROVE  IInv' /\ \A u \in Threads : ThreadKeeps(u)
<1> DEFINE th == host.threads[t]
           w == NewWatch(starts', 2 * pr.clock + 1)
           th2 == [th EXCEPT !.watch = w]
<1>1. Becomes(t, th2) /\ UNCHANGED <<pass, upsets>> /\ ActOnly /\ starts' = starts + 1
  BY DEF Watch
<1>2. /\ PrFits(pr, changes) /\ HostFits(pr, starts, host) /\ host \in Hosts(starts)
      /\ starts \in Nat /\ changes \in Nat /\ starts + changes < MaxChanges /\ MaxChanges \in Nat
      /\ upsets \in 0..MaxUpsets
  BY BoundsAssumption DEF IInv, HostFits, Watch
<1>3. starts <= starts' /\ starts' \in 0..MaxChanges /\ starts' \in Nat /\ starts' \notin 1..starts
  BY <1>1, <1>2
<1>4. Wider(starts, starts')
  BY <1>2, <1>3, WiderIs
<1>5. Fits(pr, starts, th) /\ th \in ThreadRecords(starts')
  BY <1>4, ThreadFits DEF Wider
<1>6. w \in Watches /\ w.gen = starts'
  <2>1. 2 * pr.clock + 1 \in Nat
    BY <1>2 DEF PrFits, PullRequests
  <2> QED BY <1>3, <2>1 DEF NewWatch, Watches
<1>7. w # None
  BY <1>6, NotNone
<1>8. th2.watch = w
  BY <1>5 DEF ThreadRecords
<1>9. w = NewWatch(starts + 1, 2 * pr.clock + 1)
  BY <1>1
<1> HIDE DEF w
<1>10. /\ th2 \in ThreadRecords(starts') /\ th2.queue = th.queue /\ th2.given = th.given
       /\ th2.delivery = th.delivery
  BY <1>5, <1>6 DEF ThreadRecords
<1> HIDE DEF th2
<1>11. Fits(pr, starts', th2)
  BY <1>1, <1>2, <1>5, <1>8, <1>9, <1>10, NewWatchFits
<1>12. /\ host' \in Hosts(starts') /\ host'.cache = host.cache /\ host'.refresh = host.refresh
       /\ host'.threads[t] = th2
       /\ \A u \in Threads \ {t} : host'.threads[u] = host.threads[u]
  <2>1. host \in Hosts(starts')
    BY <1>2, <1>4 DEF Wider
  <2> QED BY <1>1, <1>10, <2>1, BecomesIs
<1>13. \A u \in Threads : Fits(pr, starts', host'.threads[u])
  <2> SUFFICES ASSUME NEW u \in Threads PROVE Fits(pr, starts', host'.threads[u])
    OBVIOUS
  <2>1. CASE u = t
    BY <1>11, <1>12, <2>1
  <2>2. CASE u # t
    <3>1. Fits(pr, starts, host.threads[u])
      BY ThreadFits
    <3>2. host.threads[u].watch # None => Outlives(pr, pr, starts', host.threads[u].watch)
      BY <1>4, <3>1, SameOutlives DEF Fits, Watched
    <3>3. Fits(pr, starts', host.threads[u])
      BY <1>4, <3>1, <3>2, FitsOutlives
    <3> QED BY <1>12, <2>2, <3>3
  <2> QED BY <2>1, <2>2
<1>14. \A u \in Threads : Steady(starts, host, host', u)
  <2> SUFFICES ASSUME NEW u \in Threads PROVE Steady(starts, host, host', u)
    OBVIOUS
  <2>1. CASE u = t
    BY <1>3, <1>6, <1>8, <1>10, <1>12, <2>1 DEF Steady
  <2>2. CASE u # t
    <3>1. host'.threads[u] = host.threads[u]
      BY <1>12, <2>2
    <3>2. Steadily(host.threads[u], host'.threads[u])
      BY <3>1, SameSteadily
    <3> QED BY <1>12, <3>2, SteadilyIs
  <2> QED BY <2>1, <2>2
<1>15. UNCHANGED <<pr, disk, pass, changes>> /\ upsets' \in 0..MaxUpsets
  BY <1>1, <1>2 DEF ActOnly
<1>16. IInv'
  BY <1>3, <1>12, <1>13, <1>14, <1>15, HostActs
<1>17. \A u \in Threads : ThreadKeeps(u)
  BY <1>7, <1>8, <1>12 DEF ThreadKeeps
<1> QED BY <1>16, <1>17

\* A watch that ends has told why, and all that it held.
EndTold(th, th2) ==
  th.watch # None /\ th2.watch = None =>
    Waiting(th.watch) \subseteq th2.given.ever /\ Reason(th.watch, th2.given.ever)
TellsEnd(t) == EndTold(host.threads[t], host'.threads[t])

LEMMA FollowsTells ==
  ASSUME NEW p, NEW s, NEW th, Fits(p, s, th), NEW th1, th1.watch = th.watch,
         th1.given = th.given, NEW th2, Follows(th1, th2)
  PROVE  EndTold(th, th2)
<1> SUFFICES ASSUME th.watch # None, th2.watch = None
             PROVE  /\ Waiting(th.watch) \subseteq th2.given.ever
                    /\ Reason(th.watch, th2.given.ever)
  BY DEF EndTold
<1> DEFINE w == th.watch
<1>1. ToldTo(th2) \subseteq th2.given.ever
  BY DEF ToldTo, HeldOf
<1>2. Waiting(w) \subseteq th2.given.ever
  <2>1. Waiting(w) \subseteq HeldOf(th1)
    BY DEF HeldOf
  <2>2. HeldOf(th1) \subseteq ToldTo(th2)
    BY DEF Follows
  <2> QED BY <1>1, <2>1, <2>2
<1>3. CASE AtEnd(w)
  <2>1. ToldFits(p, w, th.given.ever \union Waiting(w))
    BY DEF Fits, Watched
  <2>2. Reason(w, th.given.ever \union Waiting(w))
    BY <1>3, <2>1 DEF ToldFits
  <2>3. th.given.ever \subseteq th2.given.ever
    BY DEF Follows
  <2>4. th.given.ever \union Waiting(w) \subseteq th2.given.ever
    BY <1>2, <2>3
  <2>5. Reason(w, th2.given.ever)
    BY <2>2, <2>4 DEF Reason
  <2> QED BY <1>2, <2>5
<1>4. CASE ~AtEnd(w)
  <2>1. Reason(w, ToldTo(th2))
    BY <1>4 DEF Follows
  <2>2. Reason(w, th2.given.ever)
    BY <1>1, <2>1 DEF Reason
  <2> QED BY <1>2, <2>2
<1> QED BY <1>3, <1>4

LEMMA ThreadKeepsTells ==
  ASSUME IInv, NEW t \in Threads, ThreadKeeps(t)
  PROVE  TellsEnd(t)
<1> SUFFICES ASSUME host.threads[t].watch # None, host'.threads[t].watch = None PROVE TellsEnd(t)
  BY DEF TellsEnd, EndTold
<1>1. Fits(pr, starts, host.threads[t]) /\ host.threads[t] \in ThreadRecords(starts)
  BY ThreadFits
<1>2. Keeps(host.threads[t], host'.threads[t])
  BY DEF ThreadKeeps
<1>3. Follows(host.threads[t], host'.threads[t])
  BY <1>1, <1>2, KeepsFollows
<1> QED BY <1>1, <1>3, FollowsTells DEF TellsEnd

LEMMA ResumedIs ==
  ASSUME NEW s, host \in Hosts(s), NEW t \in Threads, NEW h2, h2 = Resumed(t)
  PROVE  /\ h2 \in Hosts(s) /\ h2.cache = host.cache
         /\ h2.threads[t] = [host.threads[t] EXCEPT !.paused = FALSE]
         /\ \A u \in Threads \ {t} : h2.threads[u] = host.threads[u]
         /\ \A u \in Threads : u \notin h2.refresh => u \notin host.refresh
         /\ t \notin h2.refresh => host.threads[t].watch = None
<1> DEFINE th2 == [host.threads[t] EXCEPT !.paused = FALSE]
           threads == [host.threads EXCEPT ![t] = th2]
           refresh == IF host.threads[t].watch # None THEN host.refresh \union {t}
                      ELSE host.refresh
<1>1. host.threads \in [Threads -> ThreadRecords(s)] /\ host.refresh \in SUBSET Threads
  BY DEF Hosts
<1>2. th2 \in ThreadRecords(s)
  BY ZenonT(60), <1>1 DEF ThreadRecords
<1>3. /\ threads \in [Threads -> ThreadRecords(s)] /\ threads[t] = th2
      /\ \A u \in Threads \ {t} : threads[u] = host.threads[u]
      /\ refresh \in SUBSET Threads
      /\ \A u \in Threads : u \notin refresh => u \notin host.refresh
      /\ t \notin refresh => host.threads[t].watch = None
  BY <1>1, <1>2
<1>4. h2 = [host EXCEPT !.threads = threads, !.refresh = refresh]
  BY DEF Resumed
<1> HIDE DEF threads, refresh, th2
<1>5. h2 \in Hosts(s) /\ h2.cache = host.cache /\ h2.refresh = refresh /\ h2.threads = threads
  BY <1>3, <1>4 DEF Hosts
<1> QED BY <1>3, <1>5 DEF th2

LEMMA ResumedFits ==
  ASSUME IInv, NEW t \in Threads, host.threads[t].paused, NEW h2, h2 = Resumed(t)
  PROVE  /\ HostFits(pr, starts, h2) /\ h2.cache = host.cache
         /\ \A u \in Threads :
              /\ Steady(starts, host, h2, u)
              /\ h2.threads[u].watch = host.threads[u].watch
              /\ h2.threads[u].given = host.threads[u].given
<1> DEFINE th == host.threads[t]
           th2 == [th EXCEPT !.paused = FALSE]
<1>1. HostFits(pr, starts, host) /\ host \in Hosts(starts)
  BY DEF IInv, HostFits
<1>2. /\ h2 \in Hosts(starts) /\ h2.cache = host.cache /\ h2.threads[t] = th2
      /\ \A u \in Threads \ {t} : h2.threads[u] = host.threads[u]
      /\ \A u \in Threads : u \notin h2.refresh => u \notin host.refresh
      /\ t \notin h2.refresh => th.watch = None
  BY <1>1, ResumedIs
<1>3. Fits(pr, starts, th) /\ th \in ThreadRecords(starts)
  BY ThreadFits
<1>4. /\ th2 \in ThreadRecords(starts) /\ th2.watch = th.watch /\ th2.queue = th.queue
      /\ th2.given = th.given /\ th2.delivery = th.delivery
  BY <1>3 DEF ThreadRecords
<1> HIDE DEF th2
<1>5. Fits(pr, starts, th2)
  <2>1. th2.delivery # 0 => th2.queue # <<>> /\ th2.delivery = Head(th2.queue).id
    BY <1>3, <1>4 DEF Fits
  <2> QED BY <1>3, <1>4, <2>1, SameFits
<1>6. HostFits(pr, starts, h2)
  BY <1>1, <1>2, <1>5 DEF HostFits
<1>7. ASSUME NEW u \in Threads
      PROVE  /\ Steady(starts, host, h2, u)
             /\ h2.threads[u].watch = host.threads[u].watch
             /\ h2.threads[u].given = host.threads[u].given
  <2>1. CASE u = t
    <3>1. Steady(starts, host, h2, t)
      BY <1>2, <1>4 DEF Steady, SameNews
    <3> QED BY <1>2, <1>4, <2>1, <3>1
  <2>2. CASE u # t
    <3>1. h2.threads[u] = host.threads[u] /\ (u \notin h2.refresh => u \notin host.refresh)
      BY <1>2, <2>2
    <3>2. Steadily(host.threads[u], h2.threads[u])
      BY <3>1, SameSteadily
    <3> QED BY <3>1, <3>2, SteadilyIs
  <2> QED BY <2>1, <2>2
<1> QED BY <1>2, <1>6, <1>7

LEMMA ResumeStep ==
  ASSUME IInv, NEW t \in Threads, Resume(t)
  PROVE  IInv' /\ \A u \in Threads : TellsEnd(u)
<1> DEFINE h2 == Resumed(t)
<1>1. host.threads[t].paused
  BY DEF Resume
<1>2. /\ HostFits(pr, starts, h2) /\ h2.cache = host.cache
      /\ \A u \in Threads :
           /\ Steady(starts, host, h2, u)
           /\ h2.threads[u].watch = host.threads[u].watch
           /\ h2.threads[u].given = host.threads[u].given
  BY <1>1, ResumedFits
<1>3. UNCHANGED <<starts, upsets, pr, disk, changes>>
  BY DEF Resume, ActOnly
<1>4. CASE pass # None
  <2>1. host' = [h2 EXCEPT !.again = TRUE] /\ UNCHANGED pass
    BY <1>4 DEF Resume
  <2> HIDE DEF h2
  <2>2. /\ host' \in Hosts(starts) /\ host'.cache = h2.cache /\ host'.threads = h2.threads
        /\ host'.refresh = h2.refresh
    BY <1>2, <2>1 DEF HostFits, Hosts
  <2>3. \A u \in Threads : Fits(pr, starts, host'.threads[u]) /\ Steady(starts, host, host', u)
    BY <1>2, <2>2 DEF HostFits, Steady
  <2>4. starts \in 0..MaxChanges /\ starts <= starts /\ upsets \in 0..MaxUpsets
    BY BoundsAssumption DEF IInv
  <2>5. IInv'
    BY <1>2, <1>3, <2>1, <2>2, <2>3, <2>4, HostActs
  <2>6. \A u \in Threads : TellsEnd(u)
    BY <1>2, <2>2 DEF TellsEnd, EndTold
  <2> QED BY <2>5, <2>6
<1>5. CASE pass = None
  <2>1. Begins(h2, host', pass')
    BY <1>5, PassBegins DEF Resume
  <2> HIDE DEF h2
  <2>2. CacheFits(pr, h2, None)
    <3>1. HostFits(pr, starts, host) /\ PassFits(starts, host, pass)
          /\ CacheFits(pr, host, pass) /\ ReadingFits(pr, host, pass)
      BY DEF IInv
    <3>2. Wider(starts, starts)
      BY DEF Wider
    <3> QED BY <1>2, <1>5, <3>1, <3>2, SteadyHost
  <2>3. Begun(pr, starts, h2, host', pass')
    BY <1>2, <2>1, <2>2, BeginFits
  <2>4. /\ HostFits(pr, starts, host') /\ CacheFits(pr, host', None)
        /\ PassFits(starts, host', pass') /\ ReadingFits(pr, host', pass')
    BY <2>3 DEF Begun, SweepLeaves
  <2>5. CacheFits(pr, host', pass')
    BY <2>4, CacheFitsAlways
  <2>6. \A u \in Threads : Follows(h2.threads[u], host'.threads[u])
    BY <1>2, <2>3, FollowsNothing DEF Begun, SweepLeaves
  <2>7. \A u \in Threads : SavedFits(pr, starts, disk[u], host'.threads[u].given.ever)
    <3> SUFFICES ASSUME NEW u \in Threads
                 PROVE  SavedFits(pr, starts, disk[u], host'.threads[u].given.ever)
      OBVIOUS
    <3>1. SavedFits(pr, starts, disk[u], host.threads[u].given.ever)
      BY DEF IInv
    <3>2. host.threads[u].given.ever \subseteq host'.threads[u].given.ever
      BY <1>2, <2>6 DEF Follows
    <3> QED BY <3>1, <3>2, SavedMore
  <2>8. IInv'
    BY <1>3, <2>4, <2>5, <2>7 DEF IInv
  <2>9. ASSUME NEW u \in Threads PROVE TellsEnd(u)
    <3>1. Fits(pr, starts, host.threads[u])
      BY ThreadFits
    <3> QED BY <1>2, <2>6, <3>1, FollowsTells DEF TellsEnd
  <2> QED BY <2>8, <2>9
<1> QED BY <1>4, <1>5

LEMMA SaveStep ==
  ASSUME IInv, NEW t \in Threads, Save(t)
  PROVE  IInv'
<1> DEFINE th == host.threads[t]
           saved == Saved(t)
<1>1. Fits(pr, starts, th) /\ th \in ThreadRecords(starts)
  BY ThreadFits
<1>2. saved.watch = th.watch /\ saved.paused = th.paused
  BY DEF Saved
<1>3. saved \in [watch : Watches \union {None}, paused : BOOLEAN]
  BY <1>1 DEF Saved, ThreadRecords
<1>4. disk' = [disk EXCEPT ![t] = saved] /\ UNCHANGED <<pr, host, pass, starts, changes, upsets>>
  BY DEF Save, counts
<1> HIDE DEF saved
<1>5. SavedFits(pr, starts, saved, th.given.ever)
  <2>1. ASSUME saved.watch # None
        PROVE  /\ WatchFits(pr, starts, saved.watch)
               /\ Knowing(pr, saved.watch, Waiting(saved.watch))
               /\ ToldFits(pr, saved.watch, th.given.ever \union Waiting(saved.watch))
    <3>1. Watched(pr, starts, th)
      BY <1>1, <1>2, <2>1 DEF Fits
    <3>2. Knowing(pr, th.watch, th.given.since \union QueueText(th) \union Waiting(th.watch))
      BY <3>1 DEF Watched
    <3>3. Knowing(pr, th.watch, Waiting(th.watch))
      BY <3>2, KnowingLess
    <3> QED BY <1>2, <3>1, <3>3 DEF Watched
  <2> QED BY <1>3, <2>1 DEF SavedFits
<1>6. disk \in [Threads -> [watch : Watches \union {None}, paused : BOOLEAN]]
      /\ \A u \in Threads : SavedFits(pr, starts, disk[u], host.threads[u].given.ever)
  BY DEF IInv
<1>7. disk' \in [Threads -> [watch : Watches \union {None}, paused : BOOLEAN]]
  BY <1>3, <1>4, <1>6
<1>8. \A u \in Threads : SavedFits(pr, starts, disk'[u], host.threads[u].given.ever)
  BY <1>4, <1>5, <1>6
<1> QED BY <1>4, <1>7, <1>8 DEF IInv

\* What is made of a saved thread: nothing is queued, and nothing was given since.
LEMMA ResidentFits ==
  ASSUME NEW p, NEW s, NEW saved, NEW ever, SavedFits(p, s, saved, ever),
         ever \subseteq NewsTo(s)
  PROVE  Fits(p, s, Resident(saved, ever))
<1> DEFINE th == Resident(saved, ever)
<1>1. /\ th.watch = saved.watch /\ th.paused = saved.paused /\ th.queue = <<>>
      /\ th.delivery = 0 /\ th.agent = "idle"
      /\ th.given = [ever |-> ever, since |-> {}, twice |-> {}]
  BY DEF Resident
<1>2. th.given.ever = ever /\ th.given.since = {} /\ th.given.twice = {}
  BY <1>1
<1>3. saved.watch \in Watches \union {None} /\ saved.paused \in BOOLEAN
  BY DEF SavedFits
<1>4. th \in ThreadRecords(s)
  <2>1. <<>> \in Seq(Messages(s)) /\ 0 \in Nat
    OBVIOUS
  <2> QED BY <1>3, <2>1 DEF Resident, ThreadRecords, Turns
<1> HIDE DEF th
<1>5. DOMAIN th.queue = {}
  BY <1>1
<1>6. Once(th)
  BY <1>2, <1>5 DEF Once
<1>7. ASSUME th.watch # None PROVE Watched(p, s, th)
  <2>1. /\ WatchFits(p, s, th.watch) /\ Knowing(p, th.watch, Waiting(th.watch))
        /\ ToldFits(p, th.watch, ever \union Waiting(th.watch))
    BY <1>1, <1>7 DEF SavedFits
  <2>2. PendingOnce(th)
    BY <1>2, <1>5 DEF PendingOnce, HeldOnce
  <2>3. th.given.since \union QueueText(th) \union Waiting(th.watch) \subseteq Waiting(th.watch)
    BY <1>2, <1>5 DEF QueueText, Texted
  <2>4. Knowing(p, th.watch, th.given.since \union QueueText(th) \union Waiting(th.watch))
    BY <2>1, <2>3, KnowingLess
  <2> QED BY <1>2, <2>1, <2>2, <2>4 DEF Watched
<1>8. Fits(p, s, th)
  BY <1>1, <1>4, <1>6, <1>7 DEF Fits
<1> QED BY <1>8 DEF th

LEMMA RestartStep == IInv /\ Restart => IInv'
<1> SUFFICES ASSUME IInv, Restart PROVE IInv'
  OBVIOUS
<1> DEFINE threads == [t \in Threads |-> Resident(disk[t], host.threads[t].given.ever)]
<1>1. host' = HostWith(threads) /\ pass' = None /\ UNCHANGED <<pr, disk, starts, changes>>
  BY DEF Restart
<1>2. upsets' \in 0..MaxUpsets
  BY UpsetsIs DEF Restart, UpsetsBound
<1>3. ASSUME NEW t \in Threads
      PROVE  /\ Fits(pr, starts, threads[t]) /\ threads[t] \in ThreadRecords(starts)
             /\ threads[t].given.ever = host.threads[t].given.ever
             /\ SavedFits(pr, starts, disk[t], host.threads[t].given.ever)
  <2>1. SavedFits(pr, starts, disk[t], host.threads[t].given.ever)
    BY DEF IInv
  <2>2. host.threads[t].given.ever \subseteq NewsTo(starts)
    <3>1. host.threads[t] \in ThreadRecords(starts)
      BY ThreadFits
    <3> QED BY <3>1 DEF ThreadRecords
  <2>3. Fits(pr, starts, Resident(disk[t], host.threads[t].given.ever))
    BY <2>1, <2>2, ResidentFits
  <2>4. threads[t] = Resident(disk[t], host.threads[t].given.ever)
    OBVIOUS
  <2>5. threads[t].given.ever = host.threads[t].given.ever
    BY <2>4 DEF Resident
  <2> QED BY ZenonT(60), <2>1, <2>3, <2>4, <2>5 DEF Fits
<1>4. threads \in [Threads -> ThreadRecords(starts)]
  BY <1>3
<1> HIDE DEF threads
<1>5. /\ host' \in Hosts(starts) /\ host'.threads = threads /\ host'.cache = None
  BY <1>1, <1>4 DEF HostWith, Hosts
<1>6. HostFits(pr, starts, host')
  BY <1>3, <1>5 DEF HostFits
<1>7. /\ PassFits(starts, host', pass') /\ CacheFits(pr, host', pass')
      /\ ReadingFits(pr, host', pass')
  BY <1>1, <1>5 DEF PassFits, CacheFits, ReadingFits
<1>8. \A t \in Threads : SavedFits(pr, starts, disk[t], host'.threads[t].given.ever)
  BY <1>3, <1>5
<1> QED BY <1>1, <1>2, <1>6, <1>7, <1>8 DEF IInv

-------------------------------------------------------------------------------
(* The theorems *)

LEMMA InitInv == Init => IInv
<1> SUFFICES ASSUME Init PROVE IInv
  OBVIOUS
<1> DEFINE threads == [t \in Threads |-> Resident(disk[t], {})]
<1>1. /\ host = HostWith(threads) /\ pass = None /\ starts = 0 /\ changes = 0 /\ upsets = 0
      /\ disk = [t \in Threads |-> [watch |-> None, paused |-> FALSE]]
      /\ pr = [state |-> "open", clock |-> 0, head |-> 0,
               checks |-> [c \in Checks |-> "pending"], runs |-> [c \in Checks |-> 0],
               remarks |-> <<>>]
  BY DEF Init
<1>2. PrFits(pr, 0)
  <2>1. pr \in PullRequests
    <3>1. /\ [c \in Checks |-> "pending"] \in [Checks -> {"pending", "failed", "passed"}]
          /\ [c \in Checks |-> 0] \in [Checks -> Nat] /\ <<>> \in Seq(Nat)
      OBVIOUS
    <3> QED BY <1>1, <3>1 DEF PullRequests
  <2>2. \A c \in Checks : pr.runs[c] <= 0
    BY <1>1
  <2>3. DOMAIN pr.remarks = {}
    BY <1>1
  <2> QED BY <2>1, <2>2, <2>3 DEF PrFits
<1>3. ASSUME NEW t \in Threads
      PROVE  /\ SavedFits(pr, 0, disk[t], {})
             /\ Fits(pr, 0, threads[t]) /\ threads[t] \in ThreadRecords(0)
             /\ threads[t].given.ever = {}
  <2>1. SavedFits(pr, 0, disk[t], {})
    BY <1>1 DEF SavedFits
  <2>2. Fits(pr, 0, Resident(disk[t], {}))
    BY <2>1, ResidentFits
  <2>3. threads[t] = Resident(disk[t], {})
    OBVIOUS
  <2>4. threads[t].given.ever = {}
    BY <2>3 DEF Resident
  <2> QED BY <2>1, <2>2, <2>3, <2>4 DEF Fits
<1>4. threads \in [Threads -> ThreadRecords(0)]
  BY <1>3
<1> HIDE DEF threads
<1>5. host \in Hosts(0) /\ host.threads = threads /\ host.cache = None
  BY <1>1, <1>4 DEF HostWith, Hosts
<1>6. HostFits(pr, 0, host)
  BY <1>3, <1>5 DEF HostFits
<1>7. PassFits(0, host, pass) /\ CacheFits(pr, host, pass) /\ ReadingFits(pr, host, pass)
  BY <1>1, <1>5 DEF PassFits, CacheFits, ReadingFits
<1>8. \A t \in Threads : SavedFits(pr, 0, disk[t], host.threads[t].given.ever)
  BY <1>3, <1>5
<1>9. disk \in [Threads -> [watch : Watches \union {None}, paused : BOOLEAN]]
  BY <1>1
<1>10. 0 \in 0..MaxChanges /\ 0 \in 0..MaxUpsets
  BY BoundsAssumption
<1> QED BY <1>1, <1>2, <1>6, <1>7, <1>8, <1>9, <1>10 DEF IInv

\* What a step does of which EndsAreTold speaks.
EndsTold(t) == TellsEnd(t) \/ Unwatch(t) \/ Settle(t) \/ Restart

LEMMA PassActs == IInv /\ Pass => IInv' /\ \A t \in Threads : EndsTold(t)
<1> SUFFICES ASSUME IInv, Pass PROVE IInv' /\ \A t \in Threads : EndsTold(t)
  OBVIOUS
<1>1. PassKeeps /\ PassOnly
  BY PassStep
<1>2. UNCHANGED <<pr, disk, starts, changes, upsets>>
  BY <1>1 DEF PassOnly, counts
<1>3. IInv'
  BY <1>1, <1>2, PassKeepsInv
<1>4. ASSUME NEW t \in Threads PROVE TellsEnd(t)
  <2>1. Fits(pr, starts, host.threads[t])
    BY ThreadFits
  <2>2. Follows(host.threads[t], host'.threads[t])
    BY <1>1 DEF PassKeeps
  <2> QED BY <2>1, <2>2, FollowsTells DEF TellsEnd
<1> QED BY <1>3, <1>4 DEF EndsTold

LEMMA PeopleActs ==
  ASSUME IInv, NEW t \in Threads, People(t)
  PROVE  IInv' /\ \A u \in Threads : EndsTold(u)
<1>1. CASE Watch(t)
  BY <1>1, WatchStep, ThreadKeepsTells DEF EndsTold
<1>2. CASE Unwatch(t)
  <2>1. IInv' /\ \A u \in Threads \ {t} : ThreadKeeps(u)
    BY <1>2, UnwatchStep
  <2>2. \A u \in Threads \ {t} : TellsEnd(u)
    BY <2>1, ThreadKeepsTells
  <2> QED BY <1>2, <2>1, <2>2 DEF EndsTold
<1>3. CASE Pause(t)
  BY <1>3, PauseStep, ThreadKeepsTells DEF EndsTold
<1>4. CASE Resume(t)
  BY <1>4, ResumeStep DEF EndsTold
<1>5. CASE Settle(t)
  <2>1. IInv' /\ \A u \in Threads \ {t} : ThreadKeeps(u)
    BY <1>5, SettleStep
  <2>2. \A u \in Threads \ {t} : TellsEnd(u)
    BY <2>1, ThreadKeepsTells
  <2> QED BY <1>5, <2>1, <2>2 DEF EndsTold
<1> QED BY <1>1, <1>2, <1>3, <1>4, <1>5 DEF People

LEMMA AgentActs ==
  ASSUME IInv, NEW t \in Threads, Agent(t) \/ TurnBegins(t) \/ AgentDies(t)
  PROVE  IInv' /\ \A u \in Threads : EndsTold(u)
<1>1. IInv' /\ \A u \in Threads : ThreadKeeps(u)
  BY TurnEndsStep, DispatchStep, AcceptStep, TurnBeginsStep, AgentDiesStep DEF Agent
<1> QED BY <1>1, ThreadKeepsTells DEF EndsTold

LEMMA HostUnchanged ==
  ASSUME UNCHANGED host, NEW t
  PROVE  EndsTold(t)
BY DEF EndsTold, TellsEnd, EndTold

\* A step keeps the invariant, and ends no watch without a word.
LEMMA NextStep ==
  ASSUME IInv, [Next]_vars
  PROVE  IInv' /\ \A t \in Threads : EndsTold(t)
<1>1. CASE Pass
  BY <1>1, PassActs
<1>2. CASE PullRequest
  <2>1. UNCHANGED host
    BY <1>2, PullRequestMoves DEF ChangeOnly
  <2> QED BY <1>2, <2>1, PullRequestStep, HostUnchanged
<1>3. CASE Restart
  BY <1>3, RestartStep DEF EndsTold
<1>4. ASSUME NEW t \in Threads, People(t)
      PROVE  IInv' /\ \A u \in Threads : EndsTold(u)
  BY <1>4, PeopleActs
<1>5. ASSUME NEW t \in Threads, Agent(t) \/ TurnBegins(t) \/ AgentDies(t)
      PROVE  IInv' /\ \A u \in Threads : EndsTold(u)
  BY <1>5, AgentActs
<1>6. ASSUME NEW t \in Threads, Save(t)
      PROVE  IInv' /\ \A u \in Threads : EndsTold(u)
  <2>1. UNCHANGED host
    BY <1>6 DEF Save
  <2> QED BY <1>6, <2>1, SaveStep, HostUnchanged
<1>7. CASE UNCHANGED vars
  <2>1. UNCHANGED host
    BY <1>7 DEF vars
  <2>2. IInv'
    BY <1>7 DEF vars, counts, IInv
  <2> QED BY <2>1, <2>2, HostUnchanged
<1> QED BY <1>1, <1>2, <1>3, <1>4, <1>5, <1>6, <1>7 DEF Next

\* The worker, the threads and what is saved of them fit the pull request
\* (pull_request_watch.rs:136-175, 636-816), whoever steps.
THEOREM Invariance == Spec => []IInv
<1>1. IInv /\ [Next]_vars => IInv'
  BY NextStep
<1> QED BY InitInv, <1>1, PTL DEF Spec

LEMMA TextIsText ==
  ASSUME NEW text \in Texts(starts)
  PROVE  IsText(text)
<1>1. Items = NewsTo(starts)
  BY DEF Items, Gens, NewsTo
<1>2. \A i \in DOMAIN text : text[i] \subseteq NewsTo(starts) /\ text[i] # {}
  BY TextSaid
<1> QED BY <1>1, <1>2 DEF IsText

LEMMA WatchIsWatch ==
  ASSUME NEW w, WatchFits(pr, starts, w)
  PROVE  IsWatch(w)
<1>1. /\ w \in Watches /\ w.gen \in 1..starts /\ w.head \in 0..pr.head \union {None}
      /\ w.ids \subseteq DOMAIN pr.remarks /\ w.wakes < WakeLimit
  BY DEF WatchFits
<1>2. /\ w.failed \subseteq Checks /\ w.passed \in BOOLEAN /\ w.passedChecks \subseteq Checks
      /\ w.from \in Nat /\ w.through \in Nat /\ w.wakes \in Nat
  BY <1>1 DEF Watches
<1>3. w.wakes \in 0..WakeLimit
  BY <1>1, <1>2, BoundsAssumption
<1>4. ASSUME w.pending # None
      PROVE  /\ w.pending.id \in Nat \ {0} /\ IsText(w.pending.text)
             /\ w.pending.last \in BOOLEAN
  <2>1. w.pending \in WakesTo(starts)
    BY <1>4 DEF WatchFits
  <2>2. w.pending.id \in Nat \ {0} /\ w.pending.text \in Texts(starts)
        /\ w.pending.last \in BOOLEAN
    BY <2>1 DEF WakesTo, Wakes
  <2> QED BY <2>2, TextIsText
<1> QED BY <1>1, <1>2, <1>3, <1>4 DEF IsWatch, Gens

\* Types; the wakes of a queue are told apart by their ids, and the one being delivered
\* heads its queue (pull_request_watch.rs:729-734, send.rs:535-546).
THEOREM TypesHold == Spec => []TypeOK
<1>1. ASSUME IInv PROVE TypeOK
  <2>1. /\ pr \in PullRequests
        /\ disk \in [Threads -> [watch : Watches \union {None}, paused : BOOLEAN]]
    BY <1>1 DEF IInv, PrFits
  <2>2. /\ pr.state \in {"open", "closed", "merged"} /\ pr.clock \in Nat /\ pr.head \in Nat
        /\ pr.checks \in [Checks -> {"pending", "failed", "passed"}]
        /\ pr.runs \in [Checks -> Nat] /\ pr.remarks \in Seq(Nat)
    BY <2>1 DEF PullRequests
  <2>3. ASSUME NEW t \in Threads
        PROVE  /\ host.threads[t].watch = None \/ IsWatch(host.threads[t].watch)
               /\ disk[t].watch = None \/ IsWatch(disk[t].watch)
               /\ host.threads[t].paused \in BOOLEAN /\ disk[t].paused \in BOOLEAN
    <3>1. Fits(pr, starts, host.threads[t]) /\ host.threads[t] \in ThreadRecords(starts)
      BY <1>1, ThreadFits
    <3>2. SavedFits(pr, starts, disk[t], host.threads[t].given.ever)
      BY <1>1 DEF IInv
    <3>3. host.threads[t].watch = None \/ IsWatch(host.threads[t].watch)
      BY <3>1, WatchIsWatch DEF Fits, Watched
    <3>4. disk[t].watch = None \/ IsWatch(disk[t].watch)
      BY <3>2, WatchIsWatch DEF SavedFits
    <3>5. host.threads[t].paused \in BOOLEAN
      BY <3>1 DEF ThreadRecords
    <3>6. disk[t].paused \in BOOLEAN
      BY <3>2 DEF SavedFits
    <3> QED BY <3>3, <3>4, <3>5, <3>6
  <2>4. ASSUME NEW t \in Threads
        PROVE  /\ \A i, j \in DOMAIN host.threads[t].queue : i # j =>
                    host.threads[t].queue[i].id # host.threads[t].queue[j].id
               /\ \A i \in DOMAIN host.threads[t].queue : IsText(host.threads[t].queue[i].text)
               /\ host.threads[t].delivery # 0 =>
                    /\ host.threads[t].queue # <<>>
                    /\ host.threads[t].delivery = Head(host.threads[t].queue).id
               /\ host.threads[t].agent \in Turns
               /\ host.threads[t].given.ever \subseteq Items
               /\ host.threads[t].given.since \subseteq host.threads[t].given.ever
               /\ host.threads[t].given.twice \subseteq host.threads[t].given.since
    <3> DEFINE th == host.threads[t]
    <3>1. Fits(pr, starts, th) /\ th \in ThreadRecords(starts)
      BY <1>1, ThreadFits
    <3> HIDE DEF th
    <3>2. Once(th)
      BY <3>1 DEF Fits
    <3>3. \A i \in DOMAIN th.queue : IsText(th.queue[i].text)
      <4> SUFFICES ASSUME NEW i \in DOMAIN th.queue PROVE IsText(th.queue[i].text)
        OBVIOUS
      <4>1. th.queue \in Seq(Messages(starts))
        BY <3>1 DEF ThreadRecords
      <4>2. th.queue[i] \in Messages(starts)
        BY <4>1, SequenceElements
      <4>3. th.queue[i].text \in Texts(starts)
        BY <4>2 DEF Messages
      <4> QED BY <4>3, TextIsText
    <3>4. th.agent \in Turns /\ th.given.ever \subseteq NewsTo(starts)
      BY <3>1 DEF ThreadRecords
    <3>5. NewsTo(starts) = Items
      BY DEF Items, Gens, NewsTo
    <3>6. \A i, j \in DOMAIN th.queue : i # j => th.queue[i].id # th.queue[j].id
      BY <3>2 DEF Once
    <3>7. th.given.since \subseteq th.given.ever /\ th.given.twice \subseteq th.given.since
      BY <3>2 DEF Once
    <3>8. th.delivery # 0 => th.queue # <<>> /\ th.delivery = Head(th.queue).id
      BY <3>1 DEF Fits
    <3> QED BY <3>3, <3>4, <3>5, <3>6, <3>7, <3>8 DEF th
  <2>5. /\ host.refresh \subseteq Threads /\ host.failures \in Nat /\ host.again \in BOOLEAN
        /\ host.cache = None \/ host.cache.watches \subseteq Threads \X Gens
    <3>1. host \in Hosts(starts)
      BY <1>1 DEF IInv, HostFits
    <3>2. host.cache # None => host.cache.watches \subseteq Threads \X (1..starts)
      BY <3>1, CacheIs
    <3> QED BY <3>1, <3>2 DEF Hosts, Gens
  <2>6. \/ pass = None
        \/ pass.step \in {"asked", "reading"} /\ pass.targets \subseteq Threads \X Gens
    BY <1>1 DEF IInv, PassFits, Passes, Gens
  <2>7. {starts, changes} \subseteq 0..MaxChanges /\ upsets \in 0..MaxUpsets
    BY <1>1 DEF IInv
  <2>8. \A t \in Threads : \A saved \in {host.threads[t], disk[t]} :
          (saved.watch = None \/ IsWatch(saved.watch)) /\ saved.paused \in BOOLEAN
    BY <2>3
  <2> QED BY <2>2, <2>4, <2>5, <2>6, <2>7, <2>8 DEF TypeOK
<1> QED BY Invariance, <1>1, PTL

\* Between two restarts no provider is given the same news twice, though every pass delivers
\* again what waits (pull_request_watch.rs:254-268, 504-514, 712-766).
THEOREM NewsIsToldOnce == Spec => []ToldOnce
<1>1. ASSUME IInv PROVE ToldOnce
  BY <1>1, ThreadFits DEF Fits, Once, ToldOnce
<1> QED BY Invariance, <1>1, PTL

\* What a watch takes its agent to know was told or waits to be, in memory and in what is
\* saved: no order of writes, wakes and acceptances opens a gap
\* (pull_request_watch.rs:636-710, 770-816).
THEOREM KnowledgeIsTold == Spec => []KnownIsTold
<1>1. ASSUME IInv PROVE KnownIsTold
  <2> SUFFICES ASSUME NEW t \in Threads,
                      NEW w \in {host.threads[t].watch, disk[t].watch} \ {None}
               PROVE  /\ Knows(w) \subseteq host.threads[t].given.ever \union Waiting(w)
                      /\ KnowsFailures(w, host.threads[t].given.ever \union Waiting(w))
    BY DEF KnownIsTold
  <2>1. Fits(pr, starts, host.threads[t])
        /\ SavedFits(pr, starts, disk[t], host.threads[t].given.ever)
    BY <1>1, ThreadFits DEF IInv
  <2>2. ToldFits(pr, w, host.threads[t].given.ever \union Waiting(w))
    <3>1. CASE w = host.threads[t].watch
      <4>1. Watched(pr, starts, host.threads[t])
        BY <2>1, <3>1 DEF Fits
      <4> QED BY <3>1, <4>1 DEF Watched
    <3>2. CASE w = disk[t].watch
      <4>1. disk[t].watch # None
        BY <3>2
      <4>2. ToldFits(pr, disk[t].watch, host.threads[t].given.ever \union Waiting(disk[t].watch))
        BY <2>1, <4>1 DEF SavedFits
      <4> QED BY <3>2, <4>2
    <3> QED BY <3>1, <3>2
  <2>3. Knows(w) = KnownOf(pr, w)
    BY DEF Knows, KnownOf
  <2> QED BY <2>2, <2>3 DEF ToldFits
<1> QED BY Invariance, <1>1, PTL

\* A pass that takes its remarks from the cache, because the forge counts as many as then,
\* misses none (pull_request_watch.rs:136-175, 357-372, 566-606).
THEOREM CacheMissesNothing == Spec => []CacheIsCurrent
<1>1. ASSUME IInv PROVE CacheIsCurrent
  <2> SUFFICES ASSUME NEW t \in Threads, Compared(t), host.cache.complete,
                      host.cache.print # None, host.cache.print.remarks = Len(pr.remarks),
                      NEW i \in Fresh(host.threads[t].watch, pr.remarks)
               PROVE  FALSE
    BY DEF CacheIsCurrent
  <2>1. Read(host, t) /\ host.cache # None /\ (pass = None \/ pass.step = "asked")
    BY DEF Compared, Watching, Active, Read, AtEnd
  <2>2. CacheFits(pr, host, pass)
    BY <1>1 DEF IInv
  <2>3. host.cache.print.remarks < i
    BY <2>1, <2>2 DEF CacheFits
  <2>4. i \in 1..Len(pr.remarks) /\ Len(pr.remarks) \in Nat
    <3>1. pr.remarks \in Seq(Nat)
      BY <1>1 DEF IInv, PrFits, PullRequests
    <3> QED BY <3>1, SequenceElements DEF Fresh
  <2> QED BY <2>3, <2>4
<1> QED BY Invariance, <1>1, PTL

\* A watch that ends without being asked to has told its agent why, and all it still held
\* (pull_request_watch.rs:672-697, 770-816).
THEOREM EndsAreExplained == Spec => EndsAreTold
<1> DEFINE Step ==
      \A t \in Threads :
        LET w == host.threads[t].watch
        IN w # None /\ host'.threads[t].watch = None
             => SaysWhy(w, host'.threads[t].given.ever) \/ Unwatch(t) \/ Settle(t) \/ Restart
<1>1. ASSUME IInv, [Next]_vars PROVE Step
  <2> SUFFICES ASSUME NEW t \in Threads, host.threads[t].watch # None,
                      host'.threads[t].watch = None, TellsEnd(t)
               PROVE  SaysWhy(host.threads[t].watch, host'.threads[t].given.ever)
    BY <1>1, NextStep DEF EndsTold
  <2>1. /\ Waiting(host.threads[t].watch) \subseteq host'.threads[t].given.ever
        /\ Reason(host.threads[t].watch, host'.threads[t].given.ever)
    BY DEF TellsEnd, EndTold
  <2> QED BY <2>1 DEF Reason, Ending, SaysWhy
<1>2. ASSUME IInv, [Next]_vars PROVE [Step]_vars
  BY <1>1, <1>2
<1>3. IInv /\ [Next]_vars => [Step]_vars
  BY <1>2
<1> QED BY Invariance, <1>3, PTL DEF Spec, EndsAreTold
=============================================================================
